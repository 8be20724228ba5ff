----------------------------- MODULE BayRunProofs -----------------------------
(* What bay.rs has its script and its users promised, for any topology, firmware,   *)
(* interleaving of the simulator, the readers, the bridge, the hosts and the        *)
(* runner, and any mishap: planned power cycles restart a host exactly once each    *)
(* and never meet a terminal the killed process still held, a published sample is   *)
(* honest, and a bay that passed was executed to its end.                           *)
EXTENDS BayRun, ListTheorems

-----------------------------------------------------------------------------
(* Planned power cycles. *)

Early == {"validate", "wait", "wait_poll", "wait_last", "start", "give_up", "give_up_join"}
Live == {"receive", "kill", "poll", "check_hosts", "read_sample", "reboot", "shutdown", "join",
         "passed"}

Cycles(h) == {i \in completed : topology.events[i].node = h}

HostStates == {"absent", "starting", "open", "exited", "killed", "refused"}

\* The events of the plan, and the part of it that is done and about to be done.
PlanInv ==
    /\ DOMAIN topology.events \subseteq Nat
    /\ IsFiniteSet(completed)
    /\ due \subseteq HostReboots /\ due \cap completed = {}

HostsTyped ==
    hosts \in [HostNames -> [state : HostStates, starts : Nat, log : Nat]]

\* Before the hosts are started nothing was claimed, kept open or done.
Untouched ==
    /\ \A h \in HostNames : hosts[h].state = "absent" /\ hosts[h].starts = 0
    /\ exclusive = {} /\ guards = {} /\ completed = {} /\ due = {}

\* Once they are, the runner keeps every terminal of every host open, and a
\* host that is being started finds its terminals free.
Served ==
    /\ HostNames # {} => guards = Terminals \ Bridged
    /\ \A h \in HostNames :
          /\ hosts[h].state # "refused"
          /\ hosts[h].state = "starting" => TerminalsOf(h) \cap exclusive = {}
          /\ hosts[h].starts = 1 + Cardinality(Cycles(h))

HostInv ==
    /\ runner \in Early \cup Live \cup {"failed"}
    /\ PlanInv /\ HostsTyped
    /\ runner \in Early => Untouched
    /\ runner \in Live => Served

-----------------------------------------------------------------------------
LEMMA MinIn ==
    ASSUME NEW T, T \subseteq Nat, T # {}
    PROVE  Min(T) \in T
BY Smallest DEF Min

\* What the topology decides stays as it is.
LEMMA Static ==
    ASSUME topology' = topology
    PROVE  /\ HostNames' = HostNames /\ NodeNames' = NodeNames
           /\ Terminals' = Terminals /\ Bridged' = Bridged
           /\ HostReboots' = HostReboots
           /\ \A h : TerminalsOf(h)' = TerminalsOf(h)
BY DEF HostNames, NodeNames, Terminals, HostsOf, Bridged, Transport, SerialsOf, HostReboots,
       TerminalsOf

\* Steps of the other threads, and of the runner between two power cycles.
LEMMA Kept ==
    ASSUME HostInv, UNCHANGED <<topology, hostVars, completed>>,
           due' = due \/ (due' \subseteq HostReboots /\ due' \cap completed = {} /\ runner \in Live),
           runner' \in Early \cup Live \cup {"failed"},
           runner' \in Early => runner \in Early,
           runner' \in Live => runner \in Live \/ HostNames = {}
    PROVE  HostInv'
<1>1. UNCHANGED <<hosts, exclusive, guards>>
  BY DEF hostVars
<1>2. PlanInv' /\ HostsTyped'
  BY <1>1, Static DEF HostInv, PlanInv, HostsTyped
<1>3. runner' \in Early => Untouched'
  <2>1. Early \cap Live = {}
    BY DEF Early, Live
  <2> QED
    BY <1>1, <2>1, Static DEF HostInv, Untouched
<1>4. runner' \in Live => Served'
  BY <1>1, Static DEF HostInv, Served, Cycles
<1> QED
  BY <1>2, <1>3, <1>4 DEF HostInv

LEMMA InitHosts == Init => HostInv
<1> SUFFICES ASSUME Init PROVE HostInv
  OBVIOUS
<1>1. PICK bay \in Bays : topology = bay[1] /\ guest = bay[2]
  BY DEF Init
<1>2. PlanInv
  <2>1. topology.events \in Seq(Elements(topology.events))
    BY <1>1, BaysAssumption DEF Listed, List
  <2>2. DOMAIN topology.events \subseteq Nat
    BY <2>1
  <2> QED
    BY <2>2, FS_EmptySet DEF Init, PlanInv
<1>3. HostsTyped
  BY DEF Init, HostsTyped, HostStates
<1>4. Untouched
  BY DEF Init, Untouched
<1>5. runner = "validate" /\ runner \in Early /\ runner \notin Live
  BY DEF Init, Early, Live
<1> QED
  BY <1>2, <1>3, <1>4, <1>5 DEF HostInv

\* Steps of the simulator, the readers and the bridge.
LEMMA WorldStep ==
    ASSUME HostInv,
           \/ SimulatorStep \/ SimulatorFault \/ BridgeFails \/ BridgeCut \/ BridgeStops
           \/ \E p \in Pipes : Reader(p) \/ ReaderFails(p)
    PROVE  HostInv'
<1>1. UNCHANGED <<topology, hostVars, rounds, runner>>
  <2>1. CASE SimulatorStep
    BY <2>1 DEF SimulatorStep, CommandRuns, ScriptQuits, ChildEnds, Others
  <2>2. CASE SimulatorFault
    BY <2>2 DEF SimulatorFault, RuntimeCrashes, CommandFails, FaultLogged, Others
  <2>3. CASE BridgeFails \/ BridgeCut \/ BridgeStops
    BY <2>3 DEF BridgeFails, BridgeCut, BridgeStops, BridgeEnds, BridgeOthers
  <2>4. CASE \E p \in Pipes : Reader(p) \/ ReaderFails(p)
    <3>1. PICK p \in Pipes : Reader(p) \/ ReaderFails(p)
      BY <2>4
    <3> QED
      BY <3>1 DEF Reader, ReadLine, ReaderEnds, PublishSample, ReaderFails, ReaderOthers
  <2> QED
    BY <2>1, <2>2, <2>3, <2>4
<1> QED
  BY <1>1, Kept DEF rounds, HostInv

\* A host claims its terminals or dies; while it is starting they are free.
LEMMA HostStep ==
    ASSUME HostInv, ~Over, NEW h \in HostNames, HostOpens(h) \/ HostExits(h)
    PROVE  HostInv'
<1>1. /\ UNCHANGED <<topology, guards, due, completed, runner>>
      /\ hosts[h].state \in {"starting", "open"}
  BY DEF HostOpens, HostExits, HostOthers, rounds
<1>2. runner \in Live \cup {"failed"} /\ runner \notin Early /\ runner # "failed"
  BY <1>1 DEF HostInv, Untouched, Over
<1>3. Served
  BY <1>2 DEF HostInv
<1>4. \E s \in {"open", "exited"}, n \in Nat :
         hosts' = [hosts EXCEPT ![h] = [state |-> s, starts |-> hosts[h].starts, log |-> n]]
  <2>1. hosts[h] = [state |-> hosts[h].state, starts |-> hosts[h].starts, log |-> hosts[h].log]
        /\ hosts[h].log \in Nat
    BY DEF HostInv, HostsTyped
  <2>2. CASE HostOpens(h)
    <3>1. hosts[h].state = "starting" /\ TerminalsOf(h) \cap exclusive = {}
      BY <2>2, <1>3 DEF HostOpens, Served
    <3>2. hosts' = [hosts EXCEPT ![h].state = "open", ![h].log = @ + 1]
      BY <2>2, <3>1 DEF HostOpens
    <3>3. hosts' = [hosts EXCEPT ![h] = [state |-> "open", starts |-> hosts[h].starts,
                                         log |-> hosts[h].log + 1]]
      BY <2>1, <3>2 DEF HostInv, HostsTyped
    <3>4. hosts[h].log + 1 \in Nat
      BY <2>1
    <3> QED
      BY <3>3, <3>4
  <2>3. CASE HostExits(h)
    <3>1. hosts' = [hosts EXCEPT ![h] = [hosts[h] EXCEPT !.state = "exited"]]
      BY <2>3 DEF HostExits
    <3>2. [hosts[h] EXCEPT !.state = "exited"] =
             [state |-> "exited", starts |-> hosts[h].starts, log |-> hosts[h].log]
      BY <2>1
    <3>3. hosts' = [hosts EXCEPT ![h] = [state |-> "exited", starts |-> hosts[h].starts,
                                         log |-> hosts[h].log]]
      BY <3>1, <3>2
    <3> QED
      BY <2>1, <3>3
  <2> QED
    BY <2>2, <2>3
<1>5. exclusive' \subseteq exclusive \cup TerminalsOf(h)
  BY DEF HostOpens, HostExits
<1>6. HostsTyped'
  <2>1. hosts[h].starts \in Nat
    BY DEF HostInv, HostsTyped
  <2>2. HostNames' = HostNames
    BY <1>1, Static
  <2> QED
    BY <1>4, <2>1, <2>2 DEF HostInv, HostsTyped, HostStates
<1>7. /\ \A g \in HostNames : hosts'[g].starts = hosts[g].starts
      /\ \A g \in HostNames : g # h => hosts'[g] = hosts[g]
      /\ hosts'[h].state \in {"open", "exited"}
  BY <1>4 DEF HostInv, HostsTyped
<1>8. Served'
  <2>1. \A g \in HostNames : g # h => TerminalsOf(g) \cap TerminalsOf(h) = {}
    BY DEF TerminalsOf
  <2>2. \A g \in HostNames : Cycles(g)' = Cycles(g)
    BY <1>1 DEF Cycles
  <2>3. /\ HostNames' = HostNames /\ Terminals' = Terminals /\ Bridged' = Bridged
        /\ \A g : TerminalsOf(g)' = TerminalsOf(g)
    BY <1>1, Static
  <2>4. ASSUME NEW g \in HostNames
        PROVE  /\ hosts'[g].state # "refused"
               /\ hosts'[g].state = "starting" => TerminalsOf(g) \cap exclusive' = {}
               /\ hosts'[g].starts = 1 + Cardinality(Cycles(g))
    BY <1>3, <1>5, <1>7, <2>1 DEF Served
  <2> QED
    BY <1>1, <1>3, <2>2, <2>3, <2>4 DEF Served
<1>9. PlanInv'
  BY <1>1, Static DEF HostInv, PlanInv
<1> QED
  BY <1>1, <1>2, <1>6, <1>8, <1>9 DEF HostInv

\* The first start of every host.
LEMMA StartStep == ASSUME HostInv, StartHosts PROVE HostInv'
<1>1. /\ UNCHANGED <<topology, exclusive, due, completed>>
      /\ runner = "start" /\ runner' = "receive"
      /\ guards' = Terminals \ Bridged
      /\ hosts' = [h \in HostNames |-> Started(h, FALSE)]
  BY DEF StartHosts, RunnerOthers, rounds
<1>2. runner \in Early /\ runner' \in Live /\ runner' \notin Early
  BY <1>1 DEF Early, Live
<1>3. Untouched
  BY <1>2 DEF HostInv
<1>4. \A h \in HostNames : hosts'[h] = [state |-> "starting", starts |-> 1, log |-> 0]
  BY <1>1, <1>3 DEF Started, Untouched
<1>5. HostsTyped'
  <2>1. HostNames' = HostNames
    BY <1>1, Static
  <2>2. \A h \in HostNames : hosts'[h] \in [state : HostStates, starts : Nat, log : Nat]
    BY <1>4 DEF HostStates
  <2> QED
    BY <1>1, <2>1, <2>2 DEF HostsTyped
<1>6. \A h \in HostNames : Cycles(h)' = {} /\ Cardinality({}) = 0
  BY <1>1, <1>3, FS_EmptySet DEF Cycles, Untouched
<1>7. Served'
  <2>1. /\ HostNames' = HostNames /\ Terminals' = Terminals /\ Bridged' = Bridged
        /\ \A g : TerminalsOf(g)' = TerminalsOf(g)
    BY <1>1, Static
  <2>2. exclusive' = {}
    BY <1>1, <1>3 DEF Untouched
  <2>3. ASSUME NEW h \in HostNames
        PROVE  /\ hosts'[h].state # "refused"
               /\ hosts'[h].state = "starting" => TerminalsOf(h) \cap exclusive' = {}
               /\ hosts'[h].starts = 1 + Cardinality(Cycles(h)')
    BY <1>4, <1>6, <2>2
  <2> QED
    BY <1>1, <2>1, <2>3 DEF Served
<1>8. PlanInv'
  BY <1>1, Static DEF HostInv, PlanInv
<1> QED
  BY <1>2, <1>5, <1>7, <1>8 DEF HostInv

\* A power cycle: the runner's descriptor releases what the dead process held.
LEMMA CycleStep ==
    ASSUME HostInv, RebootHost, NEW i, NEW g, i = Min(due), g = topology.events[i].node
    PROVE  HostInv'
<1>1. /\ UNCHANGED <<topology, guards, runner>> /\ runner = "reboot" /\ due # {}
      /\ hosts' = [hosts EXCEPT ![g] = Started(g, TRUE)]
      /\ Release(g)
      /\ due' = due \ {i} /\ completed' = completed \cup {i}
  BY DEF RebootHost, Quietly, RunnerOthers
<1>2. i \in due
  <2>1. due \subseteq Nat
    BY DEF HostInv, PlanInv, HostReboots
  <2> QED
    BY <1>1, <2>1, MinIn
<1>3. g \in HostNames /\ i \notin completed
  BY <1>2 DEF HostInv, PlanInv, HostReboots
<1>4. runner \in Live /\ runner \notin Early /\ Served
  BY <1>1 DEF HostInv, Early, Live
<1>5. exclusive' = exclusive \ {t \in Terminals \ Bridged : t[1] = g}
  BY <1>1, <1>3, <1>4 DEF Served, Release
<1>6. Started(g, TRUE) = [state |-> "starting", starts |-> hosts[g].starts + 1, log |-> hosts[g].log]
  BY DEF Started
<1>7. HostsTyped'
  <2>1. hosts[g].starts \in Nat /\ hosts[g].log \in Nat
    BY <1>3 DEF HostInv, HostsTyped
  <2>2. HostNames' = HostNames
    BY <1>1, Static
  <2>3. Started(g, TRUE) \in [state : HostStates, starts : Nat, log : Nat]
    <3>1. hosts[g].starts + 1 \in Nat
      BY <2>1
    <3>2. "starting" \in HostStates
      BY DEF HostStates
    <3>3. ASSUME NEW n \in Nat, NEW l \in Nat
          PROVE  [state |-> "starting", starts |-> n, log |-> l]
                    \in [state : HostStates, starts : Nat, log : Nat]
      BY <3>2
    <3> QED
      BY <1>6, <2>1, <3>1, <3>3
  <2> QED
    BY <1>1, <1>3, <2>2, <2>3 DEF HostInv, HostsTyped
<1>8. /\ \A h \in HostNames : h # g => hosts'[h] = hosts[h]
      /\ hosts'[g] = [state |-> "starting", starts |-> hosts[g].starts + 1, log |-> hosts[g].log]
  BY <1>1, <1>3, <1>6 DEF HostInv, HostsTyped
<1>9. /\ \A h \in HostNames : h # g => Cycles(h)' = Cycles(h)
      /\ Cardinality(Cycles(g)') = Cardinality(Cycles(g)) + 1
  <2>1. \A h \in HostNames : h # g => Cycles(h)' = Cycles(h)
    <3> SUFFICES ASSUME NEW h \in HostNames, h # g PROVE Cycles(h)' = Cycles(h)
      OBVIOUS
    <3>1. \A j \in completed' : j = i \/ j \in completed
      BY <1>1
    <3>2. topology.events[i].node # h /\ completed \subseteq completed' /\ topology' = topology
      BY <1>1
    <3> QED
      BY <3>1, <3>2 DEF Cycles
  <2>2. Cycles(g)' = Cycles(g) \cup {i} /\ i \notin Cycles(g)
    BY <1>1, <1>3 DEF Cycles
  <2>3. IsFiniteSet(Cycles(g))
    <3>1. Cycles(g) \subseteq completed
      BY DEF Cycles
    <3> QED
      BY <3>1, FS_Subset DEF HostInv, PlanInv
  <2>4. Cardinality(Cycles(g) \cup {i}) = Cardinality(Cycles(g)) + 1
    BY <2>2, <2>3, FS_AddElement
  <2> QED
    BY <2>1, <2>2, <2>4
<1>10. Served'
  <2>1. /\ HostNames' = HostNames /\ Terminals' = Terminals /\ Bridged' = Bridged
        /\ \A h : TerminalsOf(h)' = TerminalsOf(h)
    BY <1>1, Static
  <2>2. TerminalsOf(g) \cap exclusive' = {}
    BY <1>5 DEF TerminalsOf
  <2>3. hosts[g].starts = 1 + Cardinality(Cycles(g)) /\ Cardinality(Cycles(g)) \in Nat
    <3>1. Cycles(g) \subseteq completed
      BY DEF Cycles
    <3> QED
      BY <1>3, <1>4, <3>1, FS_Subset, FS_CardinalityType DEF Served, HostInv, PlanInv
  <2>4. hosts'[g].starts = 1 + Cardinality(Cycles(g)')
    BY <1>8, <1>9, <2>3
  <2>5. ASSUME NEW h \in HostNames
        PROVE  /\ hosts'[h].state # "refused"
               /\ hosts'[h].state = "starting" => TerminalsOf(h) \cap exclusive' = {}
               /\ hosts'[h].starts = 1 + Cardinality(Cycles(h)')
    <3>1. CASE h = g
      <4>1. hosts'[g].state = "starting"
        BY <1>8
      <4>2. Cycles(h)' = Cycles(g)'
        BY <3>1
      <4> QED
        BY <2>2, <2>4, <3>1, <4>1, <4>2
    <3>2. CASE h # g
      BY <1>4, <1>5, <1>8, <1>9, <3>2 DEF Served
    <3> QED
      BY <3>1, <3>2
  <2> QED
    BY <1>1, <1>4, <2>1, <2>5 DEF Served
<1>11. PlanInv'
  <2>1. IsFiniteSet(completed')
    BY <1>1, FS_AddElement DEF HostInv, PlanInv
  <2>2. due' \cap completed' = {} /\ due' \subseteq HostReboots
    BY <1>1 DEF HostInv, PlanInv
  <2> QED
    BY <1>1, <2>1, <2>2, Static DEF HostInv, PlanInv
<1> QED
  BY <1>1, <1>4, <1>7, <1>10, <1>11 DEF HostInv

LEMMA RebootStep == ASSUME HostInv, RebootHost PROVE HostInv'
BY CycleStep

\* A power cycle that fails half way ends the run.
LEMMA RebootFailsStep == ASSUME HostInv, RebootFails PROVE HostInv'
<1> DEFINE g == topology.events[Min(due)].node
<1>1. /\ UNCHANGED <<topology, due, completed>> /\ runner' = "failed"
      /\ hosts' = [hosts EXCEPT ![g].state = "killed"]
  BY DEF RebootFails, RunnerOthers, rounds
<1>2. HostsTyped'
  <2>1. HostNames' = HostNames
    BY <1>1, Static
  <2>2. ASSUME NEW h \in HostNames
        PROVE  hosts'[h] \in [state : HostStates, starts : Nat, log : Nat]
    <3>1. hosts[h] \in [state : HostStates, starts : Nat, log : Nat] /\ "killed" \in HostStates
      BY DEF HostInv, HostsTyped, HostStates
    <3>2. [hosts[h] EXCEPT !.state = "killed"] \in [state : HostStates, starts : Nat, log : Nat]
      BY <3>1
    <3>3. hosts'[h] \in {hosts[h], [hosts[h] EXCEPT !.state = "killed"]}
      BY <1>1 DEF HostInv, HostsTyped
    <3> QED
      BY <3>1, <3>2, <3>3
  <2>3. hosts' = [h \in HostNames |-> hosts'[h]]
    BY <1>1 DEF HostInv, HostsTyped
  <2> QED
    BY <2>1, <2>2, <2>3 DEF HostsTyped
<1>3. PlanInv'
  BY <1>1, Static DEF HostInv, PlanInv
<1> QED
  BY <1>1, <1>2, <1>3 DEF HostInv, Early, Live

\* The end of the run kills the hosts that still live.
LEMMA ShutdownStep == ASSUME HostInv, Shutdown PROVE HostInv'
<1>1. /\ UNCHANGED <<topology, exclusive, guards, due, completed>>
      /\ runner = "shutdown" /\ runner' = "join"
      /\ hosts' = [h \in DOMAIN hosts |->
                    IF hosts[h].state \in Dead THEN hosts[h]
                                               ELSE [hosts[h] EXCEPT !.state = "killed"]]
  BY DEF Shutdown, rounds
<1>2. runner \in Live /\ runner' \in Live /\ runner' \notin Early
  BY <1>1 DEF Early, Live
<1>3. \A h \in HostNames : /\ hosts'[h] \in [state : HostStates, starts : Nat, log : Nat]
                           /\ hosts'[h].starts = hosts[h].starts
                           /\ hosts'[h].state \in {"killed", hosts[h].state}
                           /\ hosts'[h].state # "starting"
  BY <1>1 DEF HostInv, HostsTyped, HostStates, Dead
<1>4. HostsTyped'
  <2>1. DOMAIN hosts = HostNames /\ HostNames' = HostNames
    BY <1>1, Static DEF HostInv, HostsTyped
  <2> QED
    BY <1>1, <1>3, <2>1 DEF HostsTyped
<1>5. Served'
  <2>1. /\ HostNames' = HostNames /\ Terminals' = Terminals /\ Bridged' = Bridged
        /\ \A g : TerminalsOf(g)' = TerminalsOf(g)
    BY <1>1, Static
  <2>2. \A h \in HostNames : Cycles(h)' = Cycles(h)
    BY <1>1 DEF Cycles
  <2>3. Served
    BY <1>2 DEF HostInv
  <2> QED
    BY <1>1, <1>3, <2>1, <2>2, <2>3 DEF Served
<1>6. PlanInv'
  BY <1>1, Static DEF HostInv, PlanInv
<1> QED
  BY <1>2, <1>4, <1>5, <1>6 DEF HostInv

\* The runner before the hosts are started.
LEMMA BeginStep ==
    ASSUME HostInv,
           \/ Validate \/ WaitLooks \/ WaitPolls \/ WaitLast \/ WaitExpires \/ GiveUp
           \/ GiveUpJoins \/ StartFails
    PROVE  HostInv'
<1>1. CASE Validate
  <2>1. /\ UNCHANGED <<topology, hostVars, rounds>> /\ runner = "validate"
        /\ \/ runner' = "receive" /\ topology.hosts = <<>>
           \/ runner' \in {"wait", "failed"}
    BY <1>1 DEF Validate
  <2>2. topology.hosts = <<>> => HostNames = {}
    BY DEF HostNames, Elements
  <2> QED
    BY <2>1, <2>2, Kept DEF rounds, Early, Live
<1>2. CASE \/ WaitLooks \/ WaitPolls \/ WaitLast \/ WaitExpires \/ GiveUpJoins \/ StartFails
  <2>1. /\ UNCHANGED <<topology, hostVars, rounds>> /\ runner \in Early
        /\ runner' \in {"start", "wait", "wait_poll", "wait_last", "give_up", "failed"}
    BY <1>2 DEF WaitLooks, WaitPolls, WaitLast, WaitExpires, GiveUpJoins, StartFails, WaitOthers,
                RunnerOthers, Early
  <2> QED
    BY <2>1, Kept DEF rounds, Early, Live
<1>3. CASE GiveUp
  <2>1. /\ UNCHANGED <<topology, hostVars, rounds>> /\ runner = "give_up"
        /\ runner' = "give_up_join"
    BY <1>3 DEF GiveUp, RunnerOthers
  <2> QED
    BY <2>1, Kept DEF rounds, Early, Live
<1> QED
  BY <1>1, <1>2, <1>3

\* The monitor loop outside a power cycle, and the verdict.
LEMMA LoopStep ==
    ASSUME HostInv,
           \/ ReceiveFailure \/ KillAfterFailure \/ PollSimulator \/ CheckHosts \/ ReadSample
           \/ RoundEnds \/ Judge
    PROVE  HostInv'
<1>1. CASE \/ ReceiveFailure \/ KillAfterFailure \/ PollSimulator \/ CheckHosts
           \/ RoundEnds \/ Judge
  <2>1. /\ UNCHANGED <<topology, hostVars, rounds>> /\ runner \in Live
        /\ runner' \in Live \cup {"failed"}
    BY <1>1 DEF ReceiveFailure, KillAfterFailure, PollSimulator, CheckHosts, RoundEnds, Judge,
                Quietly, RunnerOthers, Live
  <2>2. runner' \notin Early
    BY <2>1 DEF Early, Live
  <2> QED
    BY <2>1, <2>2, Kept DEF rounds
<1>2. CASE ReadSample
  <2>1. /\ UNCHANGED <<topology, hostVars, completed>> /\ runner = "read_sample"
        /\ runner' = "reboot"
        /\ due' \subseteq HostReboots /\ due' \cap completed = {}
    BY <1>2 DEF ReadSample, Quietly, RunnerOthers
  <2>2. runner \in Live /\ runner' \in Live /\ runner' \notin Early
    BY <2>1 DEF Early, Live
  <2> QED
    BY <2>1, <2>2, Kept
<1> QED
  BY <1>1, <1>2

\* Every step of the run keeps the hosts' terminals in order.
LEMMA HostKept == HostInv /\ [Next]_vars => HostInv'
<1> SUFFICES ASSUME HostInv, [Next]_vars PROVE HostInv'
  OBVIOUS
<1>1. CASE UNCHANGED vars
  BY <1>1, Kept DEF vars, hostVars, rounds, HostInv
<1>2. CASE Runner
  BY <1>2, BeginStep, StartStep, LoopStep, RebootStep, ShutdownStep DEF Runner
<1>3. CASE ~Over /\ (SimulatorStep \/ BridgeCut \/ BridgeStops \/ \E p \in Pipes : Reader(p))
  BY <1>3, WorldStep
<1>4. CASE ~Over /\ \E h \in HostNames : HostOpens(h)
  BY <1>4, HostStep
<1>5. CASE ~Over /\ Mishap
  BY <1>5, WorldStep, BeginStep, HostStep, RebootFailsStep DEF Mishap
<1> QED
  BY <1>1, <1>2, <1>3, <1>4, <1>5 DEF Next

\* The invariant of the hosts and their terminals holds in every run.
THEOREM HostInvariance == Spec => []HostInv
<1>1. Init => HostInv
  BY InitHosts
<1>2. HostInv /\ [Next]_vars => HostInv'
  BY HostKept
<1> QED
  BY <1>1, <1>2, PTL DEF Spec

\* PowerCycles (the monitor loop, spawn_host_node and release_host_pty_exclusive
\* of bay.rs): a host is started once and once more for each planned cycle that
\* was carried out, and is never refused a terminal.
THEOREM PowerCyclesHold == Spec => []PowerCycles
<1>1. HostInv => PowerCycles
  <2> SUFFICES ASSUME HostInv, runner # "failed", NEW h \in HostNames
               PROVE  /\ hosts[h].state # "refused"
                      /\ guards # {} => hosts[h].starts = 1 + Cardinality(Cycles(h))
    BY DEF PowerCycles, Cycles
  <2>1. CASE runner \in Live
    BY <2>1 DEF HostInv, Served
  <2>2. CASE runner \in Early
    BY <2>2 DEF HostInv, Untouched
  <2> QED
    BY <2>1, <2>2 DEF HostInv
<1> QED
  BY <1>1, HostInvariance, PTL


-----------------------------------------------------------------------------
(* What the script leaves behind when it reaches a published sample. *)

\* Each makes one command of each element.
LEMMA EachIs ==
    ASSUME NEW s, List(s), NEW name
    PROVE  /\ List(Each(s, name)) /\ Elements(Each(s, name)) = {Cmd(name, e) : e \in Elements(s)}
<1>1. Len(s) \in Nat /\ DOMAIN s = 1 .. Len(s)
  BY ListFacts
<1>2. Each(s, name) = [i \in 1 .. Len(s) |-> Cmd(name, s[i])]
  BY <1>1 DEF Each
<1> DEFINE t == [i \in 1 .. Len(s) |-> Cmd(name, s[i])]
<1>3. DOMAIN t = 1 .. Len(s) /\ t = [i \in 1 .. Len(s) |-> t[i]] /\ \A i \in 1 .. Len(s) : t[i] = Cmd(name, s[i])
  OBVIOUS
<1> HIDE DEF t
<1>4. List(t) /\ Len(t) = Len(s)
  BY <1>1, <1>3, FunIsList
<1>5. Elements(t) = {t[i] : i \in 1 .. Len(s)} /\ Elements(s) = {s[i] : i \in 1 .. Len(s)}
  BY <1>4, ElementsAre
<1>6. Elements(t) = {Cmd(name, e) : e \in Elements(s)}
  BY <1>3, <1>5
<1> QED
  BY <1>2, <1>4, <1>6 DEF t

\* InOrder picks events and loses none.
LEMMA InOrderIs ==
    ASSUME NEW some, Listed(topology)
    PROVE  List(InOrder(some)) /\ Elements(InOrder(some)) = some \cap Elements(topology.events)
<1> DEFINE ev == topology.events
           n == Len(ev)
           ss == [i \in DOMAIN ev |-> IF ev[i] \in some THEN <<ev[i]>> ELSE <<>>]
<1>1. List(ev)
  BY DEF Listed
<1> HIDE DEF ev
<1>2. n \in Nat /\ DOMAIN ev = 1 .. n
  BY <1>1, ListFacts
<1>3. /\ DOMAIN ss = 1 .. n /\ ss = [i \in 1 .. n |-> ss[i]]
      /\ \A i \in 1 .. n : ss[i] = IF ev[i] \in some THEN <<ev[i]>> ELSE <<>>
  BY <1>2
<1> HIDE DEF ss
<1>4. List(ss) /\ Len(ss) = n
  <2> HIDE DEF n
  <2> QED
    BY <1>2, <1>3, FunIsList
<1>5. ASSUME NEW i \in 1 .. n
      PROVE  List(ss[i]) /\ \A x : x \in Elements(ss[i]) <=> ev[i] \in some /\ x = ev[i]
  <2>1. CASE ev[i] \in some
    <3>1. ss[i] = <<ev[i]>>
      BY <2>1, <1>3
    <3>2. List(<<ev[i]>>) /\ Len(<<ev[i]>>) = 1 /\ <<ev[i]>>[1] = ev[i]
      BY SingleList
    <3>3. Elements(<<ev[i]>>) = {<<ev[i]>>[j] : j \in 1 .. Len(<<ev[i]>>)}
      BY <3>2, ElementsAre
    <3>4. \A x : x \in Elements(<<ev[i]>>) <=> x = ev[i]
      <4>1. 1 .. 1 = {1}
        OBVIOUS
      <4> QED
        BY <3>2, <3>3, <4>1
    <3> QED
      BY <2>1, <3>1, <3>2, <3>4
  <2>2. CASE ev[i] \notin some
    <3>1. ss[i] = <<>>
      BY <2>2, <1>3
    <3>2. List(<<>>) /\ Elements(<<>>) = {}
      BY EmptyList DEF Elements
    <3> QED
      BY <2>2, <3>1, <3>2
  <2> QED
    BY <2>1, <2>2
<1>6. /\ List(FlattenSeq(ss))
      /\ \A x : x \in Elements(FlattenSeq(ss)) <=> \E a \in 1 .. n : x \in Elements(ss[a])
  <2> HIDE DEF n
  <2> QED
    BY <1>4, <1>5, ElementsFlatten
<1>7. Elements(ev) = {ev[i] : i \in 1 .. n}
  BY <1>1, ElementsAre
<1>8. Elements(FlattenSeq(ss)) = some \cap Elements(ev)
  <2>1. ASSUME NEW x PROVE x \in Elements(FlattenSeq(ss)) <=> x \in some \cap Elements(ev)
    <3>1. x \in Elements(FlattenSeq(ss)) <=> \E a \in 1 .. n : ev[a] \in some /\ x = ev[a]
      BY <1>5, <1>6
    <3>2. x \in Elements(ev) <=> \E a \in 1 .. n : x = ev[a]
      BY <1>7
    <3> QED
      BY <3>1, <3>2
  <2> QED
    BY <2>1
<1>9. InOrder(some) = FlattenSeq(ss)
  BY DEF InOrder, ss, ev
<1> QED
  BY <1>6, <1>8, <1>9 DEF ev

\* What names a record of the probe file.
Key(r) == <<r.node, r.probe, r.sample>>

\* What a command leaves behind, and what a published sample promises.
Item(c) == <<c.name, IF c.name = "probe" THEN Key(c.arg) ELSE c.arg>>
Items(s) == {Item(c) : c \in Elements(s)}

\* What the publication of a sample promises of events and of probes.
ProbeKeys(sample) ==
    UNION {{<<n.name, probe, s>> : probe \in ProbeNames(n.name), s \in 1 .. sample}
              : n \in Elements(topology.nodes)}
Required(sample) ==
    {<<"apply", e>> : e \in ToApply(sample)} \cup {<<"probe", k>> : k \in ProbeKeys(sample)}

\* All that a sample promises is there, or is done before the sample is published.
Prepared(s, have) ==
    \A i \in 1 .. Len(s) : s[i].name = "done" =>
        Required(s[i].arg) \subseteq have \cup {Item(s[j]) : j \in 1 .. i - 1}

\* What the commands of a list leave.
LEMMA ItemsAre ==
    ASSUME NEW s, List(s)
    PROVE  Items(s) = {Item(s[i]) : i \in 1 .. Len(s)}
BY ElementsAre DEF Items

\* Prepared asks less where more is there, and nothing of a list that publishes
\* no sample; it passes to a concatenation.
LEMMA PreparedMore ==
    ASSUME NEW s, NEW A, NEW B, A \subseteq B, Prepared(s, A)
    PROVE  Prepared(s, B)
BY DEF Prepared

LEMMA PreparedQuiet ==
    ASSUME NEW s, NEW have, List(s), \A c \in Elements(s) : c.name # "done"
    PROVE  Prepared(s, have)
BY ListFacts DEF Prepared

LEMMA PreparedConcat ==
    ASSUME NEW s, NEW t, NEW have, List(s), List(t),
           Prepared(s, have), Prepared(t, have \cup Items(s))
    PROVE  Prepared(s \o t, have)
<1> DEFINE r == s \o t
<1>1. /\ Len(r) = Len(s) + Len(t) /\ Len(s) \in Nat /\ Len(t) \in Nat
      /\ \A i \in 1 .. Len(s) : r[i] = s[i]
      /\ \A i \in 1 .. Len(t) : r[Len(s) + i] = t[i]
  BY ListConcat, ListFacts
<1>2. Items(s) = {Item(s[i]) : i \in 1 .. Len(s)}
  BY ItemsAre
<1> HIDE DEF r
<1> SUFFICES ASSUME NEW i \in 1 .. Len(r), r[i].name = "done"
             PROVE  Required(r[i].arg) \subseteq have \cup {Item(r[j]) : j \in 1 .. i - 1}
  BY DEF Prepared, r
<1>3. CASE i \in 1 .. Len(s)
  <2>1. r[i] = s[i]
    BY <1>1, <1>3
  <2>2. Required(s[i].arg) \subseteq have \cup {Item(s[j]) : j \in 1 .. i - 1}
    BY <1>3, <2>1 DEF Prepared
  <2>3. \A j \in 1 .. i - 1 : s[j] = r[j]
    BY <1>1, <1>3
  <2>4. {Item(s[j]) : j \in 1 .. i - 1} = {Item(r[j]) : j \in 1 .. i - 1}
    BY <2>3
  <2> QED
    BY <2>1, <2>2, <2>4
<1>4. CASE i \notin 1 .. Len(s)
  <2> DEFINE k == i - Len(s)
  <2>1. k \in 1 .. Len(t) /\ i = Len(s) + k
    BY <1>1, <1>4
  <2>2. r[i] = t[k]
    BY <1>1, <2>1
  <2> HIDE DEF k
  <2>3. Required(t[k].arg) \subseteq have \cup Items(s) \cup {Item(t[j]) : j \in 1 .. k - 1}
    BY <2>1, <2>2 DEF Prepared
  <2>4. Items(s) \subseteq {Item(r[j]) : j \in 1 .. i - 1}
    <3>1. ASSUME NEW j \in 1 .. Len(s) PROVE j \in 1 .. i - 1 /\ s[j] = r[j]
      BY <1>1, <2>1
    <3> QED
      BY <1>2, <3>1
  <2>5. {Item(t[j]) : j \in 1 .. k - 1} \subseteq {Item(r[j]) : j \in 1 .. i - 1}
    <3>1. ASSUME NEW j \in 1 .. k - 1
          PROVE  Len(s) + j \in 1 .. i - 1 /\ t[j] = r[Len(s) + j]
      BY <1>1, <2>1
    <3> QED
      BY <3>1
  <2> QED
    BY <2>2, <2>3, <2>4, <2>5
<1> QED
  BY <1>3, <1>4

\* Positions of an earlier part, and of the same part, lie before this one.
LEMMA Below ==
    ASSUME NEW x \in Nat, NEW y \in Nat, NEW m \in Nat, x + m <= y, NEW j \in 1 .. m,
           NEW k \in Nat, NEW b \in 1 .. k
    PROVE  x + j \in 1 .. (y + b) - 1
OBVIOUS

LEMMA BelowSame ==
    ASSUME NEW y \in Nat, NEW k \in Nat, NEW b \in 1 .. k, NEW j \in 1 .. b - 1
    PROVE  y + j \in 1 .. (y + b) - 1
OBVIOUS

\* It passes to many lists, each prepared by those before it.
LEMMA PreparedFlat ==
    ASSUME NEW ss, NEW n \in Nat, NEW s, NEW have, Flat(s, ss, n),
           \A a \in 1 .. n : List(ss[a]),
           \A a \in 1 .. n : Prepared(ss[a], have \cup UNION {Items(ss[c]) : c \in 1 .. a - 1})
    PROVE  Prepared(s, have)
<1>1. PICK off : Laid(s, ss, n, off)
  BY DEF Flat
<1>2. \A a \in 1 .. n : Len(ss[a]) \in Nat
  BY ListFacts
<1> SUFFICES ASSUME NEW i \in 1 .. Len(s), s[i].name = "done"
             PROVE  Required(s[i].arg) \subseteq have \cup {Item(s[j]) : j \in 1 .. i - 1}
  BY DEF Prepared
<1>3. PICK a \in 1 .. n : \E b \in 1 .. Len(ss[a]) : i = off[a - 1] + b /\ s[i] = ss[a][b]
  <2>1. InPart(s, ss, n, off, i)
    BY <1>1, <1>2, LaidWhere
  <2> QED
    BY <2>1 DEF InPart
<1>4. PICK b \in 1 .. Len(ss[a]) : i = off[a - 1] + b /\ s[i] = ss[a][b]
  BY <1>3
<1>5. Required(s[i].arg) \subseteq
        (have \cup UNION {Items(ss[c]) : c \in 1 .. a - 1}) \cup {Item(ss[a][j]) : j \in 1 .. b - 1}
  BY <1>4 DEF Prepared
<1>6. ASSUME NEW c \in 1 .. a - 1 PROVE Items(ss[c]) \subseteq {Item(s[j]) : j \in 1 .. i - 1}
  <2>1. c \in 1 .. n /\ c \in 0 .. n /\ a - 1 \in 0 .. n /\ c <= a - 1 /\ c - 1 \in 0 .. n
    OBVIOUS
  <2>2. Items(ss[c]) = {Item(ss[c][j]) : j \in 1 .. Len(ss[c])}
    BY <2>1, ItemsAre
  <2>3. off[c] <= off[a - 1]
    BY <1>1, <1>2, <2>1, OffsetsRise
  <2>4. off[c] = off[c - 1] + Len(ss[c]) /\ off[c] \in Nat /\ off[c - 1] \in Nat /\ off[a - 1] \in Nat
    BY <1>1, <2>1 DEF Laid
  <2>5. ASSUME NEW j \in 1 .. Len(ss[c])
        PROVE  off[c - 1] + j \in 1 .. i - 1 /\ s[off[c - 1] + j] = ss[c][j]
    <3>1. s[off[c - 1] + j] = ss[c][j]
      BY <1>1, <2>1 DEF Laid
    <3>2. off[c - 1] + j \in 1 .. i - 1
      <4>1. Len(ss[c]) \in Nat /\ Len(ss[a]) \in Nat
        BY <1>2, <2>1
      <4> QED
        BY <1>4, <2>3, <2>4, <4>1, Below
    <3> QED
      BY <3>1, <3>2
  <2> QED
    BY <2>2, <2>5
<1>7. {Item(ss[a][j]) : j \in 1 .. b - 1} \subseteq {Item(s[j]) : j \in 1 .. i - 1}
  <2>1. ASSUME NEW j \in 1 .. b - 1
        PROVE  off[a - 1] + j \in 1 .. i - 1 /\ s[off[a - 1] + j] = ss[a][j]
    <3>0. Len(ss[a]) \in Nat
      BY <1>2
    <3>1. j \in 1 .. Len(ss[a])
      BY <3>0
    <3>2. a - 1 \in 0 .. n
      OBVIOUS
    <3>3. off[a - 1] \in Nat /\ s[off[a - 1] + j] = ss[a][j]
      BY <1>1, <3>1, <3>2 DEF Laid
    <3> QED
      <4>1. off[a - 1] + j \in 1 .. i - 1
        BY <1>4, <3>0, <3>3, BelowSame
      <4> QED
        BY <3>3, <4>1
  <2> QED
    BY <2>1
<1> QED
  BY <1>5, <1>6, <1>7

\* The first command, and the rest.
LEMMA HeadTail ==
    ASSUME NEW s, List(s), s # <<>>
    PROVE  /\ Len(s) \in Nat \ {0} /\ Head(s) = s[1] /\ s[1] \in Elements(s)
           /\ List(Tail(s)) /\ Len(Tail(s)) = Len(s) - 1
           /\ \A i \in 1 .. Len(s) - 1 : Tail(s)[i] = s[i + 1]
<1>1. s \in Seq(Elements(s)) /\ Len(s) \in Nat
  BY ListFacts DEF List
<1>2. Len(s) # 0
  BY <1>1, EmptySeq
<1>3. Head(s) = s[1] /\ 1 \in 1 .. Len(s)
  BY <1>1, <1>2, HeadTailProperties
<1>4. /\ Tail(s) \in Seq(Elements(s)) /\ Len(Tail(s)) = Len(s) - 1
      /\ \A i \in 1 .. Len(Tail(s)) : Tail(s)[i] = s[i + 1]
  BY <1>1, <1>2, HeadTailProperties
<1> QED
  BY <1>1, <1>2, <1>3, <1>4, ListFacts, SeqIsList

\* Carrying out the first command keeps the rest prepared.
LEMMA PreparedTail ==
    ASSUME NEW s, NEW have, List(s), s # <<>>, Prepared(s, have)
    PROVE  /\ Head(s).name = "done" => Required(Head(s).arg) \subseteq have
           /\ Prepared(Tail(s), have \cup {Item(Head(s))})
<1>1. /\ Len(s) \in Nat \ {0} /\ Head(s) = s[1] /\ Len(Tail(s)) = Len(s) - 1
      /\ \A i \in 1 .. Len(s) - 1 : Tail(s)[i] = s[i + 1]
  BY HeadTail
<1>2. Head(s).name = "done" => Required(Head(s).arg) \subseteq have
  <2>1. 1 \in 1 .. Len(s) /\ 1 .. 1 - 1 = {}
    BY <1>1
  <2>2. s[1].name = "done" => Required(s[1].arg) \subseteq have \cup {Item(s[j]) : j \in 1 .. 1 - 1}
    BY <2>1 DEF Prepared
  <2> QED
    BY <1>1, <2>1, <2>2
<1> DEFINE t == Tail(s)
           h == have \cup {Item(Head(s))}
<1> HIDE DEF t, h
<1>3. ASSUME NEW i \in 1 .. Len(t), t[i].name = "done"
      PROVE  Required(t[i].arg) \subseteq h \cup {Item(t[j]) : j \in 1 .. i - 1}
  <2>1. t[i] = s[i + 1] /\ i + 1 \in 1 .. Len(s)
    BY <1>1 DEF t
  <2>2. Required(s[i + 1].arg) \subseteq have \cup {Item(s[j]) : j \in 1 .. (i + 1) - 1}
    BY <1>3, <2>1 DEF Prepared
  <2>3. ASSUME NEW j \in 1 .. (i + 1) - 1
        PROVE  Item(s[j]) \in h \cup {Item(t[k]) : k \in 1 .. i - 1}
    <3>1. CASE j = 1
      BY <3>1, <1>1 DEF h
    <3>2. CASE j # 1
      <4>1. j - 1 \in 1 .. i - 1 /\ j - 1 \in 1 .. Len(s) - 1 /\ (j - 1) + 1 = j
        BY <1>1, <2>1, <3>2
      <4>2. t[j - 1] = s[j]
        BY <1>1, <4>1 DEF t
      <4> QED
        BY <4>1, <4>2
    <3> QED
      BY <3>1, <3>2
  <2> QED
    BY <2>1, <2>2, <2>3 DEF h
<1> QED
  BY <1>2, <1>3 DEF Prepared, t, h

\* Probe commands of a node whose probes have different names.
Apart(name) == \E n \in Elements(topology.nodes) : n.name = name /\ ProbesApart(n)
Rec(c) == c.name = "probe" /\ Apart(c.arg.node)
Same(c, d) == Rec(c) /\ Rec(d) /\ Key(c.arg) = Key(d.arg)
Keys(s) == {Key(c.arg) : c \in {d \in Elements(s) : Rec(d)}}

\* None of them is twice in s.
Once(s) == \A i, j \in 1 .. Len(s) : Same(s[i], s[j]) => i = j

\* Once passes to concatenations of lists with different captures.
LEMMA OnceQuiet ==
    ASSUME NEW s, List(s), \A c \in Elements(s) : ~Rec(c)
    PROVE  Once(s) /\ Keys(s) = {}
BY ListFacts DEF Once, Keys, Same

LEMMA KeysAt ==
    ASSUME NEW s, List(s), NEW i \in 1 .. Len(s), Rec(s[i])
    PROVE  Key(s[i].arg) \in Keys(s)
BY ListFacts DEF Keys

LEMMA KeysConcat ==
    ASSUME NEW s, NEW t, List(s), List(t)
    PROVE  Keys(s \o t) = Keys(s) \cup Keys(t)
<1>1. Elements(s \o t) = Elements(s) \cup Elements(t)
  BY ElementsConcat
<1> QED
  BY <1>1 DEF Keys

LEMMA OnceConcat ==
    ASSUME NEW s, NEW t, List(s), List(t), Once(s), Once(t), Keys(s) \cap Keys(t) = {}
    PROVE  Once(s \o t)
<1>1. Len(s) \in Nat /\ Len(t) \in Nat
  BY ListFacts
<1> DEFINE r == s \o t
<1>2. \A j \in 1 .. Len(r) :
        \/ j \in 1 .. Len(s) /\ r[j] = s[j]
        \/ \E i \in 1 .. Len(t) : j = Len(s) + i /\ r[j] = t[i]
  <2> SUFFICES ASSUME NEW j \in 1 .. Len(s \o t)
               PROVE  \/ j \in 1 .. Len(s) /\ (s \o t)[j] = s[j]
                      \/ \E i \in 1 .. Len(t) : j = Len(s) + i /\ (s \o t)[j] = t[i]
    OBVIOUS
  <2>1. CASE j \in 1 .. Len(s) /\ (s \o t)[j] = s[j]
    BY <2>1
  <2>2. CASE \E i \in 1 .. Len(t) : j = Len(s) + i /\ (s \o t)[j] = t[i]
    BY <2>2
  <2>3. \/ j \in 1 .. Len(s) /\ (s \o t)[j] = s[j]
        \/ \E i \in 1 .. Len(t) : j = Len(s) + i /\ (s \o t)[j] = t[i]
    BY ConcatWhere, SMTT(30)
  <2> QED
    BY <2>1, <2>2, <2>3, Zenon
<1> HIDE DEF r
<1> SUFFICES ASSUME NEW i \in 1 .. Len(r), NEW j \in 1 .. Len(r), Same(r[i], r[j])
             PROVE  i = j
  BY DEF Once, r
<1>3. CASE i \in 1 .. Len(s) /\ r[i] = s[i] /\ j \in 1 .. Len(s) /\ r[j] = s[j]
  BY <1>3 DEF Once
<1>4. ASSUME NEW a \in 1 .. Len(t), i = Len(s) + a /\ r[i] = t[a],
             NEW b \in 1 .. Len(t), j = Len(s) + b /\ r[j] = t[b]
      PROVE  i = j
  <2>1. a = b
    BY <1>4 DEF Once
  <2> QED
    BY <1>4, <2>1
<1>5. ASSUME NEW a \in 1 .. Len(s), NEW b \in 1 .. Len(t) PROVE ~Same(s[a], t[b]) /\ ~Same(t[b], s[a])
  BY KeysAt DEF Same
<1> QED
  BY <1>2, <1>3, <1>4, <1>5

LEMMA KeysFlat ==
    ASSUME NEW ss, NEW n \in Nat, NEW s, Flat(s, ss, n), \A a \in 1 .. n : List(ss[a])
    PROVE  \A k : k \in Keys(s) <=> \E a \in 1 .. n : k \in Keys(ss[a])
<1>1. \A x : x \in Elements(s) <=> \E a \in 1 .. n : x \in Elements(ss[a])
  BY ElementsFlat
<1> QED
  BY <1>1 DEF Keys

LEMMA OnceFlat ==
    ASSUME NEW ss, NEW n \in Nat, NEW s, Flat(s, ss, n), \A a \in 1 .. n : List(ss[a]),
           \A a \in 1 .. n : Once(ss[a]),
           \A a, c \in 1 .. n : a # c => Keys(ss[a]) \cap Keys(ss[c]) = {}
    PROVE  Once(s)
<1>1. PICK off : Laid(s, ss, n, off)
  BY DEF Flat
<1>2. \A a \in 1 .. n : Len(ss[a]) \in Nat
  BY ListFacts
<1> SUFFICES ASSUME NEW i \in 1 .. Len(s), NEW j \in 1 .. Len(s), Same(s[i], s[j])
             PROVE  i = j
  BY DEF Once
<1>3. InPart(s, ss, n, off, i) /\ InPart(s, ss, n, off, j)
  BY <1>1, <1>2, LaidWhere
<1>4. PICK a \in 1 .. n : \E b \in 1 .. Len(ss[a]) : i = off[a - 1] + b /\ s[i] = ss[a][b]
  BY <1>3 DEF InPart
<1>5. PICK b \in 1 .. Len(ss[a]) : i = off[a - 1] + b /\ s[i] = ss[a][b]
  BY <1>4
<1>6. PICK c \in 1 .. n : \E d \in 1 .. Len(ss[c]) : j = off[c - 1] + d /\ s[j] = ss[c][d]
  BY <1>3 DEF InPart
<1>7. PICK d \in 1 .. Len(ss[c]) : j = off[c - 1] + d /\ s[j] = ss[c][d]
  BY <1>6
<1>8. Key(ss[a][b].arg) \in Keys(ss[a]) /\ Key(ss[c][d].arg) \in Keys(ss[c])
  BY <1>5, <1>7, KeysAt DEF Same
<1>9. a = c
  BY <1>5, <1>7, <1>8 DEF Same
<1>10. b = d
  BY <1>5, <1>7, <1>9 DEF Once
<1> QED
  BY <1>5, <1>7, <1>9, <1>10

\* A capture that is carried out does not come again.
LEMMA OnceTail ==
    ASSUME NEW s, List(s), s # <<>>, Once(s)
    PROVE  /\ Once(Tail(s)) /\ Keys(Tail(s)) \subseteq Keys(s)
           /\ Rec(Head(s)) => Key(Head(s).arg) \in Keys(s) \ Keys(Tail(s))
<1>1. /\ Len(s) \in Nat \ {0} /\ Head(s) = s[1] /\ List(Tail(s)) /\ Len(Tail(s)) = Len(s) - 1
      /\ \A i \in 1 .. Len(s) - 1 : Tail(s)[i] = s[i + 1]
  BY HeadTail
<1> DEFINE t == Tail(s)
<1> HIDE DEF t
<1>2. \A i \in 1 .. Len(t) : t[i] = s[i + 1] /\ i + 1 \in 1 .. Len(s) /\ i + 1 # 1
  BY <1>1 DEF t
<1>3. Once(t)
  <2> SUFFICES ASSUME NEW i \in 1 .. Len(t), NEW j \in 1 .. Len(t), Same(t[i], t[j]) PROVE i = j
    BY DEF Once
  <2>1. i + 1 = j + 1
    BY <1>2 DEF Once
  <2> QED
    BY <2>1
<1>4. Elements(t) = {t[i] : i \in 1 .. Len(t)} /\ Elements(s) = {s[i] : i \in 1 .. Len(s)}
  BY <1>1, ElementsAre DEF t
<1>5. Keys(t) \subseteq Keys(s)
  BY <1>2, <1>4 DEF Keys
<1>6. ASSUME Rec(Head(s)) PROVE Key(Head(s).arg) \in Keys(s) \ Keys(t)
  <2>1. 1 \in 1 .. Len(s)
    BY <1>1
  <2>2. ASSUME NEW i \in 1 .. Len(t) PROVE ~Same(s[1], t[i])
    BY <1>2, <2>1 DEF Once
  <2>3. Key(s[1].arg) \in Keys(s)
    BY <1>1, <1>6, <2>1, KeysAt
  <2> QED
    BY <1>1, <1>4, <1>6, <2>2, <2>3 DEF Keys, Same
<1> QED
  BY <1>3, <1>5, <1>6 DEF t

-----------------------------------------------------------------------------
(* The names of a valid topology. *)

\* SetToSeq of a finite set, and the finiteness it asks for.
LEMMA SetToSeqList ==
    ASSUME NEW S, IsFiniteSet(S)
    PROVE  List(SetToSeq(S))
<1>1. Cardinality(S) \in Nat /\ \E f \in [1 .. Cardinality(S) -> S] : IsInjective(f)
  <2>1. Cardinality(S) \in Nat /\ ExistsBijection(1 .. Cardinality(S), S)
    BY FS_CardinalityType
  <2> QED
    BY <2>1 DEF ExistsBijection, Bijection, Injection
<1>2. SetToSeq(S) \in [1 .. Cardinality(S) -> S]
  BY <1>1 DEF SetToSeq
<1>3. SetToSeq(S) \in Seq(S)
  BY <1>1, <1>2, SeqDef
<1> QED
  BY <1>3, SeqIsList

LEMMA ElementsFinite ==
    ASSUME NEW s, List(s)
    PROVE  IsFiniteSet(Elements(s))
<1>1. Len(s) \in Nat /\ Elements(s) = {s[i] : i \in 1 .. Len(s)}
  BY ListFacts, ElementsAre
<1> DEFINE f == [i \in 1 .. Len(s) |-> s[i]]
<1>2. f \in Surjection(1 .. Len(s), Elements(s))
  BY <1>1 DEF Surjection
<1>3. IsFiniteSet(1 .. Len(s))
  BY <1>1, FS_Interval
<1> QED
  BY <1>2, <1>3, FS_Surjection

LEMMA TerminalsFinite ==
    ASSUME Listed(topology)
    PROVE  IsFiniteSet(Terminals)
<1> DEFINE Of(link) == {<<end.node, link.name>> : end \in HostsOf(link)}
           links == Elements(topology.links)
<1>1. IsFiniteSet(links)
  BY ElementsFinite DEF Listed
<1>2. ASSUME NEW link \in links PROVE IsFiniteSet(Of(link))
  <2>1. List(link.endpoints)
    BY DEF Listed
  <2>2. IsFiniteSet(Elements(link.endpoints))
    BY <2>1, ElementsFinite
  <2>3. HostsOf(link) \in SUBSET Elements(link.endpoints)
    BY DEF HostsOf
  <2>4. IsFiniteSet(HostsOf(link))
    BY <2>2, <2>3, FS_Subset
  <2> DEFINE f == [end \in HostsOf(link) |-> <<end.node, link.name>>]
  <2>5. f \in Surjection(HostsOf(link), Of(link))
    BY DEF Surjection
  <2> HIDE DEF f
  <2> QED
    BY <2>4, <2>5, FS_Surjection
<1> DEFINE g == [link \in links |-> Of(link)]
           all == {Of(link) : link \in links}
<1>3. g \in Surjection(links, all)
  <2> HIDE DEF Of, links
  <2> QED
    BY DEF Surjection
<1>4. IsFiniteSet(all)
  <2> HIDE DEF g, all, links
  <2> QED
    BY <1>1, <1>3, FS_Surjection
<1>5. \A T \in all : IsFiniteSet(T)
  BY <1>2
<1>6. IsFiniteSet(UNION all)
  <2> HIDE DEF all
  <2> QED
    BY <1>4, <1>5, FS_UNION
<1>7. Terminals = UNION all
  BY DEF Terminals
<1> QED
  BY <1>6, <1>7

\* No two nodes have one name.
LEMMA NamesDiffer ==
    ASSUME Listed(topology), TopologyValid
    PROVE  \A a, b \in 1 .. Len(topology.nodes) :
              topology.nodes[a].name = topology.nodes[b].name => a = b
<1> DEFINE s == topology.nodes
           f == [i \in 1 .. Len(s) |-> s[i].name]
<1>1. List(s) /\ Len(s) \in Nat
  BY ListFacts DEF Listed
<1>2. NodeNames = {s[i].name : i \in 1 .. Len(s)}
  <2>1. Elements(s) = {s[i] : i \in 1 .. Len(s)}
    BY <1>1, ElementsAre
  <2> QED
    BY <2>1 DEF NodeNames
<1>3. f \in Surjection(1 .. Len(s), NodeNames)
  <2> HIDE DEF s
  <2> QED
    BY <1>2 DEF Surjection
<1>4. IsFiniteSet(1 .. Len(s)) /\ Cardinality(1 .. Len(s)) = Len(s)
  <2>1. 1 \in Int /\ Len(s) \in Int
    BY <1>1
  <2>2. IsFiniteSet(1 .. Len(s)) /\ Cardinality(1 .. Len(s)) = IF 1 > Len(s) THEN 0 ELSE Len(s) - 1 + 1
    <3> HIDE DEF s
    <3> QED
      BY <2>1, FS_Interval
  <2> QED
    BY <1>1, <2>2
<1>5. Cardinality(NodeNames) = Len(s)
  BY DEF TopologyValid
<1>6. f \in Injection(1 .. Len(s), NodeNames)
  <2> HIDE DEF f, s
  <2> QED
    BY <1>3, <1>4, <1>5, FS_SurjSameCardinalityImpliesInj
<1>7. \A a, b \in 1 .. Len(s) : f[a] = f[b] => a = b
  <2> HIDE DEF s
  <2> QED
    BY <1>6 DEF Injection, IsInjective
<1> QED
  BY <1>7

\* A name leads to its node.
LEMMA NodeNamedIs ==
    ASSUME Listed(topology), TopologyValid, NEW n \in Elements(topology.nodes)
    PROVE  /\ NodeNamed(n.name) = n
           /\ \A m \in Elements(topology.nodes) : m.name = n.name => m = n
<1>1. List(topology.nodes)
  BY DEF Listed
<1>2. Elements(topology.nodes) = {topology.nodes[i] : i \in 1 .. Len(topology.nodes)}
  BY <1>1, ElementsAre
<1>3. \A m \in Elements(topology.nodes) : m.name = n.name => m = n
  BY <1>2, NamesDiffer
<1> QED
  BY <1>3 DEF NodeNamed

-----------------------------------------------------------------------------
(* The captures of a sample. *)

\* capture_probe for one probe, and for some probes of a node.
Capture(node, probe, s) == Cmd("probe", [node |-> node.name, probe |-> probe.name, sample |-> s])
ProbesOf(node, probes, s) == [i \in DOMAIN probes |-> Capture(node, probes[i], s)]

\* A command that captures a probe for sample s.
Probing(c, s) == c.name = "probe" /\ c.arg.sample = s

\* What a capture names.
LEMMA CaptureIs ==
    ASSUME NEW node, NEW probe, NEW s
    PROVE  /\ Probing(Capture(node, probe, s), s)
           /\ Key(Capture(node, probe, s).arg) = <<node.name, probe.name, s>>
           /\ Capture(node, probe, s).arg.node = node.name
           /\ Item(Capture(node, probe, s)) = <<"probe", <<node.name, probe.name, s>>>>
BY DEF Capture, Probing, Cmd, Key, Item

LEMMA ProbesOfIs ==
    ASSUME NEW node, NEW probes, List(probes), NEW s
    PROVE  /\ List(ProbesOf(node, probes, s)) /\ Len(ProbesOf(node, probes, s)) = Len(probes)
           /\ \A i \in 1 .. Len(probes) : ProbesOf(node, probes, s)[i] = Capture(node, probes[i], s)
<1>1. Len(probes) \in Nat /\ DOMAIN probes = 1 .. Len(probes)
  BY ListFacts
<1> DEFINE t == [i \in 1 .. Len(probes) |-> Capture(node, probes[i], s)]
<1>2. ProbesOf(node, probes, s) = t
  BY <1>1 DEF ProbesOf
<1>3. /\ DOMAIN t = 1 .. Len(probes) /\ t = [i \in 1 .. Len(probes) |-> t[i]]
      /\ \A i \in 1 .. Len(probes) : t[i] = Capture(node, probes[i], s)
  OBVIOUS
<1> HIDE DEF t
<1>4. List(t) /\ Len(t) = Len(probes)
  BY <1>1, <1>3, FunIsList
<1> QED
  BY <1>2, <1>3, <1>4

\* The nodes in the order of the topology.
Nodes == topology.nodes

\* The captures of some probes of each node, node by node.
Gathered(P, s) == [a \in 1 .. Len(Nodes) |-> ProbesOf(Nodes[a], P[a], s)]
Probed(P, s, k) ==
    \E a \in 1 .. Len(Nodes) : \E i \in 1 .. Len(P[a]) :
        ProbesApart(Nodes[a]) /\ k = <<Nodes[a].name, P[a][i].name, s>>

\* They reach every probe, each once where a node's probes have different names.
LEMMA GatheredIs ==
    ASSUME Listed(topology), TopologyValid, NEW P, NEW s,
           \A a \in 1 .. Len(Nodes) : List(P[a]),
           \A a \in 1 .. Len(Nodes) : ProbesApart(Nodes[a]) =>
               \A i, j \in 1 .. Len(P[a]) : P[a][i].name = P[a][j].name => i = j
    PROVE  /\ List(FlattenSeq(Gathered(P, s))) /\ Once(FlattenSeq(Gathered(P, s)))
           /\ \A c \in Elements(FlattenSeq(Gathered(P, s))) : Probing(c, s)
           /\ \A k \in Keys(FlattenSeq(Gathered(P, s))) : Probed(P, s, k)
           /\ \A a \in 1 .. Len(Nodes) : \A i \in 1 .. Len(P[a]) :
                 Capture(Nodes[a], P[a][i], s) \in Elements(FlattenSeq(Gathered(P, s)))
<1> DEFINE n == Len(Nodes)
           g == Gathered(P, s)
           t == FlattenSeq(g)
<1>1. n \in Nat /\ List(Nodes)
  BY ListFacts DEF Listed, Nodes
<1>2. /\ DOMAIN g = 1 .. n /\ g = [a \in 1 .. n |-> g[a]]
      /\ \A a \in 1 .. n : g[a] = ProbesOf(Nodes[a], P[a], s)
  BY DEF Gathered
<1> HIDE DEF g
<1>3. List(g) /\ Len(g) = n
  <2> HIDE DEF n
  <2> QED
    BY <1>1, <1>2, FunIsList
<1>4. \A a \in 1 .. n :
        /\ List(g[a]) /\ Len(g[a]) = Len(P[a])
        /\ \A i \in 1 .. Len(P[a]) : g[a][i] = Capture(Nodes[a], P[a][i], s)
  BY <1>2, ProbesOfIs
<1>5. Flat(t, g, n) /\ List(t)
  <2>1. Flat(FlattenSeq(g), g, Len(g))
    <3>1. \A a \in 1 .. Len(g) : List(g[a])
      BY <1>3, <1>4
    <3> QED
      BY <1>3, <3>1, FlattenIs
  <2> QED
    BY <2>1, <1>3 DEF Flat
<1>6. \A a \in 1 .. n : List(g[a])
  BY <1>4
<1> HIDE DEF t, n
<1>7. \A c : c \in Elements(t) <=> \E a \in 1 .. n : c \in Elements(g[a])
  BY <1>1, <1>5, <1>6, ElementsFlat
<1>8. \A a \in 1 .. n : \A c : c \in Elements(g[a]) <=>
        \E i \in 1 .. Len(P[a]) : c = Capture(Nodes[a], P[a][i], s)
  <2> TAKE a \in 1 .. n
  <2>1. Elements(g[a]) = {g[a][i] : i \in 1 .. Len(g[a])}
    BY <1>6, ElementsAre
  <2> QED
    BY <2>1, <1>4
<1>9. \A c \in Elements(t) : Probing(c, s)
  BY <1>7, <1>8, CaptureIs
<1>10. \A a \in 1 .. n : \A i \in 1 .. Len(P[a]) : Capture(Nodes[a], P[a][i], s) \in Elements(t)
  BY <1>7, <1>8
<1>11. \A a \in 1 .. n : Rec(Capture(Nodes[a], P[a][1], s)) => ProbesApart(Nodes[a])
  <2> TAKE a \in 1 .. n
  <2> HAVE Rec(Capture(Nodes[a], P[a][1], s))
  <2>1. PICK m \in Elements(Nodes) : m.name = Nodes[a].name /\ ProbesApart(m)
    BY CaptureIs DEF Rec, Apart, Nodes
  <2>2. Nodes[a] \in Elements(Nodes)
    BY <1>1, ListFacts DEF n
  <2>3. m = Nodes[a]
    BY <2>1, <2>2, NodeNamedIs DEF Nodes
  <2> QED
    BY <2>1, <2>3
<1>12. \A a \in 1 .. n : \A i \in 1 .. Len(P[a]) :
          Rec(Capture(Nodes[a], P[a][i], s)) => ProbesApart(Nodes[a])
  BY <1>11, CaptureIs DEF Rec, Probing
<1>13. \A a \in 1 .. n : \A k \in Keys(g[a]) : \E i \in 1 .. Len(P[a]) :
          ProbesApart(Nodes[a]) /\ k = <<Nodes[a].name, P[a][i].name, s>>
  <2> TAKE a \in 1 .. n
  <2> TAKE k \in Keys(g[a])
  <2>1. PICK c \in Elements(g[a]) : Rec(c) /\ k = Key(c.arg)
    BY DEF Keys
  <2>2. PICK i \in 1 .. Len(P[a]) : c = Capture(Nodes[a], P[a][i], s)
    BY <1>8, <2>1
  <2>3. ProbesApart(Nodes[a])
    BY <1>12, <2>1, <2>2
  <2>4. k = <<Nodes[a].name, P[a][i].name, s>>
    BY <2>1, <2>2, CaptureIs
  <2> QED
    BY <2>3, <2>4
<1>14. \A k \in Keys(t) : Probed(P, s, k)
  <2> TAKE k \in Keys(t)
  <2>1. PICK a \in 1 .. n : k \in Keys(g[a])
    BY <1>1, <1>5, <1>6, KeysFlat
  <2> QED
    BY <2>1, <1>13 DEF Probed, n
<1>15. \A a \in 1 .. n : Once(g[a])
  <2> TAKE a \in 1 .. n
  <2> SUFFICES ASSUME NEW i \in 1 .. Len(P[a]), NEW j \in 1 .. Len(P[a]), Same(g[a][i], g[a][j])
               PROVE  i = j
    BY <1>4 DEF Once
  <2>1. g[a][i] = Capture(Nodes[a], P[a][i], s) /\ g[a][j] = Capture(Nodes[a], P[a][j], s)
    BY <1>4
  <2>2. ProbesApart(Nodes[a])
    BY <2>1, <1>12 DEF Same
  <2>3. P[a][i].name = P[a][j].name
    BY <2>1, CaptureIs DEF Same
  <2> QED
    BY <2>2, <2>3 DEF n
<1>16. \A a, c \in 1 .. n : a # c => Keys(g[a]) \cap Keys(g[c]) = {}
  <2> SUFFICES ASSUME NEW a \in 1 .. n, NEW c \in 1 .. n, NEW k \in Keys(g[a]), k \in Keys(g[c])
               PROVE  a = c
    OBVIOUS
  <2>1. Nodes[a].name = Nodes[c].name
    BY <1>13
  <2> QED
    BY <2>1, NamesDiffer DEF Nodes, n
<1>17. Once(t)
  BY <1>1, <1>5, <1>6, <1>15, <1>16, OnceFlat
<1> QED
  BY <1>5, <1>9, <1>10, <1>14, <1>17 DEF t, g, n

\* The FIFO probes of a node's controllers are a list.
LEMMA FifoProbesIs ==
    ASSUME NEW node, List(node.controllers)
    PROVE  List(FifoProbes(node))
<1>1. Len(node.controllers) \in Nat /\ DOMAIN node.controllers = 1 .. Len(node.controllers)
  BY ListFacts
<1> DEFINE n == Len(node.controllers)
           t == [i \in 1 .. n |-> FifoProbe(node.controllers[i])]
<1>2. FifoProbes(node) = t
  BY <1>1 DEF FifoProbes
<1>3. DOMAIN t = 1 .. n /\ t = [i \in 1 .. n |-> t[i]]
  OBVIOUS
<1> HIDE DEF t
<1> QED
  BY <1>1, <1>2, <1>3, FunIsList

\* The two kinds of probes; Captures takes the first for all nodes, then the second.
Ordinary == [a \in 1 .. Len(Nodes) |-> Nodes[a].probes]
Fifo == [a \in 1 .. Len(Nodes) |-> FifoProbes(Nodes[a])]

\* The probes of a node, and how they lie in the list that ProbesApart looks at.
LEMMA NodeProbes ==
    ASSUME Listed(topology), NEW a \in 1 .. Len(Nodes)
    PROVE  /\ Nodes[a] \in Elements(topology.nodes)
           /\ Ordinary[a] = Nodes[a].probes /\ Fifo[a] = FifoProbes(Nodes[a])
           /\ List(Ordinary[a]) /\ List(Fifo[a])
<1>1. List(Nodes) /\ Nodes[a] \in Elements(topology.nodes)
  BY ListFacts DEF Listed, Nodes
<1>2. List(Nodes[a].probes) /\ List(Nodes[a].controllers)
  BY <1>1 DEF Listed
<1> QED
  BY <1>1, <1>2, FifoProbesIs DEF Ordinary, Fifo

\* Probes with different names keep them apart in each kind and between the kinds.
LEMMA ApartConcat ==
    ASSUME NEW s, NEW t, List(s), List(t),
           \A i, j \in DOMAIN (s \o t) : (s \o t)[i].name = (s \o t)[j].name => i = j
    PROVE  /\ \A i, j \in 1 .. Len(s) : s[i].name = s[j].name => i = j
           /\ \A i, j \in 1 .. Len(t) : t[i].name = t[j].name => i = j
           /\ \A i \in 1 .. Len(s) : \A j \in 1 .. Len(t) : s[i].name # t[j].name
<1> DEFINE r == s \o t
<1>2. /\ List(r) /\ Len(r) = Len(s) + Len(t) /\ Len(s) \in Nat /\ Len(t) \in Nat
      /\ \A i \in 1 .. Len(s) : r[i] = s[i]
      /\ \A i \in 1 .. Len(t) : r[Len(s) + i] = t[i]
  <2>1. Len(s) \in Nat /\ Len(t) \in Nat
    BY ListFacts
  <2> QED
    BY <2>1, ListConcat
<1>3. DOMAIN r = 1 .. Len(s) + Len(t)
  <2> HIDE DEF r
  <2> QED
    BY <1>2, ListFacts
<1>4. \A i, j \in DOMAIN r : r[i].name = r[j].name => i = j
  OBVIOUS
<1> HIDE DEF r
<1>5. \A i \in 1 .. Len(s) : i \in DOMAIN r
  BY <1>2, <1>3
<1>6. \A i \in 1 .. Len(t) : Len(s) + i \in DOMAIN r
  BY <1>2, <1>3
<1>7. ASSUME NEW i \in 1 .. Len(s), NEW j \in 1 .. Len(s), s[i].name = s[j].name PROVE i = j
  BY <1>2, <1>4, <1>5, <1>7
<1>8. ASSUME NEW i \in 1 .. Len(t), NEW j \in 1 .. Len(t), t[i].name = t[j].name PROVE i = j
  <2>1. Len(s) + i = Len(s) + j
    <3>1. Len(s) + i \in DOMAIN r /\ Len(s) + j \in DOMAIN r
      BY <1>6
    <3>2. r[Len(s) + i] = t[i] /\ r[Len(s) + j] = t[j]
      BY <1>2
    <3> QED
      BY <1>4, <1>8, <3>1, <3>2
  <2> QED
    BY <1>2, <2>1
<1>9. ASSUME NEW i \in 1 .. Len(s), NEW j \in 1 .. Len(t) PROVE s[i].name # t[j].name
  <2>1. i # Len(s) + j
    BY <1>2
  <2> QED
    BY <1>2, <1>4, <1>5, <1>6, <2>1
<1> QED
  BY <1>7, <1>8, <1>9

LEMMA ApartIs ==
    ASSUME Listed(topology), NEW a \in 1 .. Len(Nodes), ProbesApart(Nodes[a])
    PROVE  /\ \A i, j \in 1 .. Len(Ordinary[a]) : Ordinary[a][i].name = Ordinary[a][j].name => i = j
           /\ \A i, j \in 1 .. Len(Fifo[a]) : Fifo[a][i].name = Fifo[a][j].name => i = j
           /\ \A i \in 1 .. Len(Ordinary[a]) : \A j \in 1 .. Len(Fifo[a]) :
                 Ordinary[a][i].name # Fifo[a][j].name
<1>1. /\ Ordinary[a] = Nodes[a].probes /\ Fifo[a] = FifoProbes(Nodes[a])
      /\ List(Ordinary[a]) /\ List(Fifo[a])
  BY NodeProbes
<1>2. \A i, j \in DOMAIN (Ordinary[a] \o Fifo[a]) :
        (Ordinary[a] \o Fifo[a])[i].name = (Ordinary[a] \o Fifo[a])[j].name => i = j
  BY <1>1 DEF ProbesApart
<1> QED
  BY <1>1, <1>2, ApartConcat

\* A sample captures every probe of every node, each once.
LEMMA CapturesAre ==
    ASSUME Listed(topology), TopologyValid, NEW s
    PROVE  /\ List(Captures(s)) /\ Once(Captures(s))
           /\ \A c \in Elements(Captures(s)) : Probing(c, s)
           /\ \A k \in Keys(Captures(s)) : k[3] = s
           /\ \A n \in Elements(topology.nodes) : \A probe \in ProbeNames(n.name) :
                 <<"probe", <<n.name, probe, s>>>> \in Items(Captures(s))
<1> DEFINE one == FlattenSeq(Gathered(Ordinary, s))
           two == FlattenSeq(Gathered(Fifo, s))
<1>1. /\ List(one) /\ Once(one)
      /\ \A c \in Elements(one) : Probing(c, s)
      /\ \A k \in Keys(one) : Probed(Ordinary, s, k)
      /\ \A a \in 1 .. Len(Nodes) : \A i \in 1 .. Len(Ordinary[a]) :
            Capture(Nodes[a], Ordinary[a][i], s) \in Elements(one)
  <2>1. \A a \in 1 .. Len(Nodes) : List(Ordinary[a])
    BY NodeProbes
  <2>2. \A a \in 1 .. Len(Nodes) : ProbesApart(Nodes[a]) =>
           \A i, j \in 1 .. Len(Ordinary[a]) : Ordinary[a][i].name = Ordinary[a][j].name => i = j
    BY ApartIs
  <2> QED
    BY <2>1, <2>2, GatheredIs
<1>2. /\ List(two) /\ Once(two)
      /\ \A c \in Elements(two) : Probing(c, s)
      /\ \A k \in Keys(two) : Probed(Fifo, s, k)
      /\ \A a \in 1 .. Len(Nodes) : \A i \in 1 .. Len(Fifo[a]) :
            Capture(Nodes[a], Fifo[a][i], s) \in Elements(two)
  <2>1. \A a \in 1 .. Len(Nodes) : List(Fifo[a])
    BY NodeProbes
  <2>2. \A a \in 1 .. Len(Nodes) : ProbesApart(Nodes[a]) =>
           \A i, j \in 1 .. Len(Fifo[a]) : Fifo[a][i].name = Fifo[a][j].name => i = j
    BY ApartIs
  <2> QED
    BY <2>1, <2>2, GatheredIs
<1>3. Captures(s) = one \o two
  <2>1. List(Nodes) /\ DOMAIN Nodes = 1 .. Len(Nodes)
    BY ListFacts DEF Listed, Nodes
  <2>2. Gathered(Ordinary, s) = [a \in DOMAIN Nodes |-> ProbesOf(Nodes[a], Nodes[a].probes, s)]
    BY <2>1 DEF Gathered, Ordinary
  <2>3. Gathered(Fifo, s) = [a \in DOMAIN Nodes |-> ProbesOf(Nodes[a], FifoProbes(Nodes[a]), s)]
    BY <2>1 DEF Gathered, Fifo
  <2> QED
    BY <2>2, <2>3, Zenon DEF Captures, ProbesOf, Capture, Nodes
<1> HIDE DEF one, two
<1>4. List(one \o two) /\ Elements(one \o two) = Elements(one) \cup Elements(two)
  BY <1>1, <1>2, ListConcat, ElementsConcat
<1>5. \A k : Probed(Ordinary, s, k) \/ Probed(Fifo, s, k) => k[3] = s
  BY DEF Probed
<1>6. Keys(one) \cap Keys(two) = {}
  <2> SUFFICES ASSUME NEW k, Probed(Ordinary, s, k), Probed(Fifo, s, k) PROVE FALSE
    BY <1>1, <1>2
  <2>1. PICK a \in 1 .. Len(Nodes) : \E i \in 1 .. Len(Ordinary[a]) :
            ProbesApart(Nodes[a]) /\ k = <<Nodes[a].name, Ordinary[a][i].name, s>>
    BY DEF Probed
  <2>2. PICK c \in 1 .. Len(Nodes) : \E i \in 1 .. Len(Fifo[c]) :
            ProbesApart(Nodes[c]) /\ k = <<Nodes[c].name, Fifo[c][i].name, s>>
    BY DEF Probed
  <2>3. Nodes[a].name = Nodes[c].name
    BY <2>1, <2>2
  <2>4. a = c
    BY <2>3, NamesDiffer DEF Nodes
  <2> QED
    BY <2>1, <2>2, <2>4, ApartIs
<1>7. Once(one \o two)
  BY <1>1, <1>2, <1>6, OnceConcat
<1>8. Keys(one \o two) = Keys(one) \cup Keys(two)
  BY <1>1, <1>2, KeysConcat
<1>9. ASSUME NEW n \in Elements(topology.nodes), NEW probe \in ProbeNames(n.name)
      PROVE  <<"probe", <<n.name, probe, s>>>> \in Items(one \o two)
  <2>1. PICK a \in 1 .. Len(Nodes) : n = Nodes[a]
    <3>1. List(Nodes)
      BY DEF Listed, Nodes
    <3>2. Elements(Nodes) = {Nodes[i] : i \in 1 .. Len(Nodes)}
      BY <3>1, ElementsAre
    <3> QED
      BY <3>2 DEF Nodes
  <2>2. NodeNamed(n.name) = n
    BY NodeNamedIs
  <2>3. /\ Ordinary[a] = n.probes /\ Fifo[a] = FifoProbes(n)
        /\ List(Ordinary[a]) /\ List(Fifo[a])
    BY <2>1, NodeProbes
  <2>4. PICK p \in Elements(n.probes \o FifoProbes(n)) : p.name = probe
    BY <2>2 DEF ProbeNames
  <2>5. p \in Elements(Ordinary[a]) \/ p \in Elements(Fifo[a])
    BY <2>3, <2>4, ElementsConcat
  <2>6. Capture(n, p, s) \in Elements(one) \cup Elements(two)
    <3>1. CASE p \in Elements(Ordinary[a])
      <4>1. PICK i \in 1 .. Len(Ordinary[a]) : p = Ordinary[a][i]
        BY <2>3, <3>1, ElementsAre
      <4> QED
        BY <1>1, <2>1, <4>1
    <3>2. CASE p \in Elements(Fifo[a])
      <4>1. PICK i \in 1 .. Len(Fifo[a]) : p = Fifo[a][i]
        BY <2>3, <3>2, ElementsAre
      <4> QED
        BY <1>2, <2>1, <4>1
    <3> QED
      BY <2>5, <3>1, <3>2
  <2> QED
    BY <1>4, <2>4, <2>6, CaptureIs DEF Items
<1> QED
  BY <1>1, <1>2, <1>3, <1>4, <1>5, <1>7, <1>8, <1>9

-----------------------------------------------------------------------------
(* The script that Render writes. *)

\* What two lists leave.
LEMMA ItemsConcat ==
    ASSUME NEW s, NEW t, List(s), List(t)
    PROVE  Items(s \o t) = Items(s) \cup Items(t)
<1>1. Elements(s \o t) = Elements(s) \cup Elements(t)
  BY ElementsConcat
<1> QED
  BY <1>1 DEF Items

\* The events due at a sample.
LEMMA EventsAtAre ==
    ASSUME Listed(topology), NEW kind, NEW s
    PROVE  /\ List(EventsAt(kind, s))
           /\ Elements(EventsAt(kind, s)) =
                {e \in Elements(topology.events) : e.kind = kind /\ e.after = s}
<1> DEFINE some == {e \in Events(kind) : e.after = s}
<1>1. List(InOrder(some)) /\ Elements(InOrder(some)) = some \cap Elements(topology.events)
  BY InOrderIs
<1> QED
  BY <1>1 DEF EventsAt, Events

\* Commands that neither capture a probe nor publish a sample.
Plain(c) == c.name \notin {"probe", "done"}
AllPlain(s) == List(s) /\ \A c \in Elements(s) : Plain(c)

\* Lists of such commands.
LEMMA EachPlain ==
    ASSUME NEW s, List(s), NEW name, name \notin {"probe", "done"}
    PROVE  AllPlain(Each(s, name))
<1>1. List(Each(s, name)) /\ Elements(Each(s, name)) = {Cmd(name, e) : e \in Elements(s)}
  BY EachIs
<1> QED
  BY <1>1 DEF AllPlain, Plain, Cmd

LEMMA PlainConcat ==
    ASSUME NEW s, NEW t, AllPlain(s), AllPlain(t)
    PROVE  AllPlain(s \o t)
<1>1. List(s \o t) /\ Elements(s \o t) = Elements(s) \cup Elements(t)
  BY ElementsConcat, ListConcat DEF AllPlain
<1> QED
  BY <1>1 DEF AllPlain

LEMMA PlainSingle ==
    ASSUME NEW name, NEW arg, name \notin {"probe", "done"}
    PROVE  AllPlain(<<Cmd(name, arg)>>)
<1> DEFINE c == Cmd(name, arg)
<1>1. List(<<c>>) /\ Len(<<c>>) = 1 /\ <<c>>[1] = c
  BY SingleList
<1>2. Elements(<<c>>) = {<<c>>[i] : i \in 1 .. Len(<<c>>)}
  BY <1>1, ElementsAre
<1>3. \A d \in Elements(<<c>>) : d = c
  BY <1>1, <1>2
<1> QED
  BY <1>1, <1>3 DEF AllPlain, Plain, Cmd

LEMMA PlainIs ==
    ASSUME NEW s, AllPlain(s)
    PROVE  List(s) /\ Once(s) /\ Keys(s) = {} /\ \A have : Prepared(s, have)
<1>1. List(s) /\ (\A c \in Elements(s) : ~Rec(c)) /\ (\A c \in Elements(s) : c.name # "done")
  BY DEF AllPlain, Plain, Rec
<1> QED
  BY <1>1, OnceQuiet, PreparedQuiet

\* What is applied before the boot, and after a sample.
LEMMA BeforeBootIs ==
    ASSUME Listed(topology)
    PROVE  /\ AllPlain(BeforeBoot)
           /\ \A e \in Elements(topology.events) :
                 e.after = 0 /\ e.kind \in {"radio", "can_link"} => <<"apply", e>> \in Items(BeforeBoot)
<1> DEFINE one == EventsAt("radio", 0)
           two == EventsAt("can_link", 0)
<1>1. /\ List(one) /\ Elements(one) = {e \in Elements(topology.events) : e.kind = "radio" /\ e.after = 0}
      /\ List(two) /\ Elements(two) = {e \in Elements(topology.events) : e.kind = "can_link" /\ e.after = 0}
  BY EventsAtAre
<1>2. BeforeBoot = Each(one \o two, "apply")
  BY DEF BeforeBoot
<1> HIDE DEF one, two
<1>3. List(one \o two) /\ Elements(one \o two) = Elements(one) \cup Elements(two)
  BY <1>1, ListConcat, ElementsConcat
<1>4. AllPlain(BeforeBoot) /\ Elements(BeforeBoot) = {Cmd("apply", e) : e \in Elements(one \o two)}
  BY <1>2, <1>3, EachPlain, EachIs
<1>5. \A e : Item(Cmd("apply", e)) = <<"apply", e>>
  BY DEF Item, Cmd
<1> QED
  BY <1>1, <1>3, <1>4, <1>5 DEF Items

LEMMA AppliedAfterIs ==
    ASSUME Listed(topology), NEW s
    PROVE  /\ AllPlain(AppliedAfter(s))
           /\ \A e \in Elements(topology.events) :
                 e.after = s /\ (e.kind = "reboot" => e.node \in NodeNames)
                    => <<"apply", e>> \in Items(AppliedAfter(s))
<1> DEFINE one == EventsAt("radio", s)
           two == EventsAt("can_ack", s)
           three == EventsAt("can_link", s)
           some == {e \in Events("reboot") : e.after = s /\ e.node \in NodeNames}
           four == InOrder(some)
           all == ((one \o two) \o three) \o four
<1>1. /\ List(one) /\ Elements(one) = {e \in Elements(topology.events) : e.kind = "radio" /\ e.after = s}
      /\ List(two) /\ Elements(two) = {e \in Elements(topology.events) : e.kind = "can_ack" /\ e.after = s}
      /\ List(three) /\ Elements(three) = {e \in Elements(topology.events) : e.kind = "can_link" /\ e.after = s}
  BY EventsAtAre
<1>2. List(four) /\ Elements(four) = some \cap Elements(topology.events)
  BY InOrderIs
<1>3. \A e \in Elements(four) : e \in Elements(topology.events)
  BY <1>2
<1>4. \A e \in Elements(topology.events) :
         e.kind = "reboot" /\ e.after = s /\ e.node \in NodeNames => e \in Elements(four)
  BY <1>2 DEF Events
<1>5. AppliedAfter(s) = Each(all, "apply")
  BY DEF AppliedAfter
<1> HIDE DEF one, two, three, four
<1>6. List(one \o two) /\ Elements(one \o two) = Elements(one) \cup Elements(two)
  BY <1>1, ListConcat, ElementsConcat
<1>7. /\ List((one \o two) \o three)
      /\ Elements((one \o two) \o three) = Elements(one \o two) \cup Elements(three)
  BY <1>1, <1>6, ListConcat, ElementsConcat
<1>8. List(all) /\ Elements(all) = Elements((one \o two) \o three) \cup Elements(four)
  BY <1>2, <1>7, ListConcat, ElementsConcat
<1>9. Elements(all) = Elements(one) \cup Elements(two) \cup Elements(three) \cup Elements(four)
  BY <1>6, <1>7, <1>8
<1> HIDE DEF all
<1>10. AllPlain(AppliedAfter(s)) /\ Elements(AppliedAfter(s)) = {Cmd("apply", e) : e \in Elements(all)}
  BY <1>5, <1>8, EachPlain, EachIs
<1>11. \A e : Item(Cmd("apply", e)) = <<"apply", e>>
  BY DEF Item, Cmd
<1>12. ASSUME NEW e \in Elements(topology.events), e.after = s, e.kind = "reboot" => e.node \in NodeNames
       PROVE  e \in Elements(all)
  <2>1. e.kind \in {"radio", "can_ack", "can_link", "reboot"}
    BY DEF Listed
  <2>2. CASE e.kind = "reboot"
    BY <1>4, <1>9, <1>12, <2>2
  <2>3. CASE e.kind # "reboot"
    BY <1>1, <1>9, <1>12, <2>1, <2>3
  <2> QED
    BY <2>2, <2>3
<1> QED
  BY <1>10, <1>11, <1>12 DEF Items

\* A sample's commands: what it leaves, and that it is published last.
LEMMA RenderSampleIs ==
    ASSUME Listed(topology), TopologyValid, NEW s
    PROVE  /\ List(RenderSample(s)) /\ Once(RenderSample(s))
           /\ \A k \in Keys(RenderSample(s)) : k[3] = s
           /\ Items(Captures(s)) \cup Items(AppliedAfter(s)) \subseteq Items(RenderSample(s))
           /\ \A have : Required(s) \subseteq have \cup Items(Captures(s)) \cup Items(AppliedAfter(s))
                 => Prepared(RenderSample(s), have)
<1> DEFINE run == <<Cmd("run", s)>>
           done == <<Cmd("done", s)>>
           cap == Captures(s)
           app == AppliedAfter(s)
           one == run \o cap
           two == one \o app
<1>1. AllPlain(run) /\ AllPlain(app)
  BY PlainSingle, AppliedAfterIs
<1>2. /\ List(run) /\ Once(run) /\ Keys(run) = {}
      /\ List(app) /\ Once(app) /\ Keys(app) = {}
      /\ \A have : Prepared(run, have) /\ Prepared(app, have)
  BY <1>1, PlainIs
<1>3. /\ List(cap) /\ Once(cap) /\ \A k \in Keys(cap) : k[3] = s
  BY CapturesAre
<1>4. \A have : Prepared(cap, have)
  <2>1. \A c \in Elements(cap) : c.name # "done"
    BY CapturesAre DEF Probing
  <2> QED
    BY <1>3, <2>1, PreparedQuiet
<1>5. /\ List(done) /\ Len(done) = 1 /\ done[1] = Cmd("done", s)
      /\ \A c \in Elements(done) : c = Cmd("done", s)
  <2>1. List(done) /\ Len(done) = 1 /\ done[1] = Cmd("done", s)
    BY SingleList
  <2>2. Elements(done) = {done[i] : i \in 1 .. Len(done)}
    BY <2>1, ElementsAre
  <2> HIDE DEF done
  <2>3. \A c \in Elements(done) : c = Cmd("done", s)
    BY <2>1, <2>2
  <2> QED
    BY <2>1, <2>3
<1> HIDE DEF run, done, cap, app
<1>6. Once(done) /\ Keys(done) = {}
  <2>1. \A c \in Elements(done) : ~Rec(c)
    BY <1>5 DEF Rec, Cmd
  <2> QED
    BY <1>5, <2>1, OnceQuiet
<1>7. /\ List(one) /\ Once(one) /\ Keys(one) = Keys(cap)
      /\ Items(one) = Items(run) \cup Items(cap) /\ \A have : Prepared(one, have)
  <2>1. List(one) /\ Items(one) = Items(run) \cup Items(cap) /\ Keys(one) = Keys(run) \cup Keys(cap)
    BY <1>2, <1>3, ListConcat, ItemsConcat, KeysConcat
  <2>2. Once(one)
    BY <1>2, <1>3, <1>4, OnceConcat
  <2>3. \A have : Prepared(one, have)
    BY <1>2, <1>3, <1>4, PreparedConcat
  <2> QED
    BY <1>2, <2>1, <2>2, <2>3
<1> HIDE DEF one
<1>8. /\ List(two) /\ Once(two) /\ Keys(two) = Keys(cap)
      /\ Items(two) = Items(one) \cup Items(app) /\ \A have : Prepared(two, have)
  <2>1. List(two) /\ Items(two) = Items(one) \cup Items(app) /\ Keys(two) = Keys(one) \cup Keys(app)
    BY <1>2, <1>7, ListConcat, ItemsConcat, KeysConcat
  <2>2. Once(two)
    BY <1>2, <1>7, OnceConcat
  <2>3. \A have : Prepared(two, have)
    BY <1>2, <1>7, PreparedConcat
  <2> QED
    BY <1>2, <1>7, <2>1, <2>2, <2>3
<1> HIDE DEF two
<1>9. RenderSample(s) = two \o done
  BY DEF RenderSample, two, one, run, done, cap, app
<1>10. /\ List(two \o done) /\ Once(two \o done)
       /\ Keys(two \o done) = Keys(cap) /\ Items(two) \subseteq Items(two \o done)
  <2>1. /\ List(two \o done) /\ Keys(two \o done) = Keys(two) \cup Keys(done)
        /\ Items(two \o done) = Items(two) \cup Items(done)
    BY <1>5, <1>8, ListConcat, ItemsConcat, KeysConcat
  <2>2. Once(two \o done)
    BY <1>5, <1>6, <1>8, OnceConcat
  <2> QED
    BY <1>6, <1>8, <2>1, <2>2
<1>11. ASSUME NEW have, Required(s) \subseteq have \cup Items(cap) \cup Items(app)
       PROVE  Prepared(two \o done, have)
  <2>1. Prepared(done, have \cup Items(two))
    <3>1. Required(s) \subseteq have \cup Items(two)
      BY <1>7, <1>8, <1>11
    <3>2. \A i \in 1 .. Len(done) : done[i].arg = s
      BY <1>5 DEF Cmd
    <3> QED
      BY <3>1, <3>2 DEF Prepared
  <2> QED
    BY <1>5, <1>8, <2>1, PreparedConcat
<1> QED
  BY <1>3, <1>7, <1>8, <1>9, <1>10, <1>11 DEF cap, app

\* What the samples before s left.
Past(s) == UNION {Items(RenderSample(c)) : c \in 1 .. s - 1}

\* Everything a sample promises is in the script by then.
LEMMA RequiredBy ==
    ASSUME Listed(topology), TopologyValid, NEW s \in 1 .. topology.sample_count
    PROVE  Required(s) \subseteq
             Items(BeforeBoot) \cup Past(s) \cup Items(Captures(s)) \cup Items(AppliedAfter(s))
<1>0. s \in Nat \ {0}
  BY DEF Listed
<1>1. \A c : Items(Captures(c)) \cup Items(AppliedAfter(c)) \subseteq Items(RenderSample(c))
  BY RenderSampleIs
<1>2. ASSUME NEW e \in ToApply(s)
      PROVE  <<"apply", e>> \in Items(BeforeBoot) \cup Items(AppliedAfter(s)) \cup Past(s)
  <2>1. /\ e \in Elements(topology.events) /\ e.after <= s
        /\ ~(e.kind = "reboot" /\ e.node \in HostNames)
    BY DEF ToApply
  <2>2. e.after \in Nat /\ e.kind \in {"radio", "can_ack", "can_link", "reboot"}
    BY <2>1 DEF Listed
  <2>3. EventValid(e)
    BY <2>1 DEF TopologyValid
  <2>4. CASE e.after = 0
    <3>1. e.kind \in {"radio", "can_link"}
      BY <2>2, <2>3, <2>4 DEF EventValid, InsideRun
    <3> QED
      BY <2>1, <2>4, <3>1, BeforeBootIs
  <2>5. CASE e.after # 0
    <3>1. e.kind = "reboot" => e.node \in NodeNames
      BY <2>1, <2>3 DEF EventValid
    <3>2. <<"apply", e>> \in Items(AppliedAfter(e.after))
      BY <2>1, <3>1, AppliedAfterIs
    <3>3. e.after = s \/ e.after \in 1 .. s - 1
      BY <1>0, <2>1, <2>2, <2>5
    <3> QED
      BY <1>1, <3>2, <3>3 DEF Past
  <2> QED
    BY <2>4, <2>5
<1>3. ASSUME NEW k \in ProbeKeys(s)
      PROVE  <<"probe", k>> \in Items(Captures(s)) \cup Past(s)
  <2>1. PICK n \in Elements(topology.nodes) :
            k \in {<<n.name, probe, c>> : probe \in ProbeNames(n.name), c \in 1 .. s}
    BY DEF ProbeKeys
  <2>2. PICK probe \in ProbeNames(n.name), c \in 1 .. s : k = <<n.name, probe, c>>
    BY <2>1
  <2>3. <<"probe", <<n.name, probe, c>>>> \in Items(Captures(c))
    BY CapturesAre
  <2>4. c = s \/ c \in 1 .. s - 1
    BY <1>0
  <2> QED
    BY <1>1, <2>2, <2>3, <2>4 DEF Past
<1> SUFFICES ASSUME NEW x \in Required(s)
             PROVE  x \in Items(BeforeBoot) \cup Past(s) \cup Items(Captures(s)) \cup Items(AppliedAfter(s))
  OBVIOUS
<1>4. (\E e \in ToApply(s) : x = <<"apply", e>>) \/ (\E k \in ProbeKeys(s) : x = <<"probe", k>>)
  BY DEF Required
<1>5. CASE \E e \in ToApply(s) : x = <<"apply", e>>
  <2>1. PICK e \in ToApply(s) : x = <<"apply", e>>
    BY <1>5
  <2>2. x \in Items(BeforeBoot) \cup Items(AppliedAfter(s)) \cup Past(s)
    BY <1>2, <2>1
  <2> QED
    BY <2>2
<1>6. CASE \E k \in ProbeKeys(s) : x = <<"probe", k>>
  <2>1. PICK k \in ProbeKeys(s) : x = <<"probe", k>>
    BY <1>6
  <2>2. x \in Items(Captures(s)) \cup Past(s)
    BY <1>3, <2>1
  <2> QED
    BY <2>2
<1> QED
  BY <1>4, <1>5, <1>6

\* The whole script keeps its promises and captures nothing twice.
LEMMA RenderIs ==
    ASSUME Listed(topology), TopologyValid
    PROVE  List(Render) /\ Once(Render) /\ Prepared(Render, {})
<1> DEFINE n == topology.sample_count
           first == (Each(SetToSeq(Terminals), "terminal") \o Each(topology.nodes, "load")) \o BeforeBoot
           ss == [s \in 1 .. n |-> RenderSample(s)]
           body == FlattenSeq(ss)
           last == <<Cmd("complete", 0)>>
<1>1. AllPlain(first) /\ Items(BeforeBoot) \subseteq Items(first)
  <2> DEFINE pre == Each(SetToSeq(Terminals), "terminal") \o Each(topology.nodes, "load")
  <2>1. List(SetToSeq(Terminals)) /\ List(topology.nodes)
    BY TerminalsFinite, SetToSeqList DEF Listed
  <2>2. AllPlain(pre)
    BY <2>1, EachPlain, PlainConcat
  <2>3. AllPlain(BeforeBoot)
    BY BeforeBootIs
  <2> HIDE DEF pre
  <2>4. AllPlain(pre \o BeforeBoot) /\ Items(pre \o BeforeBoot) = Items(pre) \cup Items(BeforeBoot)
    BY <2>2, <2>3, PlainConcat, ItemsConcat, PlainIs
  <2> QED
    BY <2>4 DEF pre
<1>2. AllPlain(last)
  BY PlainSingle
<1>3. Render = (first \o body) \o last
  BY DEF Render
<1>4. n \in Nat
  BY DEF Listed
<1> HIDE DEF first, last, n
<1>5. /\ DOMAIN ss = 1 .. n /\ ss = [i \in 1 .. n |-> ss[i]]
      /\ \A i \in 1 .. n : ss[i] = RenderSample(i)
  OBVIOUS
<1> HIDE DEF ss
<1>6. List(ss) /\ Len(ss) = n
  BY <1>4, <1>5, FunIsList
<1>7. \A i \in 1 .. n : List(ss[i]) /\ Once(ss[i]) /\ \A k \in Keys(ss[i]) : k[3] = i
  BY <1>5, RenderSampleIs
<1>8. Flat(body, ss, n) /\ List(body)
  <2>1. \A i \in 1 .. Len(ss) : List(ss[i])
    BY <1>6, <1>7
  <2>2. Flat(FlattenSeq(ss), ss, Len(ss))
    BY <1>6, <2>1, FlattenIs
  <2> QED
    BY <1>6, <2>2 DEF Flat
<1> HIDE DEF body
<1>9. \A i \in 1 .. n : List(ss[i])
  BY <1>7
<1>10. Once(body)
  <2>1. \A i \in 1 .. n : Once(ss[i])
    BY <1>7
  <2>2. \A a, c \in 1 .. n : a # c => Keys(ss[a]) \cap Keys(ss[c]) = {}
    BY <1>7
  <2> QED
    BY <1>4, <1>8, <1>9, <2>1, <2>2, OnceFlat
<1>12. Prepared(body, Items(first))
  <2>1. ASSUME NEW a \in 1 .. n
        PROVE  Prepared(ss[a], Items(first) \cup UNION {Items(ss[c]) : c \in 1 .. a - 1})
    <3> DEFINE have == Items(first) \cup UNION {Items(ss[c]) : c \in 1 .. a - 1}
    <3>1. \A c \in 1 .. a - 1 : c \in 1 .. n /\ ss[c] = RenderSample(c)
      BY <1>4, <1>5
    <3>2. Past(a) \subseteq have
      BY <3>1 DEF Past
    <3>3. Items(BeforeBoot) \subseteq have
      BY <1>1
    <3> HIDE DEF have
    <3>4. Required(a) \subseteq have \cup Items(Captures(a)) \cup Items(AppliedAfter(a))
      <4>1. Required(a) \subseteq
              Items(BeforeBoot) \cup Past(a) \cup Items(Captures(a)) \cup Items(AppliedAfter(a))
        BY RequiredBy DEF n
      <4> QED
        BY <3>2, <3>3, <4>1
    <3>5. Prepared(RenderSample(a), have)
      BY <3>4, RenderSampleIs
    <3> QED
      BY <1>5, <3>5 DEF have
  <2> QED
    BY <1>4, <1>8, <1>9, <2>1, PreparedFlat
<1>13. /\ List(first) /\ Once(first) /\ Keys(first) = {} /\ Prepared(first, {})
       /\ List(last) /\ Once(last) /\ Keys(last) = {}
       /\ Prepared(last, {} \cup Items(first \o body))
  BY <1>1, <1>2, PlainIs
<1>14. /\ List(first \o body) /\ Once(first \o body)
       /\ Prepared(first \o body, {})
  <2>1. Prepared(body, {} \cup Items(first))
    BY <1>12, PreparedMore
  <2>2. Once(first \o body)
    BY <1>8, <1>10, <1>13, OnceConcat
  <2> QED
    BY <1>8, <1>13, <2>1, <2>2, ListConcat, PreparedConcat
<1>15. Keys(first \o body) \cap Keys(last) = {}
  BY <1>13
<1> DEFINE all == first \o body
<1> HIDE DEF all
<1>16. /\ List(all) /\ Once(all) /\ Prepared(all, {})
       /\ Keys(all) \cap Keys(last) = {} /\ Prepared(last, {} \cup Items(all))
  BY <1>13, <1>14, <1>15 DEF all
<1>17. Once(all \o last)
  BY <1>13, <1>16, OnceConcat
<1>18. List(all \o last) /\ Prepared(all \o last, {})
  BY <1>13, <1>16, ListConcat, PreparedConcat
<1> QED
  BY <1>3, <1>17, <1>18 DEF all

\* What was done, as the records show it.
Have(a, f) == {<<"apply", e>> : e \in Elements(a)} \cup {<<"probe", Key(r)>> : r \in Elements(f)}

\* The names of the records of nodes whose probes have different names.
RecordKeys(f) == {Key(r) : r \in {q \in Elements(f) : Apart(q.node)}}
OnceRecorded(f) == \A i, j \in 1 .. Len(f) : Apart(f[i].node) /\ Key(f[i]) = Key(f[j]) => i = j

\* A line that reports a sample reports one whose promises are kept.
Honest(l, have) == l.kind = "sample_done" => Required(l.arg) \subseteq have
AllHonest(s, have) == \A l \in Elements(s) : Honest(l, have)

\* The inductive invariant: what is written and what is still to come are lists;
ListsInv ==
    /\ Listed(topology)
    /\ List(script) /\ List(applied) /\ List(probe_file)
    /\ pipe = [p \in Pipes |-> pipe[p]] /\ \A p \in Pipes : List(pipe[p])

\* the rest of the script keeps the promises it still makes;
ScriptInv ==
    /\ Once(script)
    /\ Prepared(script, Have(applied, probe_file))

\* no record is there twice, and none will be made again;
RecordInv ==
    /\ OnceRecorded(probe_file)
    /\ Keys(script) \cap RecordKeys(probe_file) = {}

\* and every sample reported, in a pipe or in the sample file, kept its promises.
PublishedInv ==
    /\ \A p \in Pipes : AllHonest(pipe[p], Have(applied, probe_file))
    /\ \A k \in {sample_file, writing} \ {None, 0} : Required(k) \subseteq Have(applied, probe_file)

\* All of it; before validation nothing runs and nothing is recorded.
SampleInv ==
    /\ ListsInv /\ ScriptInv /\ RecordInv /\ PublishedInv
    /\ runner = "validate" => runtime = "none" /\ probe_file = <<>>

-----------------------------------------------------------------------------

\* What the topology and the script decide stays while the topology does.
LEMMA SameTopology ==
    ASSUME topology' = topology
    PROVE  /\ \A k : Required(k)' = Required(k)
           /\ \A s, have : Prepared(s, have)' <=> Prepared(s, have)
           /\ \A name : Apart(name)' <=> Apart(name)
           /\ \A s : Keys(s)' = Keys(s)
           /\ \A s : Once(s)' <=> Once(s)
           /\ \A f : RecordKeys(f)' = RecordKeys(f)
           /\ \A f : OnceRecorded(f)' <=> OnceRecorded(f)
           /\ \A s, have : AllHonest(s, have)' <=> AllHonest(s, have)
<1>1. \A k : Required(k)' = Required(k)
  BY DEF Required, ProbeKeys, ToApply, HostNames, ProbeNames, NodeNamed
<1>2. \A s, have : Prepared(s, have)' <=> Prepared(s, have)
  BY <1>1 DEF Prepared
<1>3. \A name : Apart(name)' <=> Apart(name)
  BY DEF Apart
<1>4. \A s : Keys(s)' = Keys(s)
  BY <1>3 DEF Keys, Rec
<1>5. \A s : Once(s)' <=> Once(s)
  BY <1>3 DEF Once, Same, Rec
<1>6. \A f : RecordKeys(f)' = RecordKeys(f)
  BY <1>3 DEF RecordKeys
<1>7. \A f : OnceRecorded(f)' <=> OnceRecorded(f)
  BY <1>3 DEF OnceRecorded
<1>8. \A s, have : AllHonest(s, have)' <=> AllHonest(s, have)
  BY <1>1 DEF AllHonest, Honest
<1> QED
  BY <1>1, <1>2, <1>3, <1>4, <1>5, <1>6, <1>7, <1>8

\* One more element; and no element.
LEMMA AppendIs ==
    ASSUME NEW s, List(s), NEW x
    PROVE  /\ List(Append(s, x)) /\ Len(Append(s, x)) = Len(s) + 1
           /\ \A i \in 1 .. Len(s) : Append(s, x)[i] = s[i]
           /\ Append(s, x)[Len(s) + 1] = x
           /\ Elements(Append(s, x)) = Elements(s) \cup {x}
<1> DEFINE t == Append(s, x)
           S == Elements(s) \cup {x}
<1>1. s \in Seq(Elements(s)) /\ Len(s) \in Nat
  BY ListFacts DEF List
<1>2. s \in Seq(S) /\ x \in S
  BY <1>1, SeqMonotonic
<1> HIDE DEF S
<1>3. /\ t \in Seq(S) /\ Len(t) = Len(s) + 1 /\ t[Len(s) + 1] = x
      /\ \A i \in 1 .. Len(s) : t[i] = s[i]
  BY <1>2, AppendProperties
<1> HIDE DEF t
<1>4. List(t)
  BY <1>3, SeqIsList
<1>5. Elements(t) = {t[i] : i \in 1 .. Len(t)} /\ Elements(s) = {s[i] : i \in 1 .. Len(s)}
  BY <1>4, ElementsAre
<1>6. 1 .. Len(t) = 1 .. Len(s) \cup {Len(s) + 1}
  BY <1>1, <1>3
<1>7. Elements(t) = Elements(s) \cup {x}
  BY <1>3, <1>5, <1>6
<1> QED
  BY <1>3, <1>4, <1>7 DEF t

LEMMA EmptyIs ==
    /\ List(<<>>) /\ Elements(<<>>) = {} /\ Len(<<>>) = 0 /\ Once(<<>>)
    /\ Keys(<<>>) = {} /\ OnceRecorded(<<>>) /\ RecordKeys(<<>>) = {}
    /\ \A have : Prepared(<<>>, have) /\ AllHonest(<<>>, have)
<1>1. List(<<>>) /\ Elements(<<>>) = {} /\ Len(<<>>) = 0
  BY EmptyList DEF Elements
<1>2. 1 .. 0 = {}
  OBVIOUS
<1> QED
  BY <1>1, <1>2 DEF Once, Keys, OnceRecorded, RecordKeys, Prepared, AllHonest

\* Steps that touch none of the lists.
LEMMA Idle ==
    ASSUME SampleInv,
           UNCHANGED <<topology, script, applied, probe_file, pipe, sample_file, writing>>,
           runner' # "validate" \/ UNCHANGED <<runner, runtime>>
    PROVE  SampleInv'
<1>1. ListsInv' /\ ScriptInv' /\ RecordInv' /\ PublishedInv'
  <2>1. ListsInv'
    BY DEF SampleInv, ListsInv
  <2>2. ScriptInv'
    BY SameTopology DEF SampleInv, ScriptInv
  <2>3. RecordInv'
    BY SameTopology DEF SampleInv, RecordInv
  <2>4. PublishedInv'
    BY SameTopology DEF SampleInv, PublishedInv
  <2> QED
    BY <2>1, <2>2, <2>3, <2>4
<1> QED
  BY <1>1 DEF SampleInv

\* The initial states.
LEMMA InitSample == Init => SampleInv
<1> SUFFICES ASSUME Init PROVE SampleInv
  OBVIOUS
<1>1. Listed(topology)
  BY BaysAssumption DEF Init
<1>2. ListsInv
  BY <1>1, EmptyIs DEF Init, ListsInv
<1>3. ScriptInv /\ RecordInv
  BY EmptyIs DEF Init, ScriptInv, RecordInv
<1>4. PublishedInv
  BY EmptyIs DEF Init, PublishedInv
<1> QED
  BY <1>2, <1>3, <1>4 DEF Init, SampleInv

\* Lines stay honest when more is done, and together.
LEMMA HonestMore ==
    ASSUME NEW s, NEW A, NEW B, A \subseteq B, AllHonest(s, A)
    PROVE  AllHonest(s, B)
BY DEF AllHonest, Honest

LEMMA HonestConcat ==
    ASSUME NEW s, NEW t, NEW have, List(s), List(t), AllHonest(s, have), AllHonest(t, have)
    PROVE  List(s \o t) /\ AllHonest(s \o t, have)
<1>1. List(s \o t) /\ Elements(s \o t) = Elements(s) \cup Elements(t)
  BY ListConcat, ElementsConcat
<1> QED
  BY <1>1 DEF AllHonest

LEMMA HonestSingle ==
    ASSUME NEW l, NEW have, Honest(l, have)
    PROVE  List(<<l>>) /\ AllHonest(<<l>>, have)
<1>1. List(<<l>>) /\ Len(<<l>>) = 1 /\ <<l>>[1] = l
  BY SingleList
<1>2. Elements(<<l>>) = {<<l>>[i] : i \in 1 .. Len(<<l>>)}
  BY <1>1, ElementsAre
<1>3. \A m \in Elements(<<l>>) : m = l
  BY <1>1, <1>2
<1> QED
  BY <1>1, <1>3 DEF AllHonest

\* A thread that writes lines to a pipe.
LEMMA WriteKeeps ==
    ASSUME ListsInv, NEW have, NEW p \in Pipes, NEW lines, List(lines), AllHonest(lines, have),
           \A q \in Pipes : AllHonest(pipe[q], have), Write(p, lines)
    PROVE  /\ pipe' = [q \in Pipes |-> pipe'[q]]
           /\ \A q \in Pipes : List(pipe'[q]) /\ AllHonest(pipe'[q], have)
<1>1. pipe = [q \in Pipes |-> pipe[q]] /\ \A q \in Pipes : List(pipe[q])
  BY DEF ListsInv
<1>2. List(pipe[p] \o lines) /\ AllHonest(pipe[p] \o lines, have)
  BY <1>1, HonestConcat
<1>3. pipe' = pipe \/ pipe' = [pipe EXCEPT ![p] = pipe[p] \o lines]
  BY DEF Write
<1>4. CASE pipe' = pipe
  BY <1>1, <1>4
<1>5. CASE pipe' = [pipe EXCEPT ![p] = pipe[p] \o lines]
  <2> DEFINE new == pipe[p] \o lines
  <2> HIDE DEF new
  <2>1. pipe' = [pipe EXCEPT ![p] = new]
    BY <1>5 DEF new
  <2>2. \A q \in Pipes : pipe'[q] = IF q = p THEN new ELSE pipe[q]
    BY <1>1, <2>1
  <2>3. pipe' = [q \in Pipes |-> pipe'[q]]
    BY <1>1, <2>1
  <2> QED
    BY <1>1, <1>2, <2>2, <2>3 DEF new
<1> QED
  BY <1>3, <1>4, <1>5

\* Only applied events and captured probes are promised.
LEMMA PreparedLess ==
    ASSUME NEW s, NEW have, NEW name, NEW y, name \notin {"apply", "probe"},
           Prepared(s, have \cup {<<name, y>>})
    PROVE  Prepared(s, have)
<1>1. \A k : <<name, y>> \notin Required(k)
  BY DEF Required
<1> QED
  BY <1>1 DEF Prepared

\* What the records show after one command.
LEMMA CommandRecords ==
    ASSUME ListsInv, ScriptInv, CommandRuns
    PROVE  /\ List(applied') /\ List(probe_file')
           /\ Have(applied', probe_file') =
                IF Head(script).name \in {"apply", "probe"}
                  THEN Have(applied, probe_file) \cup {Item(Head(script))}
                  ELSE Have(applied, probe_file)
           /\ IF Head(script).name = "probe"
                THEN \E r : /\ probe_file' = Append(probe_file, r)
                            /\ Key(r) = Key(Head(script).arg) /\ r.node = Head(script).arg.node
                ELSE probe_file' = probe_file
<1> DEFINE c == Head(script)
           r == Record(c.arg)
<1>1. script # <<>> /\ List(script) /\ List(applied) /\ List(probe_file)
  BY DEF CommandRuns, Busy, ListsInv
<1>3. /\ applied' = IF c.name = "apply" THEN Append(applied, c.arg) ELSE applied
      /\ probe_file' = IF c.name = "probe" THEN Append(probe_file, r) ELSE probe_file
  BY DEF CommandRuns
<1>4. r.node = c.arg.node /\ Key(r) = Key(c.arg)
  BY DEF Record, Key
<1> HIDE DEF r, c
<1>5. Item(c) = <<c.name, IF c.name = "probe" THEN Key(c.arg) ELSE c.arg>>
  BY DEF Item
<1>6. CASE c.name = "apply"
  <2>1. List(applied') /\ Elements(applied') = Elements(applied) \cup {c.arg} /\ probe_file' = probe_file
    BY <1>1, <1>3, <1>6, AppendIs
  <2>2. Item(c) = <<"apply", c.arg>>
    BY <1>5, <1>6
  <2>3. Have(applied', probe_file') = Have(applied, probe_file) \cup {Item(c)}
    BY <2>1, <2>2 DEF Have
  <2> QED
    BY <1>1, <1>6, <2>1, <2>3 DEF c
<1>7. CASE c.name = "probe"
  <2>1. /\ List(probe_file') /\ Elements(probe_file') = Elements(probe_file) \cup {r}
        /\ applied' = applied /\ probe_file' = Append(probe_file, r)
    BY <1>1, <1>3, <1>7, AppendIs
  <2>2. Item(c) = <<"probe", Key(r)>>
    BY <1>4, <1>5, <1>7
  <2>3. Have(applied', probe_file') = Have(applied, probe_file) \cup {Item(c)}
    BY <2>1, <2>2 DEF Have
  <2> QED
    BY <1>1, <1>4, <1>7, <2>1, <2>3 DEF c
<1>8. CASE c.name \notin {"apply", "probe"}
  BY <1>1, <1>3, <1>8 DEF c
<1> QED
  BY <1>6, <1>7, <1>8

\* The simulator carries out one command.
LEMMA CommandKeeps ==
    ASSUME SampleInv, CommandRuns
    PROVE  SampleInv'
<1> DEFINE c == Head(script)
           have == Have(applied, probe_file)
           next == Have(applied', probe_file')
<1>1. /\ ListsInv /\ ScriptInv /\ RecordInv /\ PublishedInv
      /\ runner = "validate" => runtime = "none" /\ probe_file = <<>>
  BY DEF SampleInv
<1>2. /\ script # <<>> /\ runtime = "busy" /\ script' = Tail(script)
      /\ Write("stdout", Printed(c))
      /\ UNCHANGED <<topology, sample_file, writing, runner>>
  BY DEF CommandRuns, Busy, Others, readerVars
<1>3. /\ List(applied') /\ List(probe_file')
      /\ next = IF c.name \in {"apply", "probe"} THEN have \cup {Item(c)} ELSE have
  BY <1>1, CommandRecords
<1>4. IF c.name = "probe"
        THEN \E r : /\ probe_file' = Append(probe_file, r)
                    /\ Key(r) = Key(c.arg) /\ r.node = c.arg.node
        ELSE probe_file' = probe_file
  BY <1>1, CommandRecords
<1>5. List(script) /\ List(Tail(script)) /\ c \in Elements(script)
  BY <1>1, <1>2, HeadTail DEF ListsInv
<1>6. /\ c.name = "done" => Required(c.arg) \subseteq have
      /\ Prepared(Tail(script), have \cup {Item(c)})
  BY <1>1, <1>2, <1>5, PreparedTail DEF ScriptInv
<1>7. /\ Once(Tail(script)) /\ Keys(Tail(script)) \subseteq Keys(script)
      /\ Rec(c) => Key(c.arg) \in Keys(script) \ Keys(Tail(script))
  BY <1>1, <1>2, <1>5, OnceTail DEF ScriptInv
<1> HIDE DEF c, have, next
<1>8. have \subseteq next
  BY <1>3
<1>9. Prepared(Tail(script), next)
  <2>1. CASE c.name \in {"apply", "probe"}
    BY <1>3, <1>6, <2>1
  <2>2. CASE c.name \notin {"apply", "probe"}
    <3>1. PICK y : Item(c) = <<c.name, y>>
      BY DEF Item
    <3> QED
      BY <1>3, <1>6, <2>2, <3>1, PreparedLess
  <2> QED
    BY <2>1, <2>2
<1>11. List(Printed(c)) /\ AllHonest(Printed(c), next)
  <2>1. CASE c.name = "done"
    <3>1. Printed(c) = <<Line("sample_done", c.arg)>>
      BY <2>1 DEF Printed
    <3>2. Honest(Line("sample_done", c.arg), next)
      BY <1>6, <1>8, <2>1 DEF Honest, Line
    <3> QED
      BY <3>1, <3>2, HonestSingle
  <2>2. CASE c.name # "done"
    <3>1. Honest(Line("complete", 0), next) /\ Honest(Line("watchdog", 0), next)
      BY DEF Honest, Line
    <3>2. Printed(c) \in {<<Line("complete", 0)>>, <<Line("watchdog", 0)>>, <<>>}
      BY <2>2 DEF Printed
    <3> QED
      BY <3>1, <3>2, HonestSingle, EmptyIs
  <2> QED
    BY <2>1, <2>2
<1>12. /\ pipe' = [q \in Pipes |-> pipe'[q]]
       /\ \A q \in Pipes : List(pipe'[q]) /\ AllHonest(pipe'[q], next)
  <2>1. "stdout" \in Pipes
    BY DEF Pipes
  <2>2. \A q \in Pipes : AllHonest(pipe[q], next)
    BY <1>1, <1>8, HonestMore DEF PublishedInv, have
  <2> QED
    BY <1>1, <1>2, <1>11, <2>1, <2>2, WriteKeeps
<1>13. ListsInv'
  BY <1>1, <1>2, <1>3, <1>5, <1>12 DEF ListsInv
<1>14. ScriptInv'
  BY <1>2, <1>7, <1>9, SameTopology DEF ScriptInv, next
<1>15. OnceRecorded(probe_file') /\ Keys(Tail(script)) \cap RecordKeys(probe_file') = {}
  <2>1. CASE c.name # "probe"
    BY <1>1, <1>4, <1>7, <2>1 DEF RecordInv
  <2>2. CASE c.name = "probe"
    <3>1. PICK r : /\ probe_file' = Append(probe_file, r)
                   /\ Key(r) = Key(c.arg) /\ r.node = c.arg.node
      BY <1>4, <2>2
    <3>2. /\ List(probe_file) /\ Len(probe_file) \in Nat
          /\ Len(probe_file') = Len(probe_file) + 1
          /\ \A i \in 1 .. Len(probe_file) : probe_file'[i] = probe_file[i]
          /\ probe_file'[Len(probe_file) + 1] = r
          /\ Elements(probe_file') = Elements(probe_file) \cup {r}
      <4>1. List(probe_file)
        BY <1>1 DEF ListsInv
      <4>2. Len(probe_file) \in Nat
        BY <4>1, ListFacts
      <4> QED
        BY <3>1, <4>1, <4>2, AppendIs
    <3>3. Apart(r.node) => Rec(c)
      BY <2>2, <3>1 DEF Rec
    <3>4. Apart(r.node) => Key(r) \notin RecordKeys(probe_file)
      BY <1>1, <1>7, <3>1, <3>3 DEF RecordInv
    <3>5. RecordKeys(probe_file') \subseteq RecordKeys(probe_file) \cup {Key(q) : q \in {x \in {r} : Apart(x.node)}}
      BY <3>2 DEF RecordKeys
    <3>6. Keys(Tail(script)) \cap RecordKeys(probe_file') = {}
      BY <1>1, <1>7, <3>1, <3>3, <3>5 DEF RecordInv
    <3>7. OnceRecorded(probe_file')
      <4> SUFFICES ASSUME NEW i \in 1 .. Len(probe_file'), NEW j \in 1 .. Len(probe_file'),
                          Apart(probe_file'[i].node), Key(probe_file'[i]) = Key(probe_file'[j])
                   PROVE  i = j
        BY DEF OnceRecorded
      <4>1. \A m \in 1 .. Len(probe_file) :
              Apart(probe_file[m].node) => Key(probe_file[m]) \in RecordKeys(probe_file)
        BY <3>2, ListFacts DEF RecordKeys
      <4>2. probe_file'[i].node = probe_file'[j].node
        BY DEF Key
      <4>3. CASE i \in 1 .. Len(probe_file) /\ j \in 1 .. Len(probe_file)
        BY <1>1, <3>2, <4>3 DEF RecordInv, OnceRecorded
      <4>4. CASE i \in 1 .. Len(probe_file) /\ j = Len(probe_file) + 1
        BY <3>2, <3>4, <4>1, <4>2, <4>4
      <4>5. CASE i = Len(probe_file) + 1 /\ j \in 1 .. Len(probe_file)
        BY <3>2, <3>4, <4>1, <4>2, <4>5
      <4>6. CASE i = Len(probe_file) + 1 /\ j = Len(probe_file) + 1
        BY <4>6
      <4> QED
        BY <3>2, <4>3, <4>4, <4>5, <4>6
    <3> QED
      BY <3>6, <3>7
  <2> QED
    BY <2>1, <2>2
<1>16. RecordInv'
  BY <1>2, <1>15, SameTopology DEF RecordInv
<1>17. PublishedInv'
  <2>1. \A k \in {sample_file', writing'} \ {None, 0} : Required(k) \subseteq next
    BY <1>1, <1>2, <1>8 DEF PublishedInv, have
  <2> QED
    BY <1>2, <1>12, <2>1, SameTopology DEF PublishedInv, next
<1>18. runner' # "validate"
  BY <1>1, <1>2
<1> QED
  BY <1>13, <1>14, <1>16, <1>17, <1>18 DEF SampleInv

\* The script is abandoned, or goes on after a line that says what went wrong.
LEMMA FaultKeeps ==
    ASSUME SampleInv, SimulatorFault
    PROVE  SampleInv'
<1> DEFINE have == Have(applied, probe_file)
<1>1. /\ ListsInv /\ ScriptInv /\ RecordInv /\ PublishedInv
      /\ runner = "validate" => runtime = "none" /\ probe_file = <<>>
  BY DEF SampleInv
<1>2. /\ runtime = "busy" /\ (script' = script \/ script' = <<>>)
      /\ UNCHANGED <<topology, applied, probe_file, sample_file, writing, runner>>
  BY DEF SimulatorFault, RuntimeCrashes, CommandFails, FaultLogged, Busy, Others, WorldUntouched,
         readerVars
<1>3. \/ UNCHANGED pipe
      \/ \E p \in Pipes, kind \in {"failed", "fault"} : Write(p, <<Line(kind, 0)>>)
  BY DEF SimulatorFault, RuntimeCrashes, CommandFails, FaultLogged
<1>4. \A kind \in {"failed", "fault"} : List(<<Line(kind, 0)>>) /\ AllHonest(<<Line(kind, 0)>>, have)
  <2> TAKE kind \in {"failed", "fault"}
  <2>1. Honest(Line(kind, 0), have)
    BY DEF Honest, Line
  <2> QED
    BY <2>1, HonestSingle
<1> HIDE DEF have
<1>5. /\ pipe' = [q \in Pipes |-> pipe'[q]]
      /\ \A q \in Pipes : List(pipe'[q]) /\ AllHonest(pipe'[q], have)
  <2>1. \A q \in Pipes : AllHonest(pipe[q], have)
    BY <1>1 DEF PublishedInv, have
  <2>2. CASE UNCHANGED pipe
    BY <1>1, <2>1, <2>2 DEF ListsInv
  <2>3. CASE \E p \in Pipes, kind \in {"failed", "fault"} : Write(p, <<Line(kind, 0)>>)
    <3>1. PICK p \in Pipes, kind \in {"failed", "fault"} : Write(p, <<Line(kind, 0)>>)
      BY <2>3
    <3> DEFINE lines == <<Line(kind, 0)>>
    <3>2. List(lines) /\ AllHonest(lines, have) /\ Write(p, lines)
      BY <1>4, <3>1
    <3> HIDE DEF lines
    <3> QED
      BY <1>1, <2>1, <3>2, WriteKeeps
  <2> QED
    BY <1>3, <2>2, <2>3
<1>6. ListsInv'
  BY <1>1, <1>2, <1>5, EmptyIs DEF ListsInv
<1>7. ScriptInv'
  BY <1>1, <1>2, EmptyIs, SameTopology DEF ScriptInv
<1>8. RecordInv'
  BY <1>1, <1>2, EmptyIs, SameTopology DEF RecordInv
<1>9. PublishedInv'
  BY <1>1, <1>2, <1>5, SameTopology DEF PublishedInv, have
<1> QED
  BY <1>1, <1>2, <1>6, <1>7, <1>8, <1>9 DEF SampleInv

\* Steps that leave the script and the records alone.
LEMMA PublishedOnly ==
    ASSUME SampleInv, UNCHANGED <<topology, script, applied, probe_file, runner, runtime>>,
           pipe' = [p \in Pipes |-> pipe'[p]],
           \A p \in Pipes : List(pipe'[p]) /\ AllHonest(pipe'[p], Have(applied, probe_file)),
           \A k \in {sample_file', writing'} \ {None, 0} : Required(k) \subseteq Have(applied, probe_file)
    PROVE  SampleInv'
<1>1. ListsInv'
  BY DEF SampleInv, ListsInv
<1>2. ScriptInv'
  BY SameTopology DEF SampleInv, ScriptInv
<1>3. RecordInv'
  BY SameTopology DEF SampleInv, RecordInv
<1>4. PublishedInv'
  BY SameTopology DEF PublishedInv
<1> QED
  BY <1>1, <1>2, <1>3, <1>4 DEF SampleInv

\* A reader passes a line on, or publishes the sample it reports.
LEMMA ReaderKeeps ==
    ASSUME SampleInv, NEW p \in Pipes, Reader(p) \/ ReaderFails(p)
    PROVE  SampleInv'
<1> DEFINE have == Have(applied, probe_file)
<1>1. /\ ListsInv /\ PublishedInv
      /\ UNCHANGED <<topology, script, applied, probe_file, runner, runtime>>
  BY DEF SampleInv, Reader, ReadLine, ReaderEnds, PublishSample, ReaderFails, ReaderOthers, simVars
<1>2. /\ pipe = [q \in Pipes |-> pipe[q]]
      /\ \A q \in Pipes : List(pipe[q]) /\ AllHonest(pipe[q], have)
      /\ \A k \in {sample_file, writing} \ {None, 0} : Required(k) \subseteq have
  BY <1>1 DEF ListsInv, PublishedInv
<1> HIDE DEF have
<1>3. ASSUME NEW lines, pipe' = [pipe EXCEPT ![p] = lines], List(lines), AllHonest(lines, have)
      PROVE  /\ pipe' = [q \in Pipes |-> pipe'[q]]
             /\ \A q \in Pipes : List(pipe'[q]) /\ AllHonest(pipe'[q], have)
  <2>1. \A q \in Pipes : pipe'[q] = IF q = p THEN lines ELSE pipe[q]
    BY <1>2, <1>3
  <2>2. pipe' = [q \in Pipes |-> pipe'[q]]
    BY <1>2, <1>3
  <2> QED
    BY <1>2, <1>3, <2>1, <2>2
<1>4. CASE ReadLine(p)
  <2>1. pipe[p] # <<>> /\ pipe' = [pipe EXCEPT ![p] = Tail(pipe[p])]
    BY <1>4 DEF ReadLine
  <2>2. IF p = "stdout" /\ Head(pipe[p]).kind = "sample_done"
          THEN writing' = Head(pipe[p]).arg /\ sample_file' = None
          ELSE UNCHANGED <<writing, sample_file>>
    BY <1>4 DEF ReadLine
  <2> DEFINE s == pipe[p]
  <2>3. List(s) /\ AllHonest(s, have)
    BY <1>2
  <2> HIDE DEF s
  <2>4. /\ Len(s) \in Nat \ {0} /\ Head(s) \in Elements(s) /\ List(Tail(s))
        /\ Len(Tail(s)) = Len(s) - 1
        /\ \A i \in 1 .. Len(s) - 1 : Tail(s)[i] = s[i + 1]
    BY <2>1, <2>3, HeadTail DEF s
  <2>5. Honest(Head(s), have)
    BY <2>3, <2>4 DEF AllHonest
  <2>6. AllHonest(Tail(s), have)
    <3>1. /\ Elements(Tail(s)) = {Tail(s)[i] : i \in 1 .. Len(Tail(s))}
          /\ Elements(s) = {s[i] : i \in 1 .. Len(s)}
      BY <2>3, <2>4, ElementsAre
    <3>2. \A i \in 1 .. Len(Tail(s)) : i + 1 \in 1 .. Len(s)
      BY <2>4
    <3>3. \A l \in Elements(Tail(s)) : l \in Elements(s)
      BY <2>4, <3>1, <3>2
    <3> QED
      BY <2>3, <3>3 DEF AllHonest
  <2>7. /\ pipe' = [q \in Pipes |-> pipe'[q]]
        /\ \A q \in Pipes : List(pipe'[q]) /\ AllHonest(pipe'[q], have)
    BY <1>3, <2>1, <2>4, <2>6 DEF s
  <2>8. \A k \in {sample_file', writing'} \ {None, 0} : Required(k) \subseteq have
    BY <1>2, <2>2, <2>5 DEF Honest, s
  <2> QED
    BY <1>1, <2>7, <2>8, PublishedOnly DEF have
<1>5. CASE PublishSample
  <2>1. UNCHANGED pipe /\ sample_file' = writing /\ writing' = None
    BY <1>5 DEF PublishSample
  <2>2. \A k \in {sample_file', writing'} \ {None, 0} : Required(k) \subseteq have
    BY <1>2, <2>1
  <2> QED
    BY <1>1, <1>2, <2>1, <2>2, PublishedOnly DEF have
<1>6. CASE ReaderEnds(p)
  <2>1. UNCHANGED <<pipe, sample_file, writing>>
    BY <1>6 DEF ReaderEnds
  <2> QED
    BY <1>1, <2>1, Idle
<1>7. CASE ReaderFails(p)
  <2>1. /\ pipe' = [pipe EXCEPT ![p] = <<>>] /\ UNCHANGED sample_file
        /\ writing' = writing \/ writing' = None
    BY <1>7 DEF ReaderFails
  <2>2. /\ pipe' = [q \in Pipes |-> pipe'[q]]
        /\ \A q \in Pipes : List(pipe'[q]) /\ AllHonest(pipe'[q], have)
    BY <1>3, <2>1, EmptyIs
  <2>3. \A k \in {sample_file', writing'} \ {None, 0} : Required(k) \subseteq have
    BY <1>2, <2>1
  <2> QED
    BY <1>1, <2>2, <2>3, PublishedOnly DEF have
<1> QED
  BY <1>4, <1>5, <1>6, <1>7 DEF Reader

\* The runner writes the script of a topology it accepted.
LEMMA ValidateKeeps ==
    ASSUME SampleInv, Validate
    PROVE  SampleInv'
<1>1. /\ ListsInv /\ PublishedInv /\ RecordInv /\ ScriptInv /\ probe_file = <<>>
      /\ UNCHANGED <<topology, applied, probe_file, pipe, sample_file, writing>>
      /\ runner' # "validate"
      /\ script' = script \/ (TopologyValid /\ script' = Render)
  BY DEF SampleInv, Validate
<1>2. CASE script' = script
  BY <1>1, <1>2, Idle
<1>3. CASE TopologyValid /\ script' = Render
  <2>1. List(Render) /\ Once(Render) /\ Prepared(Render, {})
    BY <1>1, <1>3, RenderIs DEF ListsInv
  <2>2. Prepared(Render, Have(applied, probe_file))
    BY <2>1, PreparedMore
  <2> DEFINE new == Render
  <2>3. /\ script' = new /\ List(new) /\ Once(new) /\ Prepared(new, Have(applied, probe_file))
    BY <1>3, <2>1, <2>2
  <2> HIDE DEF new
  <2>4. ListsInv'
    BY <1>1, <2>3 DEF ListsInv
  <2>5. ScriptInv'
    BY <1>1, <2>3, SameTopology DEF ScriptInv
  <2>6. RecordInv'
    BY <1>1, EmptyIs, SameTopology DEF RecordInv
  <2>7. PublishedInv'
    BY <1>1, SameTopology DEF PublishedInv
  <2> QED
    BY <1>1, <2>4, <2>5, <2>6, <2>7 DEF SampleInv
<1> QED
  BY <1>1, <1>2, <1>3

\* The other steps of the runner read what is there.
LEMMA RunnerKeeps ==
    ASSUME SampleInv, Runner \/ WaitExpires \/ StartFails \/ RebootFails
    PROVE  SampleInv'
<1>1. CASE Validate
  BY <1>1, ValidateKeeps
<1>2. CASE WaitLooks \/ WaitPolls \/ WaitLast \/ WaitExpires \/ GiveUp \/ GiveUpJoins
  <2>1. /\ UNCHANGED <<topology, script, applied, probe_file, pipe, sample_file, writing>>
        /\ runner' # "validate"
    BY <1>2 DEF WaitLooks, WaitPolls, WaitLast, WaitExpires, GiveUp, GiveUpJoins, WaitOthers,
                RunnerOthers, readerVars
  <2> QED
    BY <2>1, Idle
<1>3. CASE StartHosts \/ StartFails \/ ReceiveFailure \/ KillAfterFailure \/ PollSimulator \/ CheckHosts
  <2>1. /\ UNCHANGED <<topology, script, applied, probe_file, pipe, sample_file, writing>>
        /\ runner' # "validate"
    BY <1>3 DEF StartHosts, StartFails, ReceiveFailure, KillAfterFailure, PollSimulator, CheckHosts,
                Quietly, WaitOthers, RunnerOthers, readerVars
  <2> QED
    BY <2>1, Idle
<1>4. CASE ReadSample \/ RebootHost \/ RebootFails \/ RoundEnds \/ Shutdown \/ Judge
  <2>1. /\ UNCHANGED <<topology, script, applied, probe_file, pipe, sample_file, writing>>
        /\ runner' # "validate"
    BY <1>4 DEF ReadSample, RebootHost, RebootFails, RoundEnds, Shutdown, Judge, Quietly, RunnerOthers, readerVars,
                simVars
  <2> QED
    BY <2>1, Idle
<1> QED
  BY <1>1, <1>2, <1>3, <1>4 DEF Runner

\* Nothing else touches the script or the records.
LEMMA OtherKeeps ==
    ASSUME SampleInv,
           \/ ScriptQuits \/ ChildEnds \/ BridgeFails \/ BridgeCut \/ BridgeStops
           \/ \E h \in HostNames : HostOpens(h) \/ HostExits(h)
           \/ UNCHANGED vars
    PROVE  SampleInv'
<1>1. CASE ScriptQuits
  <2>1. /\ UNCHANGED <<topology, script, applied, probe_file, pipe, sample_file, writing, runner>>
        /\ runtime = "busy"
    BY <1>1 DEF ScriptQuits, WorldUntouched, Others, readerVars
  <2> QED
    BY <2>1, Idle DEF SampleInv
<1>2. CASE ChildEnds
  BY <1>2, Idle DEF ChildEnds, WorldUntouched, Others, readerVars
<1>3. CASE BridgeFails \/ BridgeCut \/ BridgeStops
  BY <1>3, Idle DEF BridgeFails, BridgeCut, BridgeStops, BridgeEnds, BridgeOthers, simVars, readerVars
<1>4. CASE \E h \in HostNames : HostOpens(h) \/ HostExits(h)
  BY <1>4, Idle DEF HostOpens, HostExits, HostOthers, simVars, readerVars
<1>5. CASE UNCHANGED vars
  BY <1>5, Idle DEF vars, simVars, readerVars
<1> QED
  BY <1>1, <1>2, <1>3, <1>4, <1>5

\* Every step.
LEMMA SampleStep == SampleInv /\ [Next]_vars => SampleInv'
<1> SUFFICES ASSUME SampleInv, [Next]_vars PROVE SampleInv'
  OBVIOUS
<1>1. CASE CommandRuns
  BY <1>1, CommandKeeps
<1>2. CASE SimulatorFault
  BY <1>2, FaultKeeps
<1>3. CASE \E p \in Pipes : Reader(p) \/ ReaderFails(p)
  BY <1>3, ReaderKeeps
<1>4. CASE Runner \/ WaitExpires \/ StartFails \/ RebootFails
  BY <1>4, RunnerKeeps
<1>5. CASE \/ ScriptQuits \/ ChildEnds \/ BridgeFails \/ BridgeCut \/ BridgeStops
           \/ \E h \in HostNames : HostOpens(h) \/ HostExits(h)
           \/ UNCHANGED vars
  BY <1>5, OtherKeeps
<1> QED
  BY <1>1, <1>2, <1>3, <1>4, <1>5 DEF Next, SimulatorStep, Mishap

\* What was done shows in the records.
LEMMA HaveRecorded ==
    ASSUME SampleInv, NEW k, Required(k) \subseteq Have(applied, probe_file)
    PROVE  ToApply(k) \subseteq Elements(applied) /\ CapturedUpTo(k)
<1>1. ToApply(k) \subseteq Elements(applied)
  <2> SUFFICES ASSUME NEW e \in ToApply(k) PROVE e \in Elements(applied)
    OBVIOUS
  <2>1. <<"apply", e>> \in Have(applied, probe_file)
    BY DEF Required
  <2> QED
    BY <2>1 DEF Have
<1>2. ASSUME NEW n \in Elements(topology.nodes), NEW probe \in ProbeNames(n.name), NEW s \in 1 .. k
      PROVE  Recorded(n, probe, s)
  <2> DEFINE f == probe_file
             records == {i \in DOMAIN f : f[i].node = n.name /\ f[i].probe = probe /\ f[i].sample = s}
  <2>1. <<n.name, probe, s>> \in ProbeKeys(k)
    BY DEF ProbeKeys
  <2>2. <<"probe", <<n.name, probe, s>>>> \in Have(applied, f)
    BY <2>1 DEF Required
  <2>3. PICK r \in Elements(f) : Key(r) = <<n.name, probe, s>>
    BY <2>2 DEF Have
  <2>4. List(f) /\ OnceRecorded(f)
    BY DEF SampleInv, ListsInv, RecordInv
  <2> HIDE DEF f
  <2>5. DOMAIN f = 1 .. Len(f)
    BY <2>4, ListFacts
  <2>6. PICK i \in 1 .. Len(f) : f[i] = r
    BY <2>4, <2>3, ElementsAre
  <2>7. i \in records
    BY <2>3, <2>5, <2>6 DEF Key
  <2>8. ASSUME ProbesApart(n) PROVE Cardinality(records) = 1
    <3>1. Apart(n.name)
      BY <2>8 DEF Apart
    <3>2. \A j \in records : j = i
      BY <2>4, <2>5, <2>7, <3>1 DEF OnceRecorded, Key
    <3>3. records = {i}
      BY <2>7, <3>2
    <3> HIDE DEF records
    <3> QED
      BY <3>3, FS_Singleton
  <2> QED
    BY <2>7, <2>8 DEF Recorded, f
<1> QED
  BY <1>1, <1>2 DEF CapturedUpTo

\* The invariant says what SampleHonest says.
LEMMA SampleFromInv == SampleInv => SampleHonest
<1> SUFFICES ASSUME SampleInv, NEW k \in {sample_file, writing} \ {None, 0}
             PROVE  ToApply(k) \subseteq Elements(applied) /\ CapturedUpTo(k)
  BY DEF SampleHonest
<1>1. Required(k) \subseteq Have(applied, probe_file)
  BY DEF SampleInv, PublishedInv
<1> QED
  BY <1>1, HaveRecorded

\* For every topology and firmware, once a sample stands in the sample file (or is
\* being written there) all its events and those before were applied and each of its
\* probes has its record, and one only where a node names its probes differently
\* (render_sample publishes behind the captures, bay.rs; the readers pass it on).
THEOREM SampleHonestHolds == Spec => []SampleHonest
<1>1. Init => SampleInv
  BY InitSample
<1>2. SampleInv /\ [Next]_vars => SampleInv'
  BY SampleStep
<1>3. SampleInv => SampleHonest
  BY SampleFromInv
<1> QED
  BY <1>1, <1>2, <1>3, PTL DEF Spec

-----------------------------------------------------------------------------
(* The end of the script. *)

\* Commands in front of the last one: none ends the script, and what they apply is planned.
Ahead(c) == c.name # "complete" /\ (c.name = "apply" => c.arg \in ToApply(topology.sample_count))
AllAhead(s) == List(s) /\ \A c \in Elements(s) : Ahead(c)

\* Together, end to end; one command; and one for each element of a list.
LEMMA AheadConcat ==
    ASSUME NEW s, NEW t, AllAhead(s), AllAhead(t)
    PROVE  AllAhead(s \o t)
<1>1. List(s \o t) /\ Elements(s \o t) = Elements(s) \cup Elements(t)
  BY ElementsConcat, ListConcat DEF AllAhead
<1> QED
  BY <1>1 DEF AllAhead

LEMMA SingleElements ==
    ASSUME NEW c
    PROVE  List(<<c>>) /\ Elements(<<c>>) = {c}
<1>1. List(<<c>>) /\ Len(<<c>>) = 1 /\ <<c>>[1] = c
  BY SingleList
<1>2. Elements(<<c>>) = {<<c>>[i] : i \in 1 .. Len(<<c>>)}
  BY <1>1, ElementsAre
<1> QED
  BY <1>1, <1>2

LEMMA EachAhead ==
    ASSUME NEW s, List(s), NEW name, name \notin {"complete", "apply"}
    PROVE  AllAhead(Each(s, name))
<1>1. List(Each(s, name)) /\ Elements(Each(s, name)) = {Cmd(name, e) : e \in Elements(s)}
  BY EachIs
<1> QED
  BY <1>1 DEF AllAhead, Ahead, Cmd

LEMMA EachApplied ==
    ASSUME NEW s, List(s), Elements(s) \subseteq ToApply(topology.sample_count)
    PROVE  AllAhead(Each(s, "apply"))
<1>1. List(Each(s, "apply")) /\ Elements(Each(s, "apply")) = {Cmd("apply", e) : e \in Elements(s)}
  BY EachIs
<1> QED
  BY <1>1 DEF AllAhead, Ahead, Cmd

\* Firmware and hosts have different names.
LEMMA ApartNames ==
    ASSUME TopologyValid
    PROVE  \A name \in NodeNames : name \notin HostNames
BY DEF TopologyValid, HostsValid, HostNames

\* Only planned events are applied, before the boot and after a sample.
LEMMA BeforeBootAhead ==
    ASSUME Listed(topology), TopologyValid
    PROVE  AllAhead(BeforeBoot)
<1> DEFINE one == EventsAt("radio", 0)
           two == EventsAt("can_link", 0)
<1>1. /\ List(one) /\ Elements(one) = {e \in Elements(topology.events) : e.kind = "radio" /\ e.after = 0}
      /\ List(two) /\ Elements(two) = {e \in Elements(topology.events) : e.kind = "can_link" /\ e.after = 0}
  BY EventsAtAre
<1>2. BeforeBoot = Each(one \o two, "apply")
  BY DEF BeforeBoot
<1> HIDE DEF one, two
<1>3. List(one \o two) /\ Elements(one \o two) = Elements(one) \cup Elements(two)
  BY <1>1, ListConcat, ElementsConcat
<1>4. topology.sample_count \in Nat
  BY DEF Listed
<1>5. Elements(one \o two) \subseteq ToApply(topology.sample_count)
  BY <1>1, <1>3, <1>4 DEF ToApply
<1> QED
  BY <1>2, <1>3, <1>5, EachApplied

LEMMA AppliedAfterAhead ==
    ASSUME Listed(topology), TopologyValid, NEW s \in 1 .. topology.sample_count
    PROVE  AllAhead(AppliedAfter(s))
<1> DEFINE one == EventsAt("radio", s)
           two == EventsAt("can_ack", s)
           three == EventsAt("can_link", s)
           some == {e \in Events("reboot") : e.after = s /\ e.node \in NodeNames}
           four == InOrder(some)
           all == ((one \o two) \o three) \o four
<1>1. /\ List(one) /\ Elements(one) = {e \in Elements(topology.events) : e.kind = "radio" /\ e.after = s}
      /\ List(two) /\ Elements(two) = {e \in Elements(topology.events) : e.kind = "can_ack" /\ e.after = s}
      /\ List(three) /\ Elements(three) = {e \in Elements(topology.events) : e.kind = "can_link" /\ e.after = s}
  BY EventsAtAre
<1>2. List(four) /\ Elements(four) = some \cap Elements(topology.events)
  BY InOrderIs
<1>3. \A e \in Elements(four) : e \in Elements(topology.events) /\ e.after = s /\ e.node \in NodeNames
  BY <1>2
<1>4. AppliedAfter(s) = Each(all, "apply")
  BY DEF AppliedAfter
<1> HIDE DEF one, two, three, four
<1>5. List(one \o two) /\ Elements(one \o two) = Elements(one) \cup Elements(two)
  BY <1>1, ListConcat, ElementsConcat
<1>6. /\ List((one \o two) \o three)
      /\ Elements((one \o two) \o three) = Elements(one \o two) \cup Elements(three)
  BY <1>1, <1>5, ListConcat, ElementsConcat
<1>7. List(all) /\ Elements(all) = Elements((one \o two) \o three) \cup Elements(four)
  BY <1>2, <1>6, ListConcat, ElementsConcat
<1>8. Elements(all) = Elements(one) \cup Elements(two) \cup Elements(three) \cup Elements(four)
  BY <1>5, <1>6, <1>7
<1> HIDE DEF all
<1>9. s \in Nat /\ topology.sample_count \in Nat /\ s <= topology.sample_count
  BY DEF Listed
<1>10. ASSUME NEW e \in Elements(all) PROVE e \in ToApply(topology.sample_count)
  <2>1. CASE e \in Elements(four)
    <3>1. e.node \notin HostNames
      BY <1>3, <2>1, ApartNames
    <3> QED
      BY <1>3, <1>9, <2>1, <3>1 DEF ToApply
  <2>2. CASE e \in Elements(one) \cup Elements(two) \cup Elements(three)
    BY <1>1, <1>9, <2>2 DEF ToApply
  <2> QED
    BY <1>8, <2>1, <2>2
<1> QED
  BY <1>4, <1>7, <1>10, EachApplied

\* The commands of a sample, of which the first runs it.
LEMMA RenderSampleAhead ==
    ASSUME Listed(topology), TopologyValid, NEW s \in 1 .. topology.sample_count
    PROVE  AllAhead(RenderSample(s)) /\ <<"run", s>> \in Items(RenderSample(s))
<1> DEFINE run == <<Cmd("run", s)>>
           done == <<Cmd("done", s)>>
           cap == Captures(s)
           app == AppliedAfter(s)
<1>1. List(run) /\ Elements(run) = {Cmd("run", s)} /\ List(done) /\ Elements(done) = {Cmd("done", s)}
  BY SingleElements
<1>2. AllAhead(run) /\ AllAhead(done)
  BY <1>1 DEF AllAhead, Ahead, Cmd
<1>3. AllAhead(app)
  BY AppliedAfterAhead
<1>4. AllAhead(cap)
  BY CapturesAre DEF AllAhead, Ahead, Probing
<1>5. Item(Cmd("run", s)) = <<"run", s>>
  BY DEF Item, Cmd
<1>6. RenderSample(s) = ((run \o cap) \o app) \o done
  BY DEF RenderSample
<1>7. <<"run", s>> \in Items(run)
  BY <1>1, <1>5 DEF Items
<1> HIDE DEF run, done, cap, app
<1>8. AllAhead(run \o cap) /\ <<"run", s>> \in Items(run \o cap)
  BY <1>2, <1>4, <1>7, AheadConcat, ItemsConcat DEF AllAhead
<1> DEFINE one == run \o cap
<1>9. AllAhead(one) /\ <<"run", s>> \in Items(one)
  BY <1>8
<1> HIDE DEF one
<1>10. AllAhead(one \o app) /\ <<"run", s>> \in Items(one \o app)
  BY <1>3, <1>9, AheadConcat, ItemsConcat DEF AllAhead
<1> DEFINE two == one \o app
<1>11. AllAhead(two) /\ <<"run", s>> \in Items(two)
  BY <1>10
<1> HIDE DEF two
<1>12. AllAhead(two \o done) /\ <<"run", s>> \in Items(two \o done)
  BY <1>2, <1>11, AheadConcat, ItemsConcat DEF AllAhead
<1> QED
  BY <1>6, <1>12 DEF two, one

\* The end of the script is its last command.
Coming(s) == \E c \in Elements(s) : c.name = "complete"
Whole(s) == \A i \in 1 .. Len(s) : s[i].name = "complete" => i = Len(s)

\* The whole script ends once, runs the first sample, does what the last sample
\* promises, and applies nothing else.
LEMMA RenderEnds ==
    ASSUME Listed(topology), TopologyValid
    PROVE  /\ List(Render) /\ Whole(Render)
           /\ Required(topology.sample_count) \subseteq Items(Render)
           /\ <<"run", 1>> \in Items(Render)
           /\ \A c \in Elements(Render) : c.name = "apply" => c.arg \in ToApply(topology.sample_count)
<1> DEFINE n == topology.sample_count
           pre == Each(SetToSeq(Terminals), "terminal") \o Each(topology.nodes, "load")
           first == pre \o BeforeBoot
           ss == [s \in 1 .. n |-> RenderSample(s)]
           body == FlattenSeq(ss)
           last == <<Cmd("complete", 0)>>
<1>1. List(SetToSeq(Terminals)) /\ List(topology.nodes)
  BY TerminalsFinite, SetToSeqList DEF Listed
<1>2. AllAhead(pre)
  BY <1>1, EachAhead, AheadConcat
<1>3. AllAhead(BeforeBoot)
  BY BeforeBootAhead
<1>4. Render = (first \o body) \o last
  BY DEF Render
<1> HIDE DEF pre
<1>5. AllAhead(first) /\ Items(first) = Items(pre) \cup Items(BeforeBoot)
  BY <1>2, <1>3, AheadConcat, ItemsConcat DEF AllAhead
<1>6. n \in Nat \ {0}
  BY DEF Listed, TopologyValid
<1>7. List(last) /\ Elements(last) = {Cmd("complete", 0)} /\ Len(last) = 1 /\ last[1] = Cmd("complete", 0)
  BY SingleElements, SingleList
<1> HIDE DEF first, last, n
<1>8. /\ DOMAIN ss = 1 .. n /\ ss = [i \in 1 .. n |-> ss[i]]
      /\ \A i \in 1 .. n : ss[i] = RenderSample(i)
  OBVIOUS
<1> HIDE DEF ss
<1>9. List(ss) /\ Len(ss) = n
  BY <1>6, <1>8, FunIsList
<1>10. \A i \in 1 .. n : AllAhead(ss[i]) /\ <<"run", i>> \in Items(ss[i])
  BY <1>8, RenderSampleAhead DEF n
<1>11. /\ List(body)
       /\ \A x : x \in Elements(body) <=> \E a \in 1 .. n : x \in Elements(ss[a])
  <2>1. \A a \in 1 .. Len(ss) : List(ss[a])
    BY <1>9, <1>10 DEF AllAhead
  <2> QED
    BY <1>9, <2>1, ElementsFlatten
<1> HIDE DEF body
<1>12. AllAhead(body)
  BY <1>10, <1>11 DEF AllAhead
<1>13. \A a \in 1 .. n : Items(ss[a]) \subseteq Items(body)
  BY <1>11 DEF Items
<1> DEFINE front == first \o body
<1>14. AllAhead(front) /\ Items(front) = Items(first) \cup Items(body)
  BY <1>5, <1>12, AheadConcat, ItemsConcat DEF AllAhead
<1> HIDE DEF front
<1>15. Required(n) \subseteq Items(front)
  <2>1. Required(n) \subseteq
          Items(BeforeBoot) \cup Past(n) \cup Items(Captures(n)) \cup Items(AppliedAfter(n))
    BY <1>6, RequiredBy DEF n
  <2>2. Items(Captures(n)) \cup Items(AppliedAfter(n)) \subseteq Items(ss[n])
    BY <1>6, <1>8, RenderSampleIs
  <2>3. Past(n) \subseteq Items(body)
    <3>1. \A c \in 1 .. n - 1 : c \in 1 .. n /\ RenderSample(c) = ss[c]
      BY <1>6, <1>8
    <3> QED
      BY <1>13, <3>1 DEF Past
  <2>4. Items(ss[n]) \subseteq Items(body)
    BY <1>6, <1>13
  <2> QED
    BY <1>5, <1>14, <2>1, <2>2, <2>3, <2>4
<1>16. <<"run", 1>> \in Items(front)
  <2>1. 1 \in 1 .. n
    BY <1>6
  <2> QED
    BY <1>10, <1>13, <1>14, <2>1
<1>17. /\ List(front \o last) /\ Elements(front \o last) = Elements(front) \cup {Cmd("complete", 0)}
       /\ Items(front) \subseteq Items(front \o last)
       /\ Len(front \o last) = Len(front) + 1
       /\ \A i \in 1 .. Len(front) : (front \o last)[i] = front[i]
  <2>1. Items(front \o last) = Items(front) \cup Items(last)
    BY <1>7, <1>14, ItemsConcat DEF AllAhead
  <2> QED
    BY <1>7, <1>14, <2>1, ListConcat, ElementsConcat DEF AllAhead
<1>18. Whole(front \o last)
  <2> SUFFICES ASSUME NEW i \in 1 .. Len(front \o last), (front \o last)[i].name = "complete"
               PROVE  i = Len(front \o last)
    BY DEF Whole
  <2>1. Len(front) \in Nat /\ \A j \in 1 .. Len(front) : front[j].name # "complete"
    BY <1>14, ListFacts DEF AllAhead, Ahead
  <2>2. i \notin 1 .. Len(front)
    BY <1>17, <2>1
  <2> QED
    BY <1>17, <2>1, <2>2
<1>19. \A c \in Elements(front \o last) : c.name = "apply" => c.arg \in ToApply(n)
  <2>1. Cmd("complete", 0).name # "apply"
    BY DEF Cmd
  <2> QED
    BY <1>14, <1>17, <2>1 DEF AllAhead, Ahead, n
<1> QED
  BY <1>4, <1>15, <1>16, <1>17, <1>18, <1>19 DEF front, n

\* The first command and the rest, as sets.
LEMMA HeadTailSets ==
    ASSUME NEW s, List(s), s # <<>>
    PROVE  /\ Elements(s) = {Head(s)} \cup Elements(Tail(s))
           /\ Items(s) = {Item(Head(s))} \cup Items(Tail(s))
<1>1. /\ Len(s) \in Nat \ {0} /\ Head(s) = s[1] /\ Head(s) \in Elements(s)
      /\ List(Tail(s)) /\ Len(Tail(s)) = Len(s) - 1
      /\ \A i \in 1 .. Len(s) - 1 : Tail(s)[i] = s[i + 1]
  BY HeadTail
<1>2. /\ Elements(s) = {s[i] : i \in 1 .. Len(s)}
      /\ Elements(Tail(s)) = {Tail(s)[i] : i \in 1 .. Len(Tail(s))}
  BY <1>1, ElementsAre
<1>3. \A x \in Elements(Tail(s)) : x \in Elements(s)
  <2> TAKE x \in Elements(Tail(s))
  <2>1. PICK i \in 1 .. Len(Tail(s)) : x = Tail(s)[i]
    BY <1>2
  <2>2. i + 1 \in 1 .. Len(s) /\ x = s[i + 1]
    BY <1>1, <2>1
  <2> QED
    BY <1>2, <2>2
<1>4. \A x \in Elements(s) : x = Head(s) \/ x \in Elements(Tail(s))
  <2> TAKE x \in Elements(s)
  <2>1. PICK i \in 1 .. Len(s) : x = s[i]
    BY <1>2
  <2>2. CASE i = 1
    BY <1>1, <2>1, <2>2
  <2>3. CASE i # 1
    <3>1. i - 1 \in 1 .. Len(s) - 1 /\ (i - 1) + 1 = i
      BY <1>1, <2>3
    <3>2. Tail(s)[i - 1] = s[i] /\ i - 1 \in 1 .. Len(Tail(s))
      BY <1>1, <3>1
    <3> QED
      BY <1>2, <2>1, <3>2
  <2> QED
    BY <2>2, <2>3
<1>5. Elements(s) = {Head(s)} \cup Elements(Tail(s))
  BY <1>1, <1>3, <1>4
<1> QED
  BY <1>5 DEF Items

\* Taking the first command.
LEMMA WholeTail ==
    ASSUME NEW s, List(s), s # <<>>, Whole(s)
    PROVE  /\ Whole(Tail(s)) /\ (Coming(Tail(s)) => Coming(s))
           /\ Head(s).name = "complete" => Items(s) = {Item(Head(s))} /\ ~Coming(Tail(s))
<1> DEFINE t == Tail(s)
           h == Head(s)
<1>1. /\ Len(s) \in Nat \ {0} /\ h = s[1]
      /\ List(t) /\ Len(t) = Len(s) - 1
      /\ \A i \in 1 .. Len(s) - 1 : t[i] = s[i + 1]
  BY HeadTail
<1>2. Elements(s) = {h} \cup Elements(t) /\ Items(s) = {Item(h)} \cup Items(t)
  BY HeadTailSets
<1> HIDE DEF t, h
<1>3. Whole(t)
  <2> SUFFICES ASSUME NEW i \in 1 .. Len(t), t[i].name = "complete"
               PROVE  i = Len(t)
    BY DEF Whole
  <2>1. i + 1 \in 1 .. Len(s) /\ s[i + 1].name = "complete"
    BY <1>1
  <2>2. i + 1 = Len(s)
    BY <2>1 DEF Whole
  <2> QED
    BY <1>1, <2>2
<1>4. ASSUME h.name = "complete" PROVE Elements(t) = {}
  <2>1. 1 \in 1 .. Len(s) /\ s[1].name = "complete"
    BY <1>1, <1>4
  <2>2. 1 = Len(s)
    BY <2>1 DEF Whole
  <2>3. Len(t) = 0
    <3>1. Len(s) \in Nat /\ Len(t) = Len(s) - 1
      BY <1>1
    <3> QED
      BY <2>2, <3>1
  <2>4. Elements(t) = {t[i] : i \in 1 .. Len(t)}
    BY <1>1, ElementsAre
  <2> QED
    BY <2>3, <2>4
<1>5. Coming(t) => Coming(s)
  BY <1>2 DEF Coming
<1>6. h.name = "complete" => Items(s) = {Item(h)} /\ ~Coming(t)
  BY <1>2, <1>4 DEF Coming, Items
<1> QED
  BY <1>3, <1>5, <1>6 DEF t, h

\* The kinds of some lines; a watchdog reset precedes the end.
Kinds(lines) == {l.kind : l \in Elements(lines)}
Heralded(lines) ==
    \A i \in 1 .. Len(lines) : lines[i].kind = "complete" => \E j \in 1 .. i - 1 : lines[j].kind = "watchdog"

Warned == "watchdog" \in console \cup Kinds(pipe["stdout"])

\* Lines end to end.
LEMMA KindsConcat ==
    ASSUME NEW s, NEW t, List(s), List(t)
    PROVE  Kinds(s \o t) = Kinds(s) \cup Kinds(t)
<1>1. Elements(s \o t) = Elements(s) \cup Elements(t)
  BY ElementsConcat
<1> QED
  BY <1>1 DEF Kinds

LEMMA KindAt ==
    ASSUME NEW s, List(s), NEW kind \in Kinds(s)
    PROVE  \E i \in 1 .. Len(s) : s[i].kind = kind
BY ElementsAre DEF Kinds

LEMMA HeraldQuiet ==
    ASSUME NEW s, List(s), "complete" \notin Kinds(s)
    PROVE  Heralded(s)
BY ListFacts DEF Heralded, Kinds

LEMMA HeraldConcat ==
    ASSUME NEW s, NEW t, List(s), List(t), Heralded(s), Heralded(t) \/ "watchdog" \in Kinds(s)
    PROVE  Heralded(s \o t)
<1> DEFINE r == s \o t
<1>1. /\ Len(r) = Len(s) + Len(t) /\ Len(s) \in Nat /\ Len(t) \in Nat
      /\ \A i \in 1 .. Len(s) : r[i] = s[i]
      /\ \A i \in 1 .. Len(t) : r[Len(s) + i] = t[i]
  BY ListConcat, ListFacts
<1> HIDE DEF r
<1> SUFFICES ASSUME NEW i \in 1 .. Len(r), r[i].kind = "complete"
             PROVE  \E j \in 1 .. i - 1 : r[j].kind = "watchdog"
  BY DEF Heralded, r
<1>2. CASE i \in 1 .. Len(s)
  <2>1. PICK j \in 1 .. i - 1 : s[j].kind = "watchdog"
    BY <1>1, <1>2 DEF Heralded
  <2>2. j \in 1 .. Len(s)
    BY <1>1, <1>2
  <2> QED
    BY <1>1, <2>1, <2>2
<1>3. CASE i \notin 1 .. Len(s)
  <2> DEFINE b == i - Len(s)
  <2>1. b \in 1 .. Len(t) /\ i = Len(s) + b
    BY <1>1, <1>3
  <2> HIDE DEF b
  <2>2. t[b].kind = "complete"
    BY <1>1, <2>1
  <2>3. CASE "watchdog" \in Kinds(s)
    <3>1. PICK j \in 1 .. Len(s) : s[j].kind = "watchdog"
      BY <2>3, KindAt
    <3>2. j \in 1 .. i - 1 /\ r[j] = s[j]
      BY <1>1, <2>1, <3>1
    <3> QED
      BY <3>1, <3>2
  <2>4. CASE Heralded(t)
    <3>1. PICK j \in 1 .. b - 1 : t[j].kind = "watchdog"
      BY <2>1, <2>2, <2>4 DEF Heralded
    <3>2. Len(s) + j \in 1 .. i - 1 /\ j \in 1 .. Len(t)
      BY <1>1, <2>1, <3>1
    <3>3. r[Len(s) + j].kind = "watchdog"
      BY <1>1, <3>1, <3>2
    <3> QED
      BY <3>2, <3>3
  <2> QED
    BY <2>3, <2>4
<1> QED
  BY <1>2, <1>3

\* A reader takes the first line.
LEMMA HeraldTail ==
    ASSUME NEW s, List(s), s # <<>>
    PROVE  /\ List(Tail(s)) /\ Kinds(s) = {Head(s).kind} \cup Kinds(Tail(s))
           /\ Heralded(s) => /\ Head(s).kind # "complete"
                             /\ Head(s).kind = "watchdog" \/ Heralded(Tail(s))
<1> DEFINE t == Tail(s)
           h == Head(s)
<1>1. /\ Len(s) \in Nat \ {0} /\ h = s[1]
      /\ List(t) /\ Len(t) = Len(s) - 1
      /\ \A i \in 1 .. Len(s) - 1 : t[i] = s[i + 1]
  BY HeadTail
<1>2. Elements(s) = {h} \cup Elements(t)
  BY HeadTailSets
<1> HIDE DEF t, h
<1>3. Kinds(s) = {h.kind} \cup Kinds(t)
  BY <1>2 DEF Kinds
<1>4. ASSUME Heralded(s) PROVE h.kind # "complete"
  <2>1. 1 \in 1 .. Len(s) /\ ~\E j \in 1 .. 1 - 1 : TRUE
    BY <1>1
  <2> QED
    BY <1>1, <1>4, <2>1 DEF Heralded
<1>5. ASSUME Heralded(s), h.kind # "watchdog" PROVE Heralded(t)
  <2> SUFFICES ASSUME NEW i \in 1 .. Len(t), t[i].kind = "complete"
               PROVE  \E j \in 1 .. i - 1 : t[j].kind = "watchdog"
    BY DEF Heralded
  <2>1. i + 1 \in 1 .. Len(s) /\ s[i + 1].kind = "complete"
    BY <1>1
  <2>2. PICK j \in 1 .. (i + 1) - 1 : s[j].kind = "watchdog"
    BY <1>5, <2>1 DEF Heralded
  <2>3. j # 1
    BY <1>1, <1>5, <2>2
  <2>4. j - 1 \in 1 .. i - 1 /\ j - 1 \in 1 .. Len(s) - 1 /\ (j - 1) + 1 = j
    BY <1>1, <2>2, <2>3
  <2>5. t[j - 1].kind = "watchdog"
    BY <1>1, <2>2, <2>4
  <2> QED
    BY <2>4, <2>5
<1> QED
  BY <1>1, <1>3, <1>4, <1>5 DEF t, h

\* What a write does to the pipes.
LEMMA WriteIs ==
    ASSUME ListsInv, NEW p \in Pipes, NEW lines, Write(p, lines)
    PROVE  \A q \in Pipes : pipe'[q] = IF q = p /\ p \in reading THEN pipe[p] \o lines ELSE pipe[q]
<1>1. pipe = [q \in Pipes |-> pipe[q]]
  BY DEF ListsInv
<1> DEFINE new == pipe[p] \o lines
<1>2. pipe' = IF p \in reading THEN [pipe EXCEPT ![p] = new] ELSE pipe
  BY DEF Write
<1> HIDE DEF new
<1>3. \A q \in Pipes : pipe'[q] = IF q = p /\ p \in reading THEN new ELSE pipe[q]
  BY <1>1, <1>2
<1> QED
  BY <1>3 DEF new

-----------------------------------------------------------------------------
(* The invariant of a run that may pass. *)

\* What the end of the script promises is done, or in the script before its end.
EndInv ==
    /\ Whole(script)
    /\ Coming(script) =>
          /\ Required(topology.sample_count) \subseteq Have(applied, probe_file) \cup Items(script)
          /\ guest.watchdog /\ "stdout" \in reading => <<"run", 1>> \in Items(script) \/ Warned

\* Who reads that the script has ended may rely on it, and has read of a watchdog.
LineInv ==
    /\ \A p \in Pipes : "complete" \in Kinds(pipe[p]) =>
          p = "stdout" /\ Required(topology.sample_count) \subseteq Have(applied, probe_file)
    /\ "complete" \in console => Required(topology.sample_count) \subseteq Have(applied, probe_file)
    /\ guest.watchdog =>
          /\ "complete" \in console => "watchdog" \in console
          /\ "watchdog" \in console \/ Heralded(pipe["stdout"])

\* Nothing else is applied.
PlannedInv ==
    /\ \A c \in Elements(script) : c.name = "apply" => c.arg \in ToApply(topology.sample_count)
    /\ Elements(applied) \subseteq ToApply(topology.sample_count)

PassInv ==
    /\ runner \notin {"validate", "failed"} => topology.nodes # <<>>
    /\ runner = "join" => \A h \in HostNames : hosts[h].state \in Dead \cup {"killed"}
    /\ booted # {} => guest.boots
    /\ PassComplete

\* A host that died is still seen dead, or a planned power cycle was made.
DeathInv == mishap = "host" => completed # {} \/ \E h \in HostNames : hosts[h].state = "exited"

CompleteInv == SampleInv /\ HostInv /\ EndInv /\ LineInv /\ PlannedInv /\ PassInv /\ DeathInv

\* What is planned stays while the topology does.
LEMMA SamePlan ==
    ASSUME topology' = topology
    PROVE  /\ ToApply(topology.sample_count)' = ToApply(topology.sample_count)
           /\ Required(topology.sample_count)' = Required(topology.sample_count)
           /\ HostNames' = HostNames /\ NodeNames' = NodeNames
<1>1. ToApply(topology.sample_count)' = ToApply(topology.sample_count) /\ HostNames' = HostNames /\ NodeNames' = NodeNames
  BY DEF ToApply, HostNames, NodeNames
<1>2. Required(topology.sample_count)' = Required(topology.sample_count)
  BY SameTopology
<1> QED
  BY <1>1, <1>2

\* A thread writes lines that keep what lines promise.
LEMMA LineWrite ==
    ASSUME ListsInv, LineInv, NEW p \in Pipes, NEW lines, List(lines), Write(p, lines),
           UNCHANGED <<topology, guest, console>>,
           Have(applied, probe_file) \subseteq Have(applied', probe_file'),
           "complete" \in Kinds(lines) =>
               /\ p = "stdout" /\ Required(topology.sample_count) \subseteq Have(applied', probe_file')
               /\ guest.watchdog /\ "stdout" \in reading => Warned
    PROVE  /\ LineInv' /\ (Warned => Warned')
           /\ p = "stdout" /\ "stdout" \in reading => Kinds(lines) \subseteq Kinds(pipe'["stdout"])
<1> DEFINE need == Required(topology.sample_count)
           have == Have(applied, probe_file)
           next == Have(applied', probe_file')
           out == pipe["stdout"]
<1>1. \A q \in Pipes : List(pipe[q])
  BY DEF ListsInv
<1>2. \A q \in Pipes : pipe'[q] = IF q = p /\ p \in reading THEN pipe[p] \o lines ELSE pipe[q]
  BY WriteIs
<1>3. \A q \in Pipes : Kinds(pipe'[q]) = IF q = p /\ p \in reading
                                           THEN Kinds(pipe[p]) \cup Kinds(lines) ELSE Kinds(pipe[q])
  BY <1>1, <1>2, KindsConcat
<1>4. "stdout" \in Pipes
  BY DEF Pipes
<1>5. /\ \A q \in Pipes : "complete" \in Kinds(pipe[q]) => q = "stdout" /\ need \subseteq have
      /\ "complete" \in console => need \subseteq have
      /\ guest.watchdog => /\ "complete" \in console => "watchdog" \in console
                           /\ "watchdog" \in console \/ Heralded(out)
  BY DEF LineInv
<1>6. Required(topology.sample_count)' = need /\ have \subseteq next
  BY SamePlan
<1>7. "complete" \in Kinds(lines) => p = "stdout" /\ need \subseteq next
  OBVIOUS
<1>8. Warned => Warned'
  BY <1>3, <1>4 DEF Warned
<1>9. ASSUME guest.watchdog, "watchdog" \notin console PROVE Heralded(pipe'["stdout"])
  <2>1. Heralded(out) /\ List(out)
    BY <1>1, <1>4, <1>5, <1>9
  <2>2. CASE p = "stdout" /\ "stdout" \in reading
    <3>1. pipe'["stdout"] = out \o lines
      BY <1>2, <1>4, <2>2
    <3>2. CASE "complete" \in Kinds(lines)
      <4>1. "watchdog" \in Kinds(out)
        BY <1>9, <2>2, <3>2 DEF Warned
      <4> QED
        BY <2>1, <3>1, <4>1, HeraldConcat
    <3>3. CASE "complete" \notin Kinds(lines)
      <4>1. Heralded(lines)
        BY <3>3, HeraldQuiet
      <4> QED
        BY <2>1, <3>1, <4>1, HeraldConcat
    <3> QED
      BY <3>2, <3>3
  <2>3. CASE ~(p = "stdout" /\ "stdout" \in reading)
    <3>1. pipe'["stdout"] = out
      BY <1>2, <1>4, <2>3
    <3> QED
      BY <2>1, <3>1
  <2> QED
    BY <2>2, <2>3
<1> HIDE DEF need, have, next, out
<1>10. \A q \in Pipes : "complete" \in Kinds(pipe'[q]) => q = "stdout" /\ need \subseteq next
  BY <1>3, <1>5, <1>6, <1>7
<1>11. LineInv'
  BY <1>5, <1>6, <1>9, <1>10 DEF LineInv, next
<1> QED
  BY <1>3, <1>4, <1>8, <1>11

\* Steps that leave the script, its records and the lines alone.
LEMMA EndIdle ==
    ASSUME EndInv, LineInv, PlannedInv,
           UNCHANGED <<topology, guest, script, applied, probe_file, pipe, console>>,
           reading' \subseteq reading
    PROVE  EndInv' /\ LineInv' /\ PlannedInv'
<1>1. PlannedInv'
  BY SamePlan DEF PlannedInv
<1>2. LineInv'
  BY SamePlan DEF LineInv
<1>3. EndInv'
  BY SamePlan DEF EndInv, Warned
<1> QED
  BY <1>1, <1>2, <1>3

\* Only applied events and captured probes are promised.
LEMMA RequiredNames ==
    ASSUME NEW name, NEW y, name \notin {"apply", "probe"}
    PROVE  \A k : <<name, y>> \notin Required(k)
BY DEF Required

\* The simulator carries out one command.
LEMMA CommandEnds ==
    ASSUME SampleInv, EndInv, LineInv, PlannedInv, CommandRuns
    PROVE  EndInv' /\ LineInv' /\ PlannedInv'
<1> DEFINE c == Head(script)
           rest == Tail(script)
           lines == Printed(Head(script))
           need == Required(topology.sample_count)
           have == Have(applied, probe_file)
           next == Have(applied', probe_file')
<1>1. ListsInv /\ ScriptInv
  BY DEF SampleInv
<1>2. /\ script # <<>> /\ script' = rest /\ Write("stdout", lines)
      /\ UNCHANGED <<topology, guest, console, reading>>
  BY DEF CommandRuns, Busy, Others, readerVars
<1>3. next = IF c.name \in {"apply", "probe"} THEN have \cup {Item(c)} ELSE have
  BY <1>1, CommandRecords
<1>4. List(script) /\ List(rest) /\ c \in Elements(script)
  BY <1>1, <1>2, HeadTail DEF ListsInv
<1>5. /\ Elements(script) = {c} \cup Elements(rest)
      /\ Items(script) = {Item(c)} \cup Items(rest)
  BY <1>2, <1>4, HeadTailSets
<1>6. /\ Whole(rest) /\ (Coming(rest) => Coming(script))
      /\ c.name = "complete" => Items(script) = {Item(c)} /\ ~Coming(rest)
  BY <1>2, <1>4, WholeTail DEF EndInv
<1>7. /\ Coming(script) => need \subseteq have \cup Items(script)
      /\ Coming(script) /\ guest.watchdog /\ "stdout" \in reading => <<"run", 1>> \in Items(script) \/ Warned
  BY DEF EndInv
<1>8. lines = CASE c.name = "done" -> <<Line("sample_done", c.arg)>>
                [] c.name = "complete" -> <<Line("complete", 0)>>
                [] c.name = "run" /\ c.arg = 1 /\ guest.watchdog -> <<Line("watchdog", 0)>>
                [] OTHER -> <<>>
  BY DEF Printed
<1>9. applied' = IF c.name = "apply" THEN Append(applied, c.arg) ELSE applied
  BY DEF CommandRuns
<1>10. Item(c) = <<c.name, IF c.name = "probe" THEN Key(c.arg) ELSE c.arg>>
  BY DEF Item
<1>11. need' = need
  BY <1>2, SamePlan
<1> HIDE DEF c, rest, lines, have
<1>12. have \subseteq next
  BY <1>3
<1>13. need \subseteq have \cup Items(script) => need \subseteq next \cup Items(rest)
  <2>1. CASE c.name \in {"apply", "probe"}
    BY <1>3, <1>5, <2>1
  <2>2. CASE c.name \notin {"apply", "probe"}
    <3>1. Item(c) \notin need
      BY <1>10, <2>2, RequiredNames
    <3> QED
      BY <1>3, <1>5, <2>2, <3>1
  <2> QED
    BY <2>1, <2>2
<1>14. List(lines) /\ (c.name # "complete" => "complete" \notin Kinds(lines))
  <2>1. \A l : List(<<l>>) /\ Kinds(<<l>>) = {l.kind}
    <3> TAKE l
    <3>1. List(<<l>>) /\ Elements(<<l>>) = {l}
      BY SingleElements
    <3> QED
      BY <3>1 DEF Kinds
  <2>2. List(<<>>) /\ Kinds(<<>>) = {}
    BY EmptyIs DEF Kinds
  <2>3. CASE c.name = "done"
    <3>1. lines = <<Line("sample_done", c.arg)>> /\ Line("sample_done", c.arg).kind = "sample_done"
      BY <1>8, <2>3 DEF Line
    <3> QED
      BY <2>1, <3>1
  <2>4. CASE c.name = "complete"
    <3>1. lines = <<Line("complete", 0)>>
      BY <1>8, <2>4
    <3> QED
      BY <2>1, <2>4, <3>1
  <2>5. CASE c.name \notin {"done", "complete"}
    <3>1. lines = <<Line("watchdog", 0)>> \/ lines = <<>>
      BY <1>8, <2>5
    <3>2. Line("watchdog", 0).kind = "watchdog"
      BY DEF Line
    <3> QED
      BY <2>1, <2>2, <3>1, <3>2
  <2> QED
    BY <2>3, <2>4, <2>5
<1>15. ASSUME c.name = "complete"
       PROVE  /\ need \subseteq next
              /\ guest.watchdog /\ "stdout" \in reading => Warned
  <2>1. Coming(script) /\ Items(script) = {Item(c)} /\ Item(c) = <<"complete", c.arg>>
    BY <1>4, <1>6, <1>10, <1>15 DEF Coming
  <2>2. Item(c) \notin need
    BY <2>1, RequiredNames
  <2>3. <<"run", 1>> \notin Items(script)
    BY <2>1
  <2> QED
    BY <1>7, <1>12, <2>1, <2>2, <2>3
<1>16. /\ LineInv' /\ (Warned => Warned')
       /\ "stdout" \in reading => Kinds(lines) \subseteq Kinds(pipe'["stdout"])
  <2>1. "stdout" \in Pipes
    BY DEF Pipes
  <2>2. "complete" \in Kinds(lines) =>
          need \subseteq next /\ (guest.watchdog /\ "stdout" \in reading => Warned)
    BY <1>14, <1>15
  <2> QED
    BY <1>1, <1>2, <1>12, <1>14, <2>1, <2>2, LineWrite DEF have
<1>17. ASSUME Coming(rest), guest.watchdog, "stdout" \in reading
       PROVE  <<"run", 1>> \in Items(rest) \/ Warned'
  <2>1. <<"run", 1>> \in Items(script) \/ Warned
    BY <1>6, <1>7, <1>17
  <2>2. CASE Warned
    BY <1>16, <2>2
  <2>3. CASE <<"run", 1>> = Item(c)
    <3>1. c.name = "run" /\ c.arg = 1
      BY <1>10, <2>3
    <3>2. lines = <<Line("watchdog", 0)>> /\ Line("watchdog", 0).kind = "watchdog"
      BY <1>8, <1>17, <3>1 DEF Line
    <3>3. "watchdog" \in Kinds(lines)
      BY <3>2, SingleElements DEF Kinds
    <3>4. "watchdog" \in Kinds(pipe'["stdout"])
      BY <1>16, <1>17, <3>3
    <3> QED
      BY <3>4 DEF Warned
  <2> QED
    BY <1>5, <2>1, <2>2, <2>3
<1>18. EndInv'
  BY <1>2, <1>6, <1>7, <1>11, <1>13, <1>17 DEF EndInv
<1>19. PlannedInv'
  <2>1. \A d \in Elements(rest) : d.name = "apply" => d.arg \in ToApply(topology.sample_count)
    BY <1>5 DEF PlannedInv
  <2>2. Elements(applied') \subseteq ToApply(topology.sample_count)
    <3>1. CASE c.name = "apply"
      <4>1. List(applied)
        BY <1>1 DEF ListsInv
      <4>2. Elements(applied') = Elements(applied) \cup {c.arg}
        BY <1>9, <3>1, <4>1, AppendIs
      <4> QED
        BY <1>4, <3>1, <4>2 DEF PlannedInv
    <3>2. CASE c.name # "apply"
      BY <1>9, <3>2 DEF PlannedInv
    <3> QED
      BY <3>1, <3>2
  <2> QED
    BY <1>2, <2>1, <2>2, SamePlan DEF PlannedInv
<1> QED
  BY <1>16, <1>18, <1>19

\* The script is abandoned, or goes on after a line that says what went wrong.
LEMMA FaultEnds ==
    ASSUME SampleInv, EndInv, LineInv, PlannedInv, SimulatorFault
    PROVE  EndInv' /\ LineInv' /\ PlannedInv'
<1>1. /\ script' = script \/ script' = <<>>
      /\ UNCHANGED <<topology, guest, applied, probe_file, console, reading>>
  BY DEF SimulatorFault, RuntimeCrashes, CommandFails, FaultLogged, Others, WorldUntouched, readerVars
<1>2. \/ UNCHANGED pipe
      \/ \E p \in Pipes, kind \in {"failed", "fault"} : Write(p, <<Line(kind, 0)>>)
  BY DEF SimulatorFault, RuntimeCrashes, CommandFails, FaultLogged
<1>3. ListsInv
  BY DEF SampleInv
<1>4. LineInv' /\ (Warned => Warned')
  <2>1. CASE UNCHANGED pipe
    BY <1>1, <2>1, SamePlan DEF LineInv, Warned
  <2>2. CASE \E p \in Pipes, kind \in {"failed", "fault"} : Write(p, <<Line(kind, 0)>>)
    <3>1. PICK p \in Pipes, kind \in {"failed", "fault"} : Write(p, <<Line(kind, 0)>>)
      BY <2>2
    <3> DEFINE lines == <<Line(kind, 0)>>
    <3>2. List(lines) /\ Kinds(lines) = {kind}
      BY SingleElements DEF Kinds, Line
    <3>3. Write(p, lines)
      BY <3>1
    <3> HIDE DEF lines
    <3>4. "complete" \notin Kinds(lines)
      BY <3>2
    <3>5. Have(applied, probe_file) \subseteq Have(applied', probe_file')
      BY <1>1
    <3> QED
      BY <1>1, <1>3, <3>2, <3>3, <3>4, <3>5, LineWrite
  <2> QED
    BY <1>2, <2>1, <2>2
<1>5. EndInv'
  <2>1. CASE script' = script
    BY <1>1, <1>4, <2>1, SamePlan DEF EndInv
  <2>2. CASE script' = <<>>
    <3>1. Whole(<<>>) /\ ~Coming(<<>>)
      BY EmptyIs DEF Whole, Coming
    <3> QED
      BY <2>2, <3>1 DEF EndInv
  <2> QED
    BY <1>1, <2>1, <2>2
<1>6. PlannedInv'
  BY <1>1, EmptyIs, SamePlan DEF PlannedInv
<1> QED
  BY <1>4, <1>5, <1>6

\* A reader takes a line, which is on the console from then on; or it ends.
LEMMA ReaderEndsToo ==
    ASSUME SampleInv, EndInv, LineInv, PlannedInv, NEW p \in Pipes, Reader(p) \/ ReaderFails(p)
    PROVE  EndInv' /\ LineInv' /\ PlannedInv'
<1> DEFINE need == Required(topology.sample_count)
           have == Have(applied, probe_file)
           out == pipe["stdout"]
<1>1. UNCHANGED <<topology, guest, script, applied, probe_file>>
  BY DEF Reader, ReadLine, ReaderEnds, PublishSample, ReaderFails, ReaderOthers, simVars
<1>2. pipe = [q \in Pipes |-> pipe[q]] /\ \A q \in Pipes : List(pipe[q])
  BY DEF SampleInv, ListsInv
<1>3. "stdout" \in Pipes
  BY DEF Pipes
<1>4. PlannedInv'
  BY <1>1, SamePlan DEF PlannedInv
<1>5. /\ \A q \in Pipes : "complete" \in Kinds(pipe[q]) => q = "stdout" /\ need \subseteq have
      /\ "complete" \in console => need \subseteq have
      /\ guest.watchdog => /\ "complete" \in console => "watchdog" \in console
                           /\ "watchdog" \in console \/ Heralded(out)
  BY DEF LineInv
<1>6. need' = need /\ have' = have
  BY <1>1, SamePlan
<1>7. CASE ReadLine(p)
  <2> DEFINE s == pipe[p]
             h == Head(pipe[p])
  <2>1. /\ s # <<>> /\ pipe' = [pipe EXCEPT ![p] = Tail(s)]
        /\ console' = console \cup {h.kind} /\ UNCHANGED reading
    BY <1>7 DEF ReadLine
  <2>2. /\ List(s) /\ Kinds(s) = {h.kind} \cup Kinds(Tail(s))
        /\ Heralded(s) => /\ h.kind # "complete"
                          /\ h.kind = "watchdog" \/ Heralded(Tail(s))
    BY <1>2, <2>1, HeraldTail
  <2> DEFINE t == Tail(s)
  <2>3. \A q \in Pipes : pipe'[q] = IF q = p THEN t ELSE pipe[q]
    BY <1>2, <2>1
  <2>4. p = "stdout" => s = out
    OBVIOUS
  <2> HIDE DEF s, h, t, need, have, out
  <2>5. /\ Kinds(s) = {h.kind} \cup Kinds(t)
        /\ Heralded(s) => h.kind # "complete" /\ (h.kind = "watchdog" \/ Heralded(t))
    BY <2>2 DEF t
  <2>6. \A q \in Pipes : Kinds(pipe'[q]) = IF q = p THEN Kinds(t) ELSE Kinds(pipe[q])
    BY <2>3
  <2>7. h.kind = "complete" => p = "stdout" /\ need \subseteq have
    BY <1>5, <2>5 DEF s
  <2>8. \A q \in Pipes : "complete" \in Kinds(pipe'[q]) => q = "stdout" /\ need \subseteq have
    <3> TAKE q \in Pipes
    <3>1. CASE q = p
      BY <1>5, <2>5, <2>6, <3>1 DEF s
    <3>2. CASE q # p
      BY <1>5, <2>6, <3>2
    <3> QED
      BY <3>1, <3>2
  <2>9. "complete" \in console' => need \subseteq have
    BY <1>5, <2>1, <2>7
  <2>10. ASSUME guest.watchdog, "complete" \in console' PROVE "watchdog" \in console'
    <3>1. CASE "complete" \in console
      BY <1>5, <2>1, <2>10, <3>1
    <3>2. CASE h.kind = "complete"
      BY <1>5, <2>1, <2>4, <2>5, <2>7, <2>10, <3>2
    <3> QED
      BY <2>1, <2>10, <3>1, <3>2
  <2>11. ASSUME guest.watchdog PROVE "watchdog" \in console' \/ Heralded(pipe'["stdout"])
    <3>1. CASE p = "stdout"
      <4>1. pipe'["stdout"] = t
        BY <1>3, <2>3, <3>1
      <4> QED
        BY <1>5, <2>1, <2>4, <2>5, <2>11, <3>1, <4>1
    <3>2. CASE p # "stdout"
      <4>1. pipe'["stdout"] = out
        BY <1>3, <2>3, <3>2 DEF out
      <4> QED
        BY <1>5, <2>1, <2>11, <4>1
    <3> QED
      BY <3>1, <3>2
  <2>12. LineInv'
    BY <1>1, <1>6, <2>8, <2>9, <2>10, <2>11 DEF LineInv, need, have
  <2>13. Warned => Warned'
    <3>1. Kinds(pipe["stdout"]) \subseteq {h.kind} \cup Kinds(pipe'["stdout"])
      BY <1>3, <2>5, <2>6 DEF s
    <3> QED
      BY <2>1, <3>1 DEF Warned
  <2>14. EndInv'
    BY <1>1, <1>6, <2>1, <2>13 DEF EndInv, need, have
  <2> QED
    BY <1>4, <2>12, <2>14
<1>8. CASE ReaderEnds(p) \/ PublishSample
  <2>1. UNCHANGED <<pipe, console>> /\ reading' \subseteq reading
    BY <1>8 DEF ReaderEnds, PublishSample
  <2> QED
    BY <1>1, <2>1, EndIdle
<1>9. CASE ReaderFails(p)
  <2>1. /\ pipe' = [pipe EXCEPT ![p] = <<>>] /\ UNCHANGED console /\ reading' = reading \ {p}
    BY <1>9 DEF ReaderFails
  <2> HIDE DEF need, have, out
  <2>2. \A q \in Pipes : pipe'[q] = IF q = p THEN <<>> ELSE pipe[q]
    BY <1>2, <2>1
  <2>3. Kinds(<<>>) = {} /\ Heralded(<<>>)
    BY EmptyIs DEF Kinds, Heralded
  <2>4. \A q \in Pipes : "complete" \in Kinds(pipe'[q]) => q = "stdout" /\ need \subseteq have
    <3> TAKE q \in Pipes
    <3>1. CASE q = p
      BY <2>2, <2>3, <3>1
    <3>2. CASE q # p
      BY <1>5, <2>2, <3>2
    <3> QED
      BY <3>1, <3>2
  <2>5. Heralded(out) => Heralded(pipe'["stdout"])
    BY <1>3, <2>2, <2>3 DEF out
  <2>6. LineInv'
    BY <1>1, <1>5, <1>6, <2>1, <2>4, <2>5 DEF LineInv, need, have
  <2>7. "stdout" \in reading' => "stdout" \in reading /\ (Warned => Warned')
    <3>1. p # "stdout" => pipe'["stdout"] = pipe["stdout"]
      BY <1>3, <2>2
    <3> QED
      BY <2>1, <3>1 DEF Warned
  <2>8. EndInv'
    BY <1>1, <1>6, <2>1, <2>7 DEF EndInv, need, have
  <2> QED
    BY <1>4, <2>6, <2>8
<1> QED
  BY <1>7, <1>8, <1>9 DEF Reader

\* The runner writes the script of a topology it accepted.
LEMMA ValidateEnds ==
    ASSUME SampleInv, EndInv, LineInv, PlannedInv, Validate
    PROVE  EndInv' /\ LineInv' /\ PlannedInv'
<1>1. /\ UNCHANGED <<topology, guest, applied, probe_file, pipe, console>>
      /\ (UNCHANGED <<script, reading>>) \/ (TopologyValid /\ script' = Render)
  BY DEF Validate
<1>2. CASE UNCHANGED <<script, reading>>
  BY <1>1, <1>2, EndIdle
<1>3. CASE TopologyValid /\ script' = Render
  <2>1. Listed(topology)
    BY DEF SampleInv, ListsInv
  <2> DEFINE new == Render
             need == Required(topology.sample_count)
  <2>2. /\ Whole(new) /\ need \subseteq Items(new) /\ <<"run", 1>> \in Items(new)
        /\ \A c \in Elements(new) : c.name = "apply" => c.arg \in ToApply(topology.sample_count)
    BY <1>3, <2>1, RenderEnds
  <2>3. script' = new
    BY <1>3
  <2> HIDE DEF new
  <2>4. need' = need
    BY <1>1, SamePlan
  <2> HIDE DEF need
  <2>5. EndInv'
    BY <2>2, <2>3, <2>4 DEF EndInv, need
  <2>6. LineInv'
    BY <1>1, SamePlan DEF LineInv
  <2>7. PlannedInv'
    BY <1>1, <2>2, <2>3, SamePlan DEF PlannedInv
  <2> QED
    BY <2>5, <2>6, <2>7
<1> QED
  BY <1>1, <1>2, <1>3

\* The script, the lines and the plan through every step.
LEMMA EndStep ==
    ASSUME SampleInv, EndInv, LineInv, PlannedInv, [Next]_vars
    PROVE  EndInv' /\ LineInv' /\ PlannedInv'
<1>1. CASE CommandRuns
  BY <1>1, CommandEnds
<1>2. CASE SimulatorFault
  BY <1>2, FaultEnds
<1>3. CASE \E p \in Pipes : Reader(p) \/ ReaderFails(p)
  BY <1>3, ReaderEndsToo
<1>4. CASE Validate
  BY <1>4, ValidateEnds
<1>5. CASE WaitLooks \/ WaitPolls \/ WaitLast \/ WaitExpires \/ GiveUp \/ GiveUpJoins
  BY <1>5, EndIdle DEF WaitLooks, WaitPolls, WaitLast, WaitExpires, GiveUp, GiveUpJoins, WaitOthers,
                       RunnerOthers, readerVars
<1>6. CASE StartHosts \/ StartFails \/ ReceiveFailure \/ KillAfterFailure \/ PollSimulator \/ CheckHosts
  BY <1>6, EndIdle DEF StartHosts, StartFails, ReceiveFailure, KillAfterFailure, PollSimulator, CheckHosts,
                       Quietly, WaitOthers, RunnerOthers, readerVars
<1>7. CASE ReadSample \/ RebootHost \/ RebootFails \/ RoundEnds \/ Shutdown \/ Judge
  BY <1>7, EndIdle DEF ReadSample, RebootHost, RebootFails, RoundEnds, Shutdown, Judge, Quietly, RunnerOthers,
                       readerVars, simVars
<1>8. CASE ScriptQuits \/ ChildEnds
  BY <1>8, EndIdle DEF ScriptQuits, ChildEnds, WorldUntouched, Others, readerVars
<1>9. CASE BridgeFails \/ BridgeCut \/ BridgeStops
  BY <1>9, EndIdle DEF BridgeFails, BridgeCut, BridgeStops, BridgeEnds, BridgeOthers, simVars, readerVars
<1>10. CASE \E h \in HostNames : HostOpens(h) \/ HostExits(h)
  BY <1>10, EndIdle DEF HostOpens, HostExits, HostOthers, simVars, readerVars
<1>11. CASE UNCHANGED vars
  BY <1>11, EndIdle DEF vars, simVars, readerVars
<1> QED
  BY <1>1, <1>2, <1>3, <1>4, <1>5, <1>6, <1>7, <1>8, <1>9, <1>10, <1>11
  DEF Next, Runner, SimulatorStep, Mishap

\* Steps of the other threads while the run is not over.
LEMMA PassWorld ==
    ASSUME PassInv, ~Over, UNCHANGED <<topology, guest, runner, hosts>>, booted' = booted \/ guest.boots
    PROVE  PassInv'
<1>1. runner' # "passed"
  BY DEF Over
<1>2. PassComplete'
  BY <1>1 DEF PassComplete
<1>3. HostNames' = HostNames
  BY SamePlan
<1> QED
  BY <1>2, <1>3 DEF PassInv

\* Nor do hosts, all of which are gone when the runner judges.
LEMMA PassHost ==
    ASSUME PassInv, ~Over, NEW h \in HostNames, HostOpens(h) \/ HostExits(h)
    PROVE  PassInv'
<1>1. UNCHANGED <<topology, guest, runner, booted>> /\ hosts[h].state \in {"starting", "open"}
  BY DEF HostOpens, HostExits, HostOthers, simVars
<1>2. runner # "join" /\ runner # "passed"
  BY <1>1 DEF PassInv, Dead, Over
<1>3. PassComplete'
  BY <1>1, <1>2 DEF PassComplete
<1> QED
  BY <1>1, <1>2, <1>3 DEF PassInv

\* Steps of the runner before it shuts down.
LEMMA PassRunner ==
    ASSUME PassInv, UNCHANGED <<topology, guest, booted>>,
           runner' \notin {"validate", "failed"} => runner \notin {"validate", "failed"} \/ TopologyValid,
           runner' \notin {"join", "passed"}
    PROVE  PassInv'
<1>1. PassComplete'
  BY DEF PassComplete
<1>2. TopologyValid => topology.nodes # <<>>
  BY DEF TopologyValid
<1> QED
  BY <1>1, <1>2 DEF PassInv

\* The hosts that still live are killed.
LEMMA PassShutdown ==
    ASSUME PassInv, HostInv, Shutdown
    PROVE  PassInv'
<1>1. /\ UNCHANGED <<topology, guest, booted>> /\ runner = "shutdown" /\ runner' = "join"
      /\ hosts' = [h \in DOMAIN hosts |->
                      IF hosts[h].state \in Dead THEN hosts[h] ELSE [hosts[h] EXCEPT !.state = "killed"]]
  BY DEF Shutdown, simVars
<1>2. hosts \in [HostNames -> [state : HostStates, starts : Nat, log : Nat]] /\ HostNames' = HostNames
  BY <1>1, SamePlan DEF HostInv, HostsTyped
<1>3. \A h \in HostNames : hosts'[h].state \in Dead \cup {"killed"}
  <2> TAKE h \in HostNames
  <2>1. CASE hosts[h].state \in Dead
    BY <1>1, <1>2, <2>1
  <2>2. CASE hosts[h].state \notin Dead
    <3>1. hosts[h] \in [state : HostStates, starts : Nat, log : Nat]
      BY <1>2
    <3>2. hosts'[h] = [hosts[h] EXCEPT !.state = "killed"]
      BY <1>1, <1>2, <2>2
    <3> QED
      BY <3>1, <3>2
  <2> QED
    BY <2>1, <2>2
<1>4. PassComplete'
  BY <1>1 DEF PassComplete
<1> QED
  BY <1>1, <1>2, <1>3, <1>4 DEF PassInv

\* What was captured stays captured while the records stay.
LEMMA SameCaptured ==
    ASSUME topology' = topology, probe_file' = probe_file
    PROVE  CapturedUpTo(topology.sample_count)' <=> CapturedUpTo(topology.sample_count)
<1>1. \A name : NodeNamed(name)' = NodeNamed(name)
  BY DEF NodeNamed
<1>2. \A name : ProbeNames(name)' = ProbeNames(name)
  BY <1>1 DEF ProbeNames
<1>3. \A n, probe, s : Recorded(n, probe, s)' <=> Recorded(n, probe, s)
  BY DEF Recorded
<1> QED
  BY <1>2, <1>3 DEF CapturedUpTo

\* Steps that leave the hosts and the power cycles alone, and are no death of a host.
LEMMA DeathIdle ==
    ASSUME DeathInv, UNCHANGED <<topology, hosts>>, completed \subseteq completed',
           mishap' = mishap \/ mishap' # "host"
    PROVE  DeathInv'
<1>1. HostNames' = HostNames
  BY Static
<1> QED
  BY <1>1 DEF DeathInv

\* Steps of the hosts.
LEMMA DeathHost ==
    ASSUME DeathInv, HostInv, NEW h \in HostNames, HostOpens(h) \/ HostExits(h)
    PROVE  DeathInv'
<1>1. UNCHANGED <<topology, completed>>
  BY DEF HostOpens, HostExits, HostOthers, rounds
<1>2. HostNames' = HostNames /\ hosts \in [HostNames -> [state : HostStates, starts : Nat, log : Nat]]
  BY <1>1, Static DEF HostInv, HostsTyped
<1>3. CASE HostOpens(h)
  <2>1. /\ mishap' = mishap /\ hosts[h].state = "starting"
        /\ \A g \in HostNames \ {h} : hosts'[g] = hosts[g]
    BY <1>2, <1>3 DEF HostOpens
  <2> QED
    BY <1>1, <1>2, <2>1 DEF DeathInv
<1>4. CASE HostExits(h)
  <2>1. hosts' = [hosts EXCEPT ![h].state = "exited"]
    BY <1>4 DEF HostExits
  <2>2. hosts'[h].state = "exited"
    BY <1>2, <2>1
  <2> QED
    BY <1>2, <2>2 DEF DeathInv
<1> QED
  BY <1>3, <1>4

\* Steps of the runner.
LEMMA DeathRunner ==
    ASSUME DeathInv, HostInv, Runner \/ WaitExpires \/ StartFails \/ RebootFails
    PROVE  DeathInv'
<1>1. CASE Validate \/ WaitLooks \/ WaitPolls \/ WaitLast \/ WaitExpires \/ GiveUp \/ GiveUpJoins
  BY <1>1, DeathIdle DEF Validate, WaitLooks, WaitPolls, WaitLast, WaitExpires, GiveUp, GiveUpJoins,
                         WaitOthers, RunnerOthers, hostVars, rounds
<1>2. CASE StartFails \/ ReceiveFailure \/ KillAfterFailure \/ PollSimulator \/ CheckHosts
  BY <1>2, DeathIdle DEF StartFails, ReceiveFailure, KillAfterFailure, PollSimulator, CheckHosts, Quietly,
                         WaitOthers, RunnerOthers, hostVars, rounds
<1>3. CASE ReadSample \/ RoundEnds \/ Judge
  BY <1>3, DeathIdle DEF ReadSample, RoundEnds, Judge, Quietly, RunnerOthers, hostVars, rounds
<1>4. CASE StartHosts
  <2>1. runner \in Early /\ mishap' = mishap
    BY <1>4 DEF StartHosts, Early
  <2>2. mishap # "host"
    BY <2>1 DEF HostInv, Untouched, DeathInv
  <2> QED
    BY <2>1, <2>2 DEF DeathInv
<1>5. CASE RebootHost
  BY <1>5 DEF RebootHost, DeathInv
<1>6. CASE RebootFails
  BY <1>6 DEF RebootFails, DeathInv
<1>7. CASE Shutdown
  <2>1. /\ UNCHANGED <<topology, mishap, completed>>
        /\ hosts' = [h \in DOMAIN hosts |->
                        IF hosts[h].state \in Dead THEN hosts[h] ELSE [hosts[h] EXCEPT !.state = "killed"]]
    BY <1>7 DEF Shutdown, rounds
  <2>2. HostNames' = HostNames /\ DOMAIN hosts = HostNames
    BY <2>1, Static DEF HostInv, HostsTyped
  <2>3. \A h \in HostNames : hosts[h].state = "exited" => hosts'[h].state = "exited"
    BY <2>1, <2>2 DEF Dead
  <2> QED
    BY <2>1, <2>2, <2>3 DEF DeathInv
<1> QED
  BY <1>1, <1>2, <1>3, <1>4, <1>5, <1>6, <1>7 DEF Runner

\* Every step.
LEMMA DeathStep == ASSUME DeathInv, HostInv, [Next]_vars PROVE DeathInv'
<1>1. CASE Runner \/ WaitExpires \/ StartFails \/ RebootFails
  BY <1>1, DeathRunner
<1>2. CASE \E h \in HostNames : HostOpens(h) \/ HostExits(h)
  BY <1>2, DeathHost
<1>3. CASE SimulatorStep \/ SimulatorFault
  BY <1>3, DeathIdle DEF SimulatorStep, CommandRuns, ScriptQuits, ChildEnds, SimulatorFault,
                         RuntimeCrashes, CommandFails, FaultLogged, Others, hostVars, rounds
<1>4. CASE BridgeFails \/ BridgeCut \/ BridgeStops
  BY <1>4, DeathIdle DEF BridgeFails, BridgeCut, BridgeStops, BridgeEnds, BridgeOthers, hostVars, rounds
<1>5. CASE \E p \in Pipes : Reader(p) \/ ReaderFails(p)
  BY <1>5, DeathIdle DEF Reader, ReadLine, ReaderEnds, PublishSample, ReaderFails, ReaderOthers,
                         hostVars, rounds
<1>6. CASE UNCHANGED vars
  BY <1>6, DeathIdle DEF vars, hostVars, rounds
<1> QED
  BY <1>1, <1>2, <1>3, <1>4, <1>5, <1>6 DEF Next, Mishap

\* The verdict: what the run must show implies all of it.
LEMMA PassJudge ==
    ASSUME CompleteInv, Judge
    PROVE  PassInv'
<1>1. /\ SampleInv /\ LineInv /\ PlannedInv /\ PassInv /\ DeathInv
      /\ UNCHANGED <<topology, guest, booted, applied, probe_file, child, console, hosts, completed, mishap>>
      /\ runner = "join" /\ runner' \in {"passed", "failed"}
      /\ runner' = "passed" => RunClean
  BY DEF CompleteInv, Judge, Quietly, RunnerOthers, readerVars, hostVars, rounds
<1>2. ASSUME RunClean
      PROVE  /\ child = "ok" /\ "complete" \in console
             /\ CapturedUpTo(topology.sample_count)
             /\ ToApply(topology.sample_count) = Elements(applied)
             /\ guest.boots /\ ~guest.watchdog
             /\ \A h \in HostNames : hosts[h].state = "killed"
             /\ mishap = "host" => completed # {}
  <2>1. child = "ok" /\ "complete" \in console
    BY <1>2 DEF RunClean
  <2>2. Required(topology.sample_count) \subseteq Have(applied, probe_file)
    BY <1>1, <2>1 DEF LineInv
  <2>3. ToApply(topology.sample_count) \subseteq Elements(applied) /\ CapturedUpTo(topology.sample_count)
    BY <1>1, <2>2, HaveRecorded
  <2>4. ToApply(topology.sample_count) = Elements(applied)
    BY <1>1, <2>3 DEF PlannedInv
  <2>5. ~guest.watchdog
    BY <1>1, <1>2, <2>1 DEF LineInv, RunClean
  <2>6. guest.boots
    <3>1. List(topology.nodes) /\ topology.nodes # <<>>
      BY <1>1 DEF SampleInv, ListsInv, Listed, PassInv
    <3>2. Head(topology.nodes) \in Elements(topology.nodes)
      BY <3>1, HeadTail
    <3>3. NodeNames # {}
      BY <3>2 DEF NodeNames
    <3> QED
      BY <1>1, <1>2, <3>3 DEF RunClean, PassInv
  <2>7. \A h \in HostNames : hosts[h].state = "killed"
    BY <1>1, <1>2 DEF RunClean, PassInv
  <2>8. mishap = "host" => completed # {}
    BY <1>1, <2>7 DEF DeathInv
  <2> QED
    BY <2>1, <2>3, <2>4, <2>5, <2>6, <2>7, <2>8
<1>3. PassComplete'
  <2> SUFFICES ASSUME RunClean PROVE PassComplete'
    BY <1>1 DEF PassComplete
  <2>1. CapturedUpTo(topology.sample_count)'
    BY <1>1, <1>2, SameCaptured
  <2>2. ToApply(topology.sample_count)' = Elements(applied)' /\ HostNames' = HostNames
    BY <1>1, <1>2, SamePlan
  <2> QED
    BY <1>1, <1>2, <2>1, <2>2 DEF PassComplete
<1> QED
  BY <1>1, <1>3 DEF PassInv

\* A run that is over stays as it is.
LEMMA PassStutter ==
    ASSUME PassInv, UNCHANGED vars
    PROVE  PassInv'
<1>1. UNCHANGED <<topology, guest, booted, applied, probe_file, child, console, hosts, runner,
                  completed, mishap>>
  BY DEF vars, simVars, readerVars, hostVars, rounds
<1>2. CapturedUpTo(topology.sample_count)' <=> CapturedUpTo(topology.sample_count)
  BY <1>1, SameCaptured
<1>3. ToApply(topology.sample_count)' = ToApply(topology.sample_count) /\ HostNames' = HostNames
  BY <1>1, SamePlan
<1>4. PassComplete'
  BY <1>1, <1>2, <1>3 DEF PassComplete, PassInv
<1> QED
  BY <1>1, <1>3, <1>4 DEF PassInv

\* Every step.
LEMMA PassStep ==
    ASSUME CompleteInv, [Next]_vars
    PROVE  PassInv'
<1>0. PassInv /\ HostInv
  BY DEF CompleteInv
<1>1. CASE UNCHANGED vars
  BY <1>0, <1>1, PassStutter
<1>2. CASE Validate \/ WaitLooks \/ WaitPolls \/ WaitLast \/ WaitExpires \/ GiveUp \/ GiveUpJoins
  <2>1. /\ UNCHANGED <<topology, guest, booted>> /\ runner' \notin {"join", "passed"}
        /\ runner' \notin {"validate", "failed"} => runner \notin {"validate", "failed"} \/ TopologyValid
    BY <1>2 DEF Validate, WaitLooks, WaitPolls, WaitLast, WaitExpires, GiveUp, GiveUpJoins, WaitOthers,
                RunnerOthers
  <2> QED
    BY <1>0, <2>1, PassRunner
<1>3. CASE StartHosts \/ StartFails \/ ReceiveFailure \/ KillAfterFailure \/ PollSimulator \/ CheckHosts
  <2>1. /\ UNCHANGED <<topology, guest, booted>> /\ runner' \notin {"join", "passed"}
        /\ runner \notin {"validate", "failed"}
    BY <1>3 DEF StartHosts, StartFails, ReceiveFailure, KillAfterFailure, PollSimulator, CheckHosts,
                Quietly, WaitOthers, RunnerOthers
  <2> QED
    BY <1>0, <2>1, PassRunner
<1>4. CASE ReadSample \/ RebootHost \/ RebootFails \/ RoundEnds
  <2>1. /\ UNCHANGED <<topology, guest, booted>> /\ runner' \notin {"join", "passed"}
        /\ runner \notin {"validate", "failed"}
    BY <1>4 DEF ReadSample, RebootHost, RebootFails, RoundEnds, Quietly, RunnerOthers
  <2> QED
    BY <1>0, <2>1, PassRunner
<1>5. CASE Shutdown
  BY <1>0, <1>5, PassShutdown
<1>6. CASE Judge
  BY <1>6, PassJudge
<1>7. CASE ~Over /\ (SimulatorStep \/ SimulatorFault)
  <2>1. UNCHANGED <<topology, guest, runner, hosts>> /\ (booted' = booted \/ guest.boots)
    BY <1>7 DEF SimulatorStep, CommandRuns, ScriptQuits, ChildEnds, SimulatorFault, RuntimeCrashes,
                CommandFails, FaultLogged, WorldUntouched, Others, hostVars
  <2> QED
    BY <1>0, <1>7, <2>1, PassWorld
<1>8. CASE ~Over /\ (BridgeFails \/ BridgeCut \/ BridgeStops)
  <2>1. UNCHANGED <<topology, guest, runner, hosts, booted>>
    BY <1>8 DEF BridgeFails, BridgeCut, BridgeStops, BridgeEnds, BridgeOthers, simVars, hostVars
  <2> QED
    BY <1>0, <1>8, <2>1, PassWorld
<1>9. CASE ~Over /\ \E p \in Pipes : Reader(p) \/ ReaderFails(p)
  <2>1. UNCHANGED <<topology, guest, runner, hosts, booted>>
    BY <1>9 DEF Reader, ReadLine, ReaderEnds, PublishSample, ReaderFails, ReaderOthers, simVars, hostVars
  <2> QED
    BY <1>0, <1>9, <2>1, PassWorld
<1>10. CASE ~Over /\ \E h \in HostNames : HostOpens(h) \/ HostExits(h)
  BY <1>0, <1>10, PassHost
<1> QED
  BY <1>1, <1>2, <1>3, <1>4, <1>5, <1>6, <1>7, <1>8, <1>9, <1>10 DEF Next, Runner, Mishap

\* The initial states.
LEMMA InitComplete == Init => CompleteInv
<1> SUFFICES ASSUME Init PROVE CompleteInv
  OBVIOUS
<1>1. SampleInv /\ HostInv
  BY InitSample, InitHosts
<1>2. /\ script = <<>> /\ applied = <<>> /\ pipe = [p \in Pipes |-> <<>>] /\ console = {} /\ booted = {}
      /\ runner = "validate"
  BY DEF Init
<1>3. "stdout" \in Pipes
  BY DEF Pipes
<1>4. Whole(<<>>) /\ ~Coming(<<>>)
  BY EmptyIs DEF Whole, Coming
<1>5. \A p \in Pipes : Kinds(pipe[p]) = {} /\ Heralded(pipe[p])
  BY <1>2, EmptyIs DEF Kinds, Heralded
<1>6. EndInv
  BY <1>2, <1>4 DEF EndInv
<1>7. LineInv
  BY <1>2, <1>3, <1>5 DEF LineInv
<1>8. PlannedInv
  BY <1>2, EmptyIs DEF PlannedInv
<1>9. PassInv
  BY <1>2 DEF PassInv, PassComplete
<1>10. DeathInv
  BY DEF Init, DeathInv
<1> QED
  BY <1>1, <1>6, <1>7, <1>8, <1>9, <1>10 DEF CompleteInv

\* For every topology and firmware, a bay that passed was executed to its end: the
\* script ran to its last command, so all probes of all samples were captured and
\* the planned events and no others applied, however the threads interleave and
\* whatever went wrong; every node booted, no watchdog fired, and no host was dead
\* when the run ended: one that died can have gone unnoticed only where planned
\* power cycles were made (run and console_execution_failed, bay.rs).
THEOREM PassCompleteHolds == Spec => []PassComplete
<1>1. Init => CompleteInv
  BY InitComplete
<1>2. CompleteInv /\ [Next]_vars => CompleteInv'
  <2> SUFFICES ASSUME CompleteInv, [Next]_vars PROVE CompleteInv'
    OBVIOUS
  <2>1. SampleInv' /\ HostInv'
    BY SampleStep, HostKept DEF CompleteInv
  <2>2. EndInv' /\ LineInv' /\ PlannedInv'
    BY EndStep DEF CompleteInv
  <2>3. PassInv'
    BY PassStep
  <2>4. DeathInv'
    BY DeathStep DEF CompleteInv
  <2> QED
    BY <2>1, <2>2, <2>3, <2>4 DEF CompleteInv
<1>3. CompleteInv => PassComplete
  BY DEF CompleteInv, PassInv
<1> QED
  BY <1>1, <1>2, <1>3, PTL DEF Spec

=============================================================================
