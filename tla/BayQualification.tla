--------------------------- MODULE BayQualification --------------------------
(* What bay.rs decides without running anything: which topologies it accepts,  *)
(* and whether the probe file and the host logs of a run qualify the bay.       *)
(* radio_link.rs gives the bounds of a radio profile.                          *)
EXTENDS ProbeLimits, FiniteSets, Lists

VARIABLE topology       \* BayTopology, with the events of all kinds in one list

Distinct(s) == Cardinality(Elements(s)) = Len(s)

NodeNames == {n.name : n \in Elements(topology.nodes)}
HostNames == {h.name : h \in Elements(topology.hosts)}
Stations(link) == {e.node : e \in Elements(link.endpoints)}
HostsOf(link) == {e \in Elements(link.endpoints) : e.node \in HostNames}
HasRadio(link) == link.radio # None
RadioLinks == {l \in Elements(topology.links) : HasRadio(l)}
Events(kind) == {e \in Elements(topology.events) : e.kind = kind}

-----------------------------------------------------------------------------
(* RadioProfile::validate and validate_radio_links.                            *)

MaxRadioLinks == 16
FifoLimit == 1048576

RadioProfileValid(p, stations) ==
    /\ stations \in 2..16
    /\ p.air_bits_per_second \in 1..10000000
    /\ p.uart_baud \in 1..5000000
    /\ p.max_burst_bytes \in 1..65536
    /\ {p.tx_fifo_bytes, p.rx_fifo_bytes} \subseteq p.max_burst_bytes..FifoLimit
    /\ p.packet_idle_us \in 1..1000000
    /\ p.turn_us <= 1000000 /\ p.overhead_bits <= 65536

RadioLinkValid(link) ==
    /\ link.kind = "radio"
    /\ RadioProfileValid(link.radio, Len(link.endpoints))
    /\ Cardinality(Stations(link)) = Len(link.endpoints)
    /\ Stations(link) \cap NodeNames # {}

RadioOutageValid(e) ==
    \E link \in RadioLinks :
        /\ link.name = e.link /\ e.sender # e.receiver
        /\ {e.sender, e.receiver} \subseteq Stations(link)

RadioLinksValid ==
    /\ Cardinality(RadioLinks) <= MaxRadioLinks
    /\ RadioLinks # {} => Cardinality({l.name : l \in Elements(topology.links)}) = Len(topology.links)
    /\ \A link \in RadioLinks : RadioLinkValid(link)
    /\ \A e \in Events("radio") : RadioOutageValid(e)

-----------------------------------------------------------------------------
(* The checks at the head of run, its loop over the links, and the host serial  *)
(* links. The checks of a node's layout, ELF and factory image are those of a   *)
(* single board: node.sound stands for their verdict.                         *)

InsideRun(e) ==
    /\ e.after < topology.sample_count
    /\ e.kind \in {"reboot", "can_ack"} => e.after > 0

OnCanLink(e) ==
    \E link \in Elements(topology.links) :
        /\ link.kind = "can" /\ (e.kind = "can_link" => link.name = e.link)
        /\ \E end \in Elements(link.endpoints) : end.node = e.node /\ end.peripheral = e.peripheral

EventValid(e) ==
    /\ InsideRun(e)
    /\ e.kind = "reboot" => e.node \in NodeNames \cup HostNames
    /\ e.kind \in {"can_ack", "can_link"} => e.node \in NodeNames /\ OnCanLink(e)

SerialsOf(host) == {s \in Elements(topology.hosts) : s.name = host}

Transport(host, link) ==
    LET serials == UNION {Elements(h.serial) : h \in SerialsOf(host)}
        here    == {s \in serials : s.link = link}
    IN  IF here = {} THEN "uart_pty" ELSE (CHOOSE s \in here : TRUE).transport

PicoTransports == {"pico_i2c", "pico_tcp", "pico_discovery"}

HostEndValid(link, end) ==
    IF HasRadio(link)
      THEN /\ \E h \in SerialsOf(end.node) : \E s \in Elements(h.serial) : s.link = link.name
           /\ Transport(end.node, link.name) = "uart_pty"
      ELSE /\ link.kind # "can"
           /\ Transport(end.node, link.name) \in PicoTransports => link.kind = "pico_fi"
           /\ Transport(end.node, link.name) = "pico_i2c" => link.baud_rate > 0

LinkValid(link) ==
    /\ Len(link.endpoints) >= 2
    /\ Stations(link) \subseteq NodeNames \cup HostNames
    /\ ~HasRadio(link) => Cardinality(HostsOf(link)) <= 1
    /\ \A end \in HostsOf(link) : HostEndValid(link, end)

\* A terminal is created for the host end of a link.
Terminals ==
    UNION {{<<end.node, link.name>> : end \in HostsOf(link)} : link \in Elements(topology.links)}

HostsValid ==
    \A h \in Elements(topology.hosts) :
        /\ h.name \notin NodeNames /\ h.binary_present
        /\ \A s \in Elements(h.serial) : <<h.name, s.link>> \in Terminals

ProfileIntervalValid ==
    (IF topology.trace_sample = None THEN IF topology.sample_count > 1 THEN 1 ELSE 0
                                     ELSE topology.trace_sample) < topology.sample_count

TopologyValid ==
    /\ topology.nodes # <<>> /\ Cardinality(NodeNames) = Len(topology.nodes)
    /\ topology.sample_count > 0 /\ topology.sample_count <= topology.virtual_time_ms
    /\ ProfileIntervalValid
    /\ HostsValid
    /\ \A e \in Elements(topology.events) : EventValid(e)
    /\ RadioLinksValid
    /\ \A link \in Elements(topology.links) : LinkValid(link)
    /\ \A n \in Elements(topology.nodes) : n.sound

-----------------------------------------------------------------------------
(* parse_memory_profiles on the records of the probe file.                     *)

RecordsOf(file, node, probe) ==
    SortSeq(SelectSeq(file, LAMBDA r : r.node = node /\ r.probe = probe),
            LAMBDA a, b : a.sample < b.sample)

\* validate_probe_indices: every sample once, none twice.
IndicesComplete(records) ==
    /\ Len(records) = topology.sample_count
    /\ \A i \in DOMAIN records : records[i].sample = i

Values(records) == [i \in DOMAIN records |-> records[i].value]

\* A plausible bug: a planned reset does not start a new epoch.
MutEpochs(samples, resets, first) == {SubSeq(samples, first + 1, Len(samples))}

\* probe_epochs: the samples between planned resets. A reset after sample r falls
\* between the r-th sample and the next.
Epochs(samples, resets, first) ==
    LET ends   == {r \in resets : r > first /\ r < Len(samples)} \cup {Len(samples)}
        starts == {first} \cup (ends \ {Len(samples)})
        EndOf(start) == Min({e \in ends : e > start})
    IN  {SubSeq(samples, start + 1, EndOf(start)) : start \in starts}

ProbeAccepted(probe, samples, warmup, resets, enforce) ==
    LET settled == Qualified(probe, samples, warmup)
        epochs  == Epochs(samples, resets, Len(samples) - Len(settled))
    IN  /\ settled # <<>>
        /\ \A e \in epochs : CounterProgresses(e, probe.gain)
        /\ probe.minimum # None => Floor(settled) >= probe.minimum
        /\ probe.maximum # None => Ceiling(settled) <= probe.maximum
        /\ enforce /\ probe.end_drop # None =>
              \A e \in epochs : SustainedEndDrop(e) <= probe.end_drop

ResetsOf(node) == {e.after : e \in {e \in Events("reboot") : e.node = node}}

\* A plausible bug: the counter of dropped frames is captured but has no limit.
MutFifoProbe(controller) ==
    [name |-> controller, gain |-> None, minimum |-> None, maximum |-> None, end_drop |-> None,
     ignore_zeroes |-> FALSE]

\* can_fifo_model_probes: a controller may not have dropped a received frame in
\* its lifetime; neither a reset nor a warm-up excuses one.
FifoProbe(controller) ==
    [name |-> controller, gain |-> None, minimum |-> None, maximum |-> 0, end_drop |-> None,
     ignore_zeroes |-> FALSE]
FifoProbes(node) == [i \in DOMAIN node.controllers |-> FifoProbe(node.controllers[i])]

NodeAccepted(node, file) ==
    LET Records(probe) == RecordsOf(file, node.name, probe.name)
    IN  /\ \A probe \in Elements(node.probes) \cup Elements(FifoProbes(node)) :
              IndicesComplete(Records(probe))
        /\ node.warmup < topology.sample_count
        /\ \A probe \in Elements(node.probes) :
              ProbeAccepted(probe, Values(Records(probe)), node.warmup, ResetsOf(node.name),
                            topology.enforce_end_drop)
        /\ \A probe \in Elements(FifoProbes(node)) :
              ProbeAccepted(probe, Values(Records(probe)), 0, {}, FALSE)

-----------------------------------------------------------------------------
(* The rest of qualify_observations, on profiles that were accepted.           *)

NodeNamed(name) == CHOOSE n \in Elements(topology.nodes) : n.name = name
ProbeNames(name) == {p.name : p \in Elements(NodeNamed(name).probes \o FifoProbes(NodeNamed(name)))}
ProbeNamed(name, probe) ==
    CHOOSE p \in Elements(NodeNamed(name).probes \o FifoProbes(NodeNamed(name))) : p.name = probe

SamplesNamed(file, name, probe) == Values(RecordsOf(file, name, probe))

\* maximum_observed
HighestOf(file, name, probe) ==
    Ceiling(Qualified(ProbeNamed(name, probe), SamplesNamed(file, name, probe),
                      IF ProbeNamed(name, probe) \in Elements(NodeNamed(name).probes)
                        THEN NodeNamed(name).warmup ELSE 0))

Reaches(file, end, probe, minimum) ==
    probe # None => /\ probe \in ProbeNames(end.node)
                    /\ HighestOf(file, end.node, probe) >= minimum

EndpointAccepted(file, end) ==
    end.node \in NodeNames =>
        /\ Reaches(file, end, end.tx_probe, end.minimum_tx)
        /\ Reaches(file, end, end.rx_probe, end.minimum_rx)
        /\ end.tx_probe = None /\ end.rx_probe = None =>
              Reaches(file, end, end.activity_probe, end.minimum_activity)
        /\ (end.tx_probe # None /\ end.rx_probe # None) \/ end.activity_probe # None

IsGain(a) == a.minimum_gain # None \/ a.maximum_gain # None

\* Sample indices of assertions start at zero.
GainAccepted(a, samples) ==
    /\ a.from # None /\ a.to # None /\ a.from < a.to
    /\ {a.from + 1, a.to + 1} \subseteq DOMAIN samples
    /\ LET from == samples[a.from + 1]
           to   == samples[a.to + 1]
       IN  /\ a.maximum_gain # None => to >= from /\ to - from <= a.maximum_gain
           /\ a.minimum_gain # None => Max({0, to - from}) >= a.minimum_gain

\* required_bits is the set of the bits that must be set.
LevelAccepted(a, samples, highest) ==
    /\ a.sample # None => a.sample + 1 \in DOMAIN samples
    /\ LET observed == IF a.sample = None THEN highest ELSE samples[a.sample + 1]
       IN  /\ a.minimum # None => observed >= a.minimum
           /\ a.maximum # None => observed <= a.maximum
           /\ \A b \in a.required_bits : (observed \div 2^b) % 2 = 1

AssertionAccepted(file, a) ==
    /\ a.node \in NodeNames /\ a.probe \in ProbeNames(a.node)
    /\ IF IsGain(a) THEN GainAccepted(a, SamplesNamed(file, a.node, a.probe))
                    ELSE LevelAccepted(a, SamplesNamed(file, a.node, a.probe),
                                       HighestOf(file, a.node, a.probe))

\* logs[host]: how often the asserted text occurs in what the host wrote.
LogAccepted(logs, a) ==
    /\ a.node \in HostNames
    /\ logs[a.node] >= a.minimum
    /\ a.maximum # None => logs[a.node] <= a.maximum

Qualifies(file, logs) ==
    /\ \A n \in Elements(topology.nodes) : NodeAccepted(n, file)
    /\ \A link \in Elements(topology.links) :
          \A end \in Elements(link.endpoints) : EndpointAccepted(file, end)
    /\ \A a \in Elements(topology.log_assertions) : LogAccepted(logs, a)
    /\ \A a \in Elements(topology.assertions) : AssertionAccepted(file, a)
=============================================================================
