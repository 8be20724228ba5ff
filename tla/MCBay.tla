-------------------------------- MODULE MCBay --------------------------------
(* A flight board with a ground station host on a terminal and a Pico-Fi tunnel, *)
(* and a pair of boards on CAN and radio; and the topologies that are refused.   *)
EXTENDS BayRun

Limits(name) ==
    [name |-> name, gain |-> None, minimum |-> None, maximum |-> None, end_drop |-> None,
     ignore_zeroes |-> FALSE]
Progress == [Limits("progress") EXCEPT !.gain = 1]
Heap == [Limits("heap") EXCEPT !.minimum = 1, !.end_drop = 0]

Board(name, probes) ==
    [name |-> name, sound |-> TRUE, probes |-> probes, warmup |-> 0, controllers |-> <<"fdcan1">>]

Host(name, serial) == [name |-> name, binary_present |-> TRUE, serial |-> serial]
Serial(link, transport) == [link |-> link, transport |-> transport]

End(node, peripheral) ==
    [node |-> node, peripheral |-> peripheral, tx_probe |-> None, rx_probe |-> None,
     activity_probe |-> "progress", minimum_tx |-> 1, minimum_rx |-> 1, minimum_activity |-> 1]

Wire(name, kind, ends) ==
    [name |-> name, kind |-> kind, radio |-> None, baud_rate |-> 115200, endpoints |-> ends]

Profile ==
    [air_bits_per_second |-> 64000, uart_baud |-> 115200, tx_fifo_bytes |-> 4096,
     rx_fifo_bytes |-> 4096, max_burst_bytes |-> 256, packet_idle_us |-> 2000,
     overhead_bits |-> 160, turn_us |-> 2000]

Event(kind, node, after) ==
    [kind |-> kind, node |-> node, after |-> after, peripheral |-> "fdcan1", link |-> "bus",
     sender |-> None, receiver |-> None]

Gain(minimum, maximum) ==
    [node |-> "flight", probe |-> "progress", minimum |-> None, maximum |-> None, required_bits |-> {}, sample |-> None,
     minimum_gain |-> minimum, maximum_gain |-> maximum, from |-> 0, to |-> 1]
Level(sample, maximum) ==
    [Gain(None, None) EXCEPT !.sample = sample, !.maximum = maximum, !.minimum = 1]
LogLine(minimum, maximum) == [node |-> "gs", minimum |-> minimum, maximum |-> maximum]

Ground ==
    [sample_count |-> 4, virtual_time_ms |-> 8, trace_sample |-> None,
     enforce_end_drop |-> TRUE,
     nodes |-> <<Board("flight", <<Progress>>)>>,
     hosts |-> <<Host("gs", <<Serial("serial", "uart_pty"), Serial("tunnel", "pico_i2c")>>)>>,
     links |-> <<Wire("serial", "routed_serial", <<End("flight", "uart1"), End("gs", "tty")>>),
                 Wire("tunnel", "pico_fi", <<End("flight", "uart2"), End("gs", "i2c")>>)>>,
     events |-> <<Event("reboot", "gs", 1), Event("reboot", "flight", 2)>>,
     assertions |-> <<Gain(1, 2), Level(None, 2), Level(2, 1)>>,
     log_assertions |-> <<>>]

Outage(after) ==
    [Event("radio", None, after) EXCEPT !.link = "air", !.sender = "flight", !.receiver = "gs"]

Fabric ==
    [Ground EXCEPT
        !.sample_count = 2, !.assertions = <<Gain(1, 2)>>,
        !.nodes = <<Board("flight", <<Progress, Heap>>), Board("power", <<Progress>>)>>,
        !.hosts = <<Host("gs", <<Serial("air", "uart_pty")>>)>>,
        !.links = <<[Wire("air", "radio", <<End("flight", "uart1"), End("gs", "tty")>>)
                        EXCEPT !.radio = Profile],
                    Wire("bus", "can", <<End("flight", "fdcan1"), End("power", "fdcan1")>>)>>,
        !.events = <<Outage(0), Event("can_link", "power", 0), Event("can_link", "power", 1),
                     Event("can_ack", "flight", 1), Outage(1)>>]

Alone == [Fabric EXCEPT !.hosts = <<>>, !.links = <<Fabric.links[2]>>, !.events = <<Event("can_ack", "flight", 1)>>]

Refused ==
    {[Ground EXCEPT !.nodes = <<>>],
     [Ground EXCEPT !.nodes = @ \o @],
     [Ground EXCEPT !.nodes[1].sound = FALSE],
     [Ground EXCEPT !.virtual_time_ms = 3],
     [Ground EXCEPT !.trace_sample = 4],
     [Ground EXCEPT !.hosts[1].binary_present = FALSE],
     [Ground EXCEPT !.hosts[1].name = "flight"],
     [Ground EXCEPT !.hosts[1].serial[2].link = "elsewhere"],
     [Ground EXCEPT !.hosts[1].serial[1].transport = "pico_tcp"],
     [Ground EXCEPT !.links[2].baud_rate = 0],
     [Ground EXCEPT !.links[1].kind = "can"],
     [Ground EXCEPT !.links[1].endpoints = <<End("flight", "uart1")>>],
     [Ground EXCEPT !.links[1].endpoints[1].node = "nobody"],
     [Ground EXCEPT !.events[1].after = 4],
     [Ground EXCEPT !.events[1].after = 0],
     [Ground EXCEPT !.events[1].node = "nobody"],
     [Fabric EXCEPT !.links[1].radio.tx_fifo_bytes = 128],
     [Fabric EXCEPT !.links[1].endpoints[2].node = "flight"],
     [Fabric EXCEPT !.links[2].name = "air"],
     [Fabric EXCEPT !.events[1].receiver = "flight"],
     [Fabric EXCEPT !.events[2].peripheral = "fdcan2"],
     [Fabric EXCEPT !.hosts[1].serial[1].transport = "pico_tcp"]}

\* Judged against limits the firmware does not meet.
Strict ==
    {[Alone EXCEPT !.assertions = a] :
        a \in {<<Gain(2, None)>>, <<Gain(None, 0)>>, <<Level(2, 3)>>, <<Level(None, 1)>>,
               <<[Level(None, None) EXCEPT !.required_bits = {0}]>>}}
    \cup {[Alone EXCEPT !.links[1].endpoints[1] = e] :
              e \in {[End("flight", "fdcan1") EXCEPT !.minimum_activity = 3],
                     [End("flight", "fdcan1") EXCEPT !.tx_probe = "progress", !.minimum_tx = 3],
                     [End("flight", "fdcan1") EXCEPT !.rx_probe = "progress", !.minimum_rx = 3],
                     [End("flight", "fdcan1") EXCEPT !.activity_probe = None],
                     [End("flight", "fdcan1") EXCEPT !.tx_probe = "heap", !.rx_probe = "unknown"]}}
    \cup {[Alone EXCEPT !.nodes[1].warmup = w] : w \in {1, 2}}

Fit == [boots |-> TRUE, watchdog |-> FALSE, overflows |-> FALSE, stalled |-> {}, leak |-> 0]

Faulty ==
    {[Fit EXCEPT !.boots = FALSE], [Fit EXCEPT !.watchdog = TRUE], [Fit EXCEPT !.overflows = TRUE],
     [Fit EXCEPT !.leak = 1]}
        \cup {[Fit EXCEPT !.stalled = {s}] : s \in 1..2}

\* Two epochs of two samples, on one board.
Resets ==
    [Alone EXCEPT !.sample_count = 4, !.events = <<Event("reboot", "flight", 2)>>,
                  !.nodes = <<Board("flight", <<Progress, Heap>>)>>, !.links = <<>>]

\* One power cycle of the host, which the log shows.
Cycled(log_lines) ==
    [Ground EXCEPT !.sample_count = 2, !.assertions = <<>>, !.log_assertions = log_lines,
                   !.hosts = <<Host("gs", <<Serial("serial", "uart_pty")>>)>>,
                   !.links = <<Ground.links[1]>>, !.events = <<Event("reboot", "gs", 1)>>]

MCAttainable == {Ground, Fabric, Alone, Resets}

MCBays ==
    (MCAttainable \cup Refused \cup Strict \cup {Cycled(<<LogLine(m, 2)>>) : m \in {2, 3}}) \X {Fit}
        \cup {Alone} \X Faulty
        \cup {Resets} \X ({[Fit EXCEPT !.stalled = {s}] : s \in 1..4} \cup {[Fit EXCEPT !.leak = 1]})
=============================================================================
