------------------------------ MODULE CanWire ------------------------------
(***************************************************************************)
(* The transmit side of the linked CAN controllers of                      *)
(* SedsStm32H5Fdcan.cs: SedsFixedFdcan keeps the slots of one controller,  *)
(* WireScheduler the wire that the controllers of a link share.  Firmware  *)
(* writes TXBAR and TXBCR on the thread of its CPU; WireScheduler.Tick     *)
(* runs on the time-source thread of the machine that created the wire.    *)
(* Only `queue' is locked.  A read-modify-write of the slot masks is a     *)
(* load and a store, so the two threads can interleave between them; the   *)
(* store of one mask and the load of the other are one step.  A controller *)
(* in Hosted is on the wire's own machine, whose CPU does not run while    *)
(* its clock fires.                                                        *)
(***************************************************************************)
EXTENDS Integers, Sequences, FiniteSets, SequencesExt

CONSTANTS
    Controllers,
    Hosted,       \* controllers on the machine that owns the wire's timer
    NumSlots,     \* TX slots of a controller (3 in the code)
    Headers,      \* identifiers each controller's firmware uses
    Idle          \* `active' is null

CONSTANTS         \* bounds of the instance
    MaxFrames,    \* frames each controller's firmware writes
    MaxCancels,   \* writes of TXBCR
    MaxStops,     \* times a controller enters INIT
    MaxResets     \* resets of a controller

Slots == 0 .. NumSlots - 1

\* The identifier word of a frame's header: an 11-bit base and 18 bits more.
Header == [ide : 0 .. 1, rtr : 0 .. 1, base : 0 .. 2^11 - 1, ext : 0 .. 2^18 - 1]

\* A WireRequest; n is the frame it was made for, the rest is captured in it.
WireRequest == [owner : Controllers, slot : Slots, header : Header,
                token : Nat, generation : Nat, n : Nat]

ASSUME ControllersAssumption ==
    /\ Hosted \subseteq Controllers
    /\ NumSlots \in Nat \ {0}
    /\ Headers \in [Controllers -> SUBSET Header]
    /\ Idle \notin WireRequest
    /\ MaxFrames \in [Controllers -> Nat] /\ MaxCancels \in Nat /\ MaxStops \in Nat /\ MaxResets \in Nat

VARIABLES
    pending,      \* pacedPending, as a set of slots
    completed,    \* pacedCompleted
    slotGen,      \* slotGeneration
    resetGen,     \* resetGeneration
    ram,          \* the TX buffers of message RAM
    init,         \* CCCR.INIT of the inner controller
    held,         \* its requestPendingFlags
    cpu,          \* where the CPU is in WriteDoubleWord
    queue,        \* WireScheduler.queue
    active,       \* WireScheduler.active
    enabled,      \* timer.Enabled
    tick          \* where the timer thread is in Tick

VARIABLES         \* history
    written,      \* frames each firmware wrote to RAM
    accepted,     \* frames in the order of their requests, per controller
    sent,         \* frames put on the wire, per controller
    gone,         \* frames aborted or reset away before they were sent
    stopped,      \* the controller entered INIT with slots pending
    uses          \* cancels, stops and resets so far

controller == <<pending, completed, slotGen, resetGen, ram, init, held>>
wire == <<queue, active, enabled>>
history == <<written, accepted, sent, gone, stopped, uses>>
vars == <<controller, cpu, wire, tick, history>>

\* Local state of the two threads: program counter, loaded mask, slots to do.
AtRest == [pc |-> "rest", old |-> {}, todo |-> {}]
AtIdle == [pc |-> "idle", old |-> {}]

NoHeader == [ide |-> 0, rtr |-> 0, base |-> 0, ext |-> 0]

Init ==
    /\ pending = [c \in Controllers |-> {}]
    /\ completed = [c \in Controllers |-> {}]
    /\ slotGen = [c \in Controllers |-> [s \in Slots |-> 0]]
    /\ resetGen = [c \in Controllers |-> 0]
    /\ ram = [c \in Controllers |->
                 [s \in Slots |-> [n |-> 0, header |-> NoHeader]]]
    /\ init = [c \in Controllers |-> TRUE]
    /\ held = [c \in Controllers |-> {}]
    /\ cpu = [c \in Controllers |-> AtRest]
    /\ queue = <<>> /\ active = Idle /\ enabled = FALSE
    /\ tick = AtIdle
    /\ written = [c \in Controllers |-> 0]
    /\ accepted = [c \in Controllers |-> <<>>]
    /\ sent = [c \in Controllers |-> <<>>]
    /\ gone = [c \in Controllers |-> {}]
    /\ stopped = [c \in Controllers |-> FALSE]
    /\ uses = [cancels |-> 0, stops |-> 0, resets |-> 0]

-----------------------------------------------------------------------------
(* Identifiers. *)

\* Mutant of WireArbitrationKey: the recessive SRR bit of extended frames is left out.
KeyWithoutSRR(h) ==
    IF h.ide = 0
    THEN h.base * 2^21 + h.rtr * 2^20
    ELSE h.base * 2^21 + 2^19 + h.ext * 2 + h.rtr

WireArbitrationKey(h) ==
    IF h.ide = 0
    THEN h.base * 2^21 + h.rtr * 2^20
    ELSE h.base * 2^21 + 2^20 + 2^19 + h.ext * 2 + h.rtr

\* The arbitration field in the order its bits are on the wire.
ArbitrationField(h) ==
    IF h.ide = 0
    THEN <<h.base, h.rtr, 0, 0, 0>>
    ELSE <<h.base, 1, 1, h.ext, h.rtr>>

\* Bitwise arbitration: at the first difference the dominant (0) bit wins.
Beats(h, k) ==
    LET f == ArbitrationField(h)
        g == ArbitrationField(k)
    IN  \E p \in 1 .. 5 : f[p] < g[p] /\ \A q \in 1 .. p - 1 : f[q] = g[q]

-----------------------------------------------------------------------------
(* Firmware: the CPU thread of controller c. *)

\* The CPU of a hosted controller does not run while the wire's clock fires.
Runs(c) == c \in Hosted => tick.pc = "idle"

\* One atomic step of the CPU thread inside a register write.
Step(c, from, to) == Runs(c) /\ cpu[c].pc = from /\ cpu' = [cpu EXCEPT ![c] = to]

Calls(c) == Runs(c) /\ cpu[c].pc = "rest"

\* The driver writes frames to slots that TXBRP shows free, then writes TXBAR.  In
\* INIT, or when every slot it names is pending, the write has no effect.
Request(c, value, h) ==
    LET free == value \ pending[c]
        number(s) == written[c] + Cardinality({r \in free : r <= s})
    IN  /\ Calls(c) /\ ~init[c]
        /\ free # {} /\ written[c] + Cardinality(free) <= MaxFrames[c]
        /\ written' = [written EXCEPT ![c] = @ + Cardinality(free)]
        /\ ram' = [ram EXCEPT ![c] = [s \in Slots |->
                      IF s \in free THEN [n |-> number(s), header |-> h] ELSE @[s]]]
        /\ cpu' = [cpu EXCEPT ![c] = [pc |-> "add", old |-> {}, todo |-> value]]
        /\ UNCHANGED <<pending, completed, slotGen, resetGen, init, held, wire, tick,
                       accepted, sent, gone, stopped, uses>>

\* The loop takes the slots in ascending order.
Slot(c) == CHOOSE s \in cpu[c].todo : \A r \in cpu[c].todo : s <= r

\* The loop of the TXBAR write goes on with the remaining slots.
Onwards(c) ==
    LET left == cpu[c].todo \ {Slot(c)}
    IN  IF left = {} THEN AtRest ELSE [pc |-> "add", old |-> {}, todo |-> left]

\* A slot that is pending is skipped; otherwise pacedPending is loaded.
AddCheck(c) ==
    /\ Step(c, "add", IF Slot(c) \in pending[c] THEN Onwards(c)
                      ELSE [pc |-> "reserve", old |-> pending[c], todo |-> cpu[c].todo])
    /\ UNCHANGED <<controller, wire, tick, history>>

\* pacedPending is stored; pacedCompleted is loaded.
AddReserve(c) ==
    /\ Step(c, "reserve", [pc |-> "enqueue", old |-> completed[c], todo |-> cpu[c].todo])
    /\ pending' = [pending EXCEPT ![c] = cpu[c].old \cup {Slot(c)}]
    /\ UNCHANGED <<completed, slotGen, resetGen, ram, init, held, wire, tick, history>>

\* Mutant of Replaced: the queued request of a reused slot is kept.
KeepsQueued(c, s) == queue

\* The i-th lowest of a set of positions.
Nth(K, i) == CHOOSE k \in K : Cardinality({j \in K : j <= k}) = i

Kept(c, s) == {k \in 1 .. Len(queue) : queue[k].owner # c \/ queue[k].slot # s}

\* WireScheduler.Enqueue drops every queued request of the same slot.
Replaced(c, s) == [i \in 1 .. Cardinality(Kept(c, s)) |-> queue[Nth(Kept(c, s), i)]]

\* pacedCompleted is stored; the token is taken, the header is read, and Enqueue
\* appends the request under its lock.
AddEnqueue(c) ==
    LET s == Slot(c)
        token == slotGen[c][s] + 1
        request == [owner |-> c, slot |-> s, header |-> ram[c][s].header,
                    token |-> token, generation |-> resetGen[c], n |-> ram[c][s].n]
    IN  /\ Step(c, "enqueue", [pc |-> "enable", old |-> {}, todo |-> cpu[c].todo])
        /\ completed' = [completed EXCEPT ![c] = cpu[c].old \ {s}]
        /\ slotGen' = [slotGen EXCEPT ![c][s] = token]
        /\ queue' = Append(Replaced(c, s), request)
        /\ accepted' = [accepted EXCEPT ![c] = Append(@, ram[c][s].n)]
        /\ UNCHANGED <<pending, resetGen, ram, init, held, active, enabled, tick,
                       written, sent, gone, stopped, uses>>

\* Enqueue starts the timer after it has released the lock.
AddEnable(c) ==
    /\ Step(c, "enable", Onwards(c))
    /\ enabled' = TRUE
    /\ UNCHANGED <<controller, queue, active, tick, history>>

\* TXBCR: the generations are advanced, then pacedPending is rewritten.
Cancel(c, value) ==
    /\ Calls(c)
    /\ uses.cancels < MaxCancels /\ value \cap pending[c] # {}
    /\ cpu' = [cpu EXCEPT ![c] = [pc |-> "abort", old |-> pending[c], todo |-> value]]
    /\ slotGen' = [slotGen EXCEPT ![c] = [s \in Slots |-> @[s] + IF s \in value THEN 1 ELSE 0]]
    /\ gone' = [gone EXCEPT ![c] = @ \cup {ram[c][s].n : s \in value \cap pending[c]}]
    /\ uses' = [uses EXCEPT !.cancels = @ + 1]
    /\ UNCHANGED <<pending, completed, resetGen, ram, init, held, wire, tick,
                   written, accepted, sent, stopped>>

\* Mutant of Unset: the mask is toggled.
Toggled(mask, value) == (mask \ value) \cup (value \ mask)

Unset(mask, value) == mask \ value

CancelStore(c) ==
    /\ Step(c, "abort", AtRest)
    /\ pending' = [pending EXCEPT ![c] = Unset(cpu[c].old, cpu[c].todo)]
    /\ UNCHANGED <<completed, slotGen, resetGen, ram, init, held, wire, tick, history>>

\* CCCR.INIT is set: nothing else changes.
Stop(c) ==
    /\ Calls(c) /\ ~init[c] /\ uses.stops < MaxStops
    /\ init' = [init EXCEPT ![c] = TRUE]
    /\ stopped' = [stopped EXCEPT ![c] = @ \/ pending[c] # {}]
    /\ uses' = [uses EXCEPT !.stops = @ + 1]
    /\ UNCHANGED <<pending, completed, slotGen, resetGen, ram, held, cpu, wire, tick,
                   written, accepted, sent, gone>>

\* CCCR.INIT is cleared: the inner controller sends what it held, at once.
Start(c) ==
    /\ Calls(c) /\ init[c]
    /\ init' = [init EXCEPT ![c] = FALSE]
    /\ held' = [held EXCEPT ![c] = {}]
    /\ sent' = [sent EXCEPT ![c] = @ \o SetToSeq({ram[c][s].n : s \in held[c]})]
    /\ UNCHANGED <<pending, completed, slotGen, resetGen, ram, cpu, wire, tick,
                   written, accepted, gone, stopped, uses>>

\* A machine is reset while its own CPU is at rest; the wire is not reset.
Reset(c) ==
    /\ Calls(c) /\ uses.resets < MaxResets
    /\ resetGen' = [resetGen EXCEPT ![c] = @ + 1]
    /\ pending' = [pending EXCEPT ![c] = {}]
    /\ completed' = [completed EXCEPT ![c] = {}]
    /\ held' = [held EXCEPT ![c] = {}]
    /\ init' = [init EXCEPT ![c] = TRUE]
    /\ gone' = [gone EXCEPT ![c] = @ \cup {ram[c][s].n : s \in pending[c] \cup held[c]}]
    /\ uses' = [uses EXCEPT !.resets = @ + 1]
    /\ UNCHANGED <<slotGen, ram, cpu, wire, tick, written, accepted, sent, stopped>>

-----------------------------------------------------------------------------
(* WireScheduler.Tick on the time-source thread. *)

\* Mutant of Valid: only the pending bit is looked at.
StillPending(r) == r.slot \in pending[r.owner]

\* The request has been neither aborted nor reset away, and its slot is pending.
Valid(r) ==
    /\ r.generation = resetGen[r.owner]
    /\ r.token = slotGen[r.owner][r.slot]
    /\ r.slot \in pending[r.owner]

\* The timer fires; the active request's closure makes its checks.
Fire ==
    /\ tick.pc = "idle" /\ enabled
    /\ \A c \in Hosted : cpu[c].pc = "rest"
    /\ tick' = [tick EXCEPT !.pc = IF active # Idle /\ Valid(active) THEN "load" ELSE "select"]
    /\ UNCHANGED <<controller, wire, cpu, history>>

TickStep(from, to) == tick.pc = from /\ tick' = to

LoadPending ==
    /\ TickStep("load", [pc |-> "release", old |-> pending[active.owner]])
    /\ UNCHANGED <<controller, wire, cpu, history>>

\* pacedPending is stored; pacedCompleted is loaded.
Release ==
    /\ TickStep("release", [pc |-> "complete", old |-> completed[active.owner]])
    /\ pending' = [pending EXCEPT ![active.owner] = Unset(tick.old, {active.slot})]
    /\ UNCHANGED <<completed, slotGen, resetGen, ram, init, held, wire, cpu, history>>

\* pacedCompleted is stored; the inner TXBAR sends what message RAM now holds, or,
\* in INIT, remembers this request and no other.
Complete ==
    LET c == active.owner
        s == active.slot
    IN  /\ TickStep("complete", [pc |-> "select", old |-> {}])
        /\ completed' = [completed EXCEPT ![c] = tick.old \cup {s}]
        /\ \/ /\ init[c]
              /\ held' = [held EXCEPT ![c] = {s}]
              /\ UNCHANGED sent
           \/ /\ ~init[c]
              /\ sent' = [sent EXCEPT ![c] = Append(@, ram[c][s].n)]
              /\ UNCHANGED held
        /\ UNCHANGED <<pending, slotGen, resetGen, ram, init, wire, cpu,
                       written, accepted, gone, stopped, uses>>

\* Mutant of IsHead: any queued slot of a controller may compete.
AnyQueued(k) == k \in 1 .. Len(queue)

\* Only the oldest queued request of a controller competes for the wire.
IsHead(k) == \A j \in 1 .. k - 1 : queue[j].owner # queue[k].owner

Heads == {k \in 1 .. Len(queue) : IsHead(k)}

Key(k) == WireArbitrationKey(queue[k].header)

\* Under the lock the lowest key wins, the earliest of equals.
Select ==
    /\ tick.pc = "select"
    /\ \/ \E k \in Heads :
            /\ \A j \in Heads : Key(k) < Key(j) \/ (Key(k) = Key(j) /\ k <= j)
            /\ active' = queue[k]
            /\ queue' = RemoveAt(queue, k)
            /\ tick' = AtIdle
       \/ /\ queue = <<>>
          /\ active' = Idle
          /\ tick' = [pc |-> "disable", old |-> {}]
          /\ UNCHANGED queue
    /\ UNCHANGED <<controller, enabled, cpu, history>>

Disable ==
    /\ TickStep("disable", [pc |-> "recheck", old |-> {}])
    /\ enabled' = FALSE
    /\ UNCHANGED <<controller, queue, active, cpu, history>>

\* Mutant of Rearm: the queue is not looked at again.
NoRearm == enabled

\* A request that was enqueued before the timer was stopped starts it again.
Rearm == enabled \/ queue # <<>>

Recheck ==
    /\ TickStep("recheck", AtIdle)
    /\ enabled' = Rearm
    /\ UNCHANGED <<controller, queue, active, cpu, history>>

-----------------------------------------------------------------------------
CpuStep(c) ==
    \/ AddCheck(c) \/ AddReserve(c) \/ AddEnqueue(c) \/ AddEnable(c)
    \/ CancelStore(c)

TickNext ==
    \/ Fire \/ LoadPending \/ Release \/ Complete
    \/ Select \/ Disable \/ Recheck

Firmware(c) ==
    \/ \E value \in (SUBSET Slots) \ {{}}, h \in Headers[c] : Request(c, value, h)
    \/ \E value \in (SUBSET Slots) \ {{}} : Cancel(c, value)
    \/ Stop(c) \/ Start(c) \/ Reset(c)

Next ==
    \/ \E c \in Controllers : Firmware(c) \/ CpuStep(c)
    \/ TickNext

Spec == Init /\ [][Next]_vars

\* A CPU finishes the register write it is in, and an enabled timer fires and
\* its handler runs to its end.
FairSpec ==
    /\ Spec
    /\ \A c \in Controllers : WF_vars(CpuStep(c))
    /\ WF_vars(TickNext)

-----------------------------------------------------------------------------
(* Properties. *)

\* The types of all variables.
TypeOK ==
    /\ pending \in [Controllers -> SUBSET Slots] /\ completed \in [Controllers -> SUBSET Slots]
    /\ slotGen \in [Controllers -> [Slots -> Nat]] /\ resetGen \in [Controllers -> Nat]
    /\ ram \in [Controllers -> [Slots -> [n : Nat, header : Header]]]
    /\ init \in [Controllers -> BOOLEAN] /\ held \in [Controllers -> SUBSET Slots]
    /\ cpu \in [Controllers -> [pc : {"rest", "add", "reserve", "enqueue", "enable", "abort"},
                                old : SUBSET Slots, todo : SUBSET Slots]]
    /\ queue \in Seq(WireRequest) /\ active \in WireRequest \cup {Idle} /\ enabled \in BOOLEAN
    /\ tick \in [pc : {"idle", "load", "release", "complete", "select", "disable", "recheck"},
                 old : SUBSET Slots]
    /\ written \in [Controllers -> Nat] /\ accepted \in [Controllers -> Seq(Nat)]
    /\ sent \in [Controllers -> Seq(Nat)] /\ gone \in [Controllers -> SUBSET Nat]
    /\ stopped \in [Controllers -> BOOLEAN]
    /\ uses \in [cancels : Nat, stops : Nat, resets : Nat]

\* No wake-up is lost between Enqueue and Tick (the comment in Enqueue): whenever
\* a request is queued or on the wire, the timer runs, or a thread that will look
\* at the queue or start the timer is on its way.
NoLostWakeup ==
    (queue # <<>> \/ active # Idle) =>
        \/ enabled
        \/ tick.pc = "recheck"
        \/ \E c \in Controllers : cpu[c].pc = "enable"

\* Pending host storage is bounded per controller and slot: the queue never has
\* two requests of one slot (Enqueue).
OneQueuedPerSlot ==
    \A j, k \in 1 .. Len(queue) :
        queue[j].owner = queue[k].owner /\ queue[j].slot = queue[k].slot => j = k

\* x is before y in q.
Before(q, x, y) == \E m, n \in DOMAIN q : m < n /\ q[m] = x /\ q[n] = y

\* What a hosted controller puts on the wire is a subsequence of what it
\* accepted: TX FIFO mode keeps the accepted order, no frame is sent twice, and no
\* obsolete request completes a frame that is not its own, whatever is aborted,
\* reused or reset, and whatever the other controllers race with.
SentInAcceptedOrder ==
    \A c \in Hosted :
        /\ Range(sent[c]) \subseteq Range(accepted[c])
        /\ \A j, k \in DOMAIN sent[c] : j < k =>
              sent[c][j] # sent[c][k] /\ Before(accepted[c], sent[c][j], sent[c][k])

\* The closure of a hosted controller is between its checks and its end.
InClosure(c) ==
    tick.pc \in {"load", "release", "complete"} /\ active.owner = c

\* A hosted controller that never stopped with work pending accounts for every
\* request it accepted: the frame is still in a slot that TXBRP shows pending,
\* was sent, or was aborted or reset away, and never two of these; a slot that
\* TXBTO shows transmitted had its frame sent.
AcceptedAccounted ==
    \A c \in Hosted : (~stopped[c] /\ cpu[c].pc = "rest" /\ ~InClosure(c)) =>
        LET out == Range(sent[c])
            waiting == {ram[c][s].n : s \in pending[c]}
        IN  /\ Range(accepted[c]) = out \cup waiting \cup gone[c]
            /\ out \cap waiting = {} /\ out \cap gone[c] = {} /\ waiting \cap gone[c] = {}
            /\ \A s \in completed[c] : ram[c][s].n \in out

\* Whenever the wire is free it goes to the head request that wins bitwise
\* arbitration, never past its controller's older request (Select): no head of
\* another controller with a dominant identifier is left behind.
ArbitrationWinner ==
    [][active' # active /\ active' # Idle =>
          /\ \A k \in Heads : ~Beats(queue[k].header, active'.header)
          /\ \A k \in 1 .. Len(queue) :
                queue[k].owner = active'.owner => queue[k] = active' \/
                    \E j \in 1 .. k - 1 : queue[j] = active']_vars

\* Every queued request gets the wire and leaves it: nothing stays queued for
\* ever behind a stopped timer.
WireDrains == (queue # <<>> \/ active # Idle) ~> (queue = <<>> /\ active = Idle)

\* docs/hardware-fidelity.md: "An aborted/reused slot cannot complete its
\* replacement from an obsolete request."  A request about to be completed is the
\* newest one accepted for its slot.
NoObsoleteCompletion ==
    tick.pc = "complete" =>
        LET n == ram[active.owner][active.slot].n
        IN  n # active.n => \A k \in 1 .. Len(accepted[active.owner]) : accepted[active.owner][k] # n

=============================================================================
