---------------------------- MODULE DeviceFaults -----------------------------
(* The peripheral fault schedules of peripherals/models.rs: every period-th    *)
(* attempt fails and, past a limit, the device is gone.                        *)
EXTENDS Integers, Sequences

CONSTANTS
    NoSchedule,     \* failure_every or disconnect_after left out
    Supported       \* pairs <<kind, model>> with an instruction-coupled model

VARIABLES
    device,         \* index of the device being exercised
    attempt,        \* its reads so far
    counts,         \* its counters
    reports,        \* counters of the devices that are finished
    exercise        \* "idle", "running", "done" or "failed"

deviceVars == <<device, attempt, counts, reports, exercise>>

Kinds == {"imu", "barometer", "gps", "storage", "adc", "pressure_transducer"}

AdcBits(spec) == IF spec.bits = NoSchedule THEN 12 ELSE spec.bits

\* ranges_ok: coordinates, file system name, channel count and pressure range
\* are acceptable, each by itself.
DeviceValid(spec) ==
    /\ spec.kind \in Kinds
    /\ spec.position => spec.kind = "gps"
    /\ spec.ranges_ok
    /\ (spec.model = NoSchedule) <=> (spec.bus = NoSchedule)
    /\ spec.model # NoSchedule => <<spec.kind, spec.model>> \in Supported
    /\ spec.kind = "storage" /\ spec.capacity # NoSchedule =>
          spec.capacity >= 512 /\ spec.capacity % 512 = 0
    /\ spec.kind = "adc" => /\ AdcBits(spec) \in 1..24
                            /\ \A s \in spec.samples : s <= 2^AdcBits(spec) - 1

Gone(spec, n) == spec.disconnect_after # NoSchedule /\ n > spec.disconnect_after

Fails(spec, n) ==
    /\ spec.failure_every # NoSchedule /\ spec.failure_every > 0
    /\ n % spec.failure_every = 0

\* The closed forms the report is compared with.
ConnectedAttempts(spec, iterations) ==
    IF spec.disconnect_after # NoSchedule /\ spec.disconnect_after < iterations
      THEN spec.disconnect_after ELSE iterations

ExpectedErrors(spec, iterations) ==
    IF spec.failure_every # NoSchedule /\ spec.failure_every > 0
      THEN ConnectedAttempts(spec, iterations) \div spec.failure_every ELSE 0

ExpectedDisconnected(spec, iterations) == iterations - ConnectedAttempts(spec, iterations)

NoCounts == [reads |-> 0, errors |-> 0, disconnected |-> 0]

DevicesIdle ==
    /\ device = 1 /\ attempt = 0
    /\ counts = NoCounts /\ reports = <<>>
    /\ exercise = "idle"

\* Devices are exercised one after another; the first invalid one fails the run.
DeviceInvalid(specs) ==
    /\ exercise \in {"idle", "running"} /\ attempt = 0
    /\ device \in DOMAIN specs /\ ~DeviceValid(specs[device])
    /\ exercise' = "failed"
    /\ UNCHANGED <<device, attempt, counts, reports>>

DeviceRead(specs, iterations) ==
    /\ exercise \in {"idle", "running"} /\ device \in DOMAIN specs
    /\ DeviceValid(specs[device]) /\ attempt < iterations
    /\ exercise' = "running"
    /\ attempt' = attempt + 1
    /\ counts' = IF Gone(specs[device], attempt') THEN [counts EXCEPT !.disconnected = @ + 1]
                 ELSE IF Fails(specs[device], attempt') THEN [counts EXCEPT !.errors = @ + 1]
                 ELSE [counts EXCEPT !.reads = @ + 1]
    /\ UNCHANGED <<device, reports>>

FaultTestPassed(spec, c, iterations) ==
    /\ c.errors = ExpectedErrors(spec, iterations)
    /\ c.disconnected = ExpectedDisconnected(spec, iterations)

DeviceEnd(specs, iterations) ==
    /\ exercise = "running" /\ device \in DOMAIN specs /\ attempt = iterations
    /\ reports' = Append(reports,
          [counts |-> counts, passed |-> FaultTestPassed(specs[device], counts, iterations)])
    /\ device' = device + 1 /\ attempt' = 0 /\ counts' = NoCounts
    /\ UNCHANGED exercise

DevicesEnd(specs) ==
    /\ exercise \in {"idle", "running"} /\ device = Len(specs) + 1
    /\ exercise' = "done"
    /\ UNCHANGED <<device, attempt, counts, reports>>

DeviceStep(specs, iterations) ==
    \/ DeviceInvalid(specs) \/ DeviceRead(specs, iterations)
    \/ DeviceEnd(specs, iterations) \/ DevicesEnd(specs)
=============================================================================
