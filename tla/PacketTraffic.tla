---------------------------- MODULE PacketTraffic ----------------------------
(* The synthetic SEDSNet traffic of traffic.rs over the bounded packet pool    *)
(* of core/pool.rs.                                                           *)
EXTENDS Integers, Sequences, SequencesExt

CONSTANT Header             \* bytes of a packet besides its payload

ASSUME HeaderAssumption == Header \in Nat

VARIABLES
    pool,                   \* bytes in use and the counters of PoolStats
    outstanding,            \* sizes of the packets queued for dispatch
    attempted, dispatched,  \* packets generated and packets released
    traffic                 \* "idle", "running", "done" or "failed"

trafficVars == <<pool, outstanding, attempted, dispatched, traffic>>

NewPool(capacity) ==
    [capacity |-> capacity, in_use |-> 0, high_water |-> 0, allocations |-> 0, failures |-> 0]

CanAllocate(p, bytes) == bytes <= p.capacity - p.in_use

Allocated(p, bytes) ==
    [p EXCEPT !.in_use = @ + bytes, !.allocations = @ + 1,
              !.high_water = Max({@, p.in_use + bytes})]

Released(p, bytes) == [p EXCEPT !.in_use = @ - bytes]

TrafficIdle ==
    /\ pool = NewPool(0)
    /\ outstanding = <<>>
    /\ attempted = 0 /\ dispatched = 0
    /\ traffic = "idle"

TrafficBegin(config, capacity) ==
    /\ traffic = "idle"
    /\ traffic' = IF config.max_payload > 0 /\ (config.immediate \/ config.queue_depth > 0)
                    THEN "running" ELSE "failed"
    /\ pool' = NewPool(capacity)
    /\ UNCHANGED <<outstanding, attempted, dispatched>>

\* Releasing more than is in use is a pool underflow and ends the run.
ReleaseInto(p, bytes) ==
    IF bytes <= p.in_use
      THEN pool' = Released(p, bytes) /\ dispatched' = dispatched + 1 /\ UNCHANGED traffic
      ELSE traffic' = "failed" /\ pool' = p /\ UNCHANGED dispatched

\* A packet finds room and leaves at once.
DispatchNow(config, bytes) ==
    /\ config.immediate /\ CanAllocate(pool, bytes)
    /\ ReleaseInto(Allocated(pool, bytes), bytes)
    /\ UNCHANGED outstanding

\* A packet finds room and joins the queue.
Enqueue(config, bytes) ==
    /\ ~config.immediate /\ CanAllocate(pool, bytes)
    /\ Len(outstanding) + 1 < config.queue_depth
    /\ pool' = Allocated(pool, bytes)
    /\ outstanding' = Append(outstanding, bytes)
    /\ UNCHANGED <<dispatched, traffic>>

\* A plausible bug: the size of the packet that came is released, not that of
\* the packet that left.
MutEnqueueAndDispatch(config, bytes) ==
    /\ ~config.immediate /\ CanAllocate(pool, bytes)
    /\ Len(outstanding) + 1 >= config.queue_depth
    /\ outstanding' = Tail(Append(outstanding, bytes))
    /\ ReleaseInto(Allocated(pool, bytes), bytes)

\* The queue is full with it: the oldest packet leaves.
EnqueueAndDispatch(config, bytes) ==
    /\ ~config.immediate /\ CanAllocate(pool, bytes)
    /\ Len(outstanding) + 1 >= config.queue_depth
    /\ LET queue == Append(outstanding, bytes)
       IN  /\ outstanding' = Tail(queue)
           /\ ReleaseInto(Allocated(pool, bytes), Head(queue))

\* No room: the packet is dropped and the oldest one makes room for the next.
Drop(bytes) ==
    /\ ~CanAllocate(pool, bytes)
    /\ LET full == [pool EXCEPT !.failures = @ + 1]
       IN  IF outstanding = <<>> THEN pool' = full /\ UNCHANGED <<outstanding, dispatched, traffic>>
           ELSE /\ outstanding' = Tail(outstanding)
                /\ ReleaseInto(full, Head(outstanding))

\* The generator's arithmetic only decides the payload: any size up to the limit.
Generate(config) ==
    /\ traffic = "running" /\ attempted < config.iterations
    /\ attempted' = attempted + 1
    /\ \E payload \in 0 .. config.max_payload - 1 :
          LET bytes == Header + payload
          IN  \/ DispatchNow(config, bytes)
              \/ Enqueue(config, bytes)
              \/ EnqueueAndDispatch(config, bytes)
              \/ Drop(bytes)

DrainOne(config) ==
    /\ traffic = "running" /\ attempted = config.iterations /\ outstanding # <<>>
    /\ outstanding' = Tail(outstanding)
    /\ ReleaseInto(pool, Head(outstanding))
    /\ UNCHANGED attempted

TrafficEnd(config) ==
    /\ traffic = "running" /\ attempted = config.iterations /\ outstanding = <<>>
    /\ traffic' = IF pool.in_use = 0 THEN "done" ELSE "failed"
    /\ UNCHANGED <<pool, outstanding, attempted, dispatched>>

TrafficStep(config) == Generate(config) \/ DrainOne(config) \/ TrafficEnd(config)

-----------------------------------------------------------------------------
(* Properties. *)

\* The bytes of the queued packets.
QueuedBytes ==
    LET sum[i \in 0 .. Len(outstanding)] == IF i = 0 THEN 0 ELSE sum[i - 1] + outstanding[i]
    IN  sum[Len(outstanding)]

\* Every packet is accounted for once, as queued, dispatched or dropped, and the
\* pool holds exactly the queued bytes at every moment; only a refused
\* configuration fails, so a run neither underflows the pool nor leaks from it.
PoolConserved ==
    /\ pool.in_use = QueuedBytes
    /\ pool.in_use <= pool.high_water /\ pool.high_water <= pool.capacity
    /\ pool.allocations = dispatched + Len(outstanding)
    /\ attempted = pool.allocations + pool.failures
    /\ traffic = "failed" => attempted = 0

=============================================================================
