-------------------------- MODULE PicoDiscoveryProofs -------------------------
(* The Pico is never connected to a stale or a worse endpoint, for any set of  *)
(* stations, settle time, period and batch, any number of nonces, restarts and *)
(* datagrams on their way, and whatever is lost, repeated, delayed or forged.  *)
EXTENDS PicoDiscovery, TLAPS

\* An answer to the latest query, and none that was seen is better.
BestOf(o) ==
    /\ o.nonce = LatestQuery
    /\ o.identity \in seen
    /\ \A s \in seen : o.identity <= s

\* Until the choice, best is the minimum of what was seen since the query; after
\* it, nothing is seen before the next query. A session excludes both.
IInv ==
    /\ TypeOK
    /\ query # None => query = LatestQuery
    /\ at \in {"receive", "settle"} => session = None
    /\ best # None => BestOf(best)
    /\ settle # None /\ best = None => seen = {}
    /\ session # None => BestOf(session.offer)

\* What the loop decides by.
decisions == <<at, nonce, query, settle, best, session, seen>>

\* What the network and the stations do is invisible to the loop until it reads.
LEMMA WorldStep ==
    ASSUME IInv, UNCHANGED decisions,
           asked' \subseteq Stations \X Nat, offers' \subseteq Message,
           station' \in [Stations -> [runs : BOOLEAN, accepts : BOOLEAN, port : Nat]]
    PROVE  IInv'
BY DEF IInv, TypeOK, decisions, BestOf, LatestQuery

\* The nonce of the query that was just sent.
LEMMA QueryLatest ==
    ASSUME nonce \in 1..Nonces, nonce' = NextNonce
    PROVE  nonce' \in 1..Nonces /\ LatestQuery' = nonce
BY DiscoveryAssumption DEF NextNonce, LatestQuery

LEMMA QueryStep == ASSUME IInv, Query PROVE IInv'
<1>1. nonce' \in 1..Nonces /\ LatestQuery' = nonce
  BY QueryLatest DEF Query, IInv, TypeOK
<1>2. TypeOK'
  BY <1>1, DiscoveryAssumption DEF Query, IInv, TypeOK
<1> QED
  BY <1>1, <1>2 DEF Query, IInv

LEMMA ReceiveStep == ASSUME IInv, Receive PROVE IInv'
<1>1. PICK o \in offers :
        /\ IF InWindow /\ CompatibleOffer(o)
             THEN /\ best' = IF Better(o) THEN o ELSE best
                  /\ seen' = seen \cup {o.identity}
             ELSE UNCHANGED <<best, seen>>
        /\ \/ offers' = offers \ {o}
           \/ ~calm /\ offers' = offers
  BY DEF Receive
<1>2. /\ o \in Message /\ o.identity \in Nat /\ offers' \subseteq Message
      /\ session = None /\ UNCHANGED <<at, nonce, query, settle, session, asked, station>>
      /\ LatestQuery' = LatestQuery
  BY <1>1 DEF Receive, IInv, TypeOK, Message, LatestQuery
<1>3. CASE InWindow /\ CompatibleOffer(o)
  <2>1. o.nonce = LatestQuery /\ settle # None
    BY <1>3 DEF CompatibleOffer, InWindow, IInv
  <2>2. best' # None /\ best' \in Message
    BY <1>1, <1>2, <1>3, DiscoveryAssumption DEF Better, IInv, TypeOK
  <2>3. BestOf(best)'
    <3>1. CASE best = None
      <4>1. seen' = {o.identity} /\ best' = o
        BY <1>1, <1>3, <2>1, <3>1 DEF IInv, Better
      <4> QED
        BY <1>2, <2>1, <4>1 DEF BestOf
    <3>2. CASE best # None
      <4>1. BestOf(best) /\ best.identity \in Nat /\ seen \subseteq Nat
        BY <3>2 DEF IInv, TypeOK, Message
      <4>2. seen' = seen \cup {o.identity}
        BY <1>1, <1>3
      <4>3. CASE o.identity < best.identity
        <5>1. best' = o
          BY <1>1, <1>3, <4>3 DEF Better
        <5> QED
          BY <1>2, <2>1, <4>1, <4>2, <4>3, <5>1 DEF BestOf
      <4>4. CASE ~(o.identity < best.identity)
        <5>1. best' = best
          BY <1>1, <1>3, <3>2, <4>4 DEF Better
        <5> QED
          BY <1>2, <4>1, <4>2, <4>4, <5>1 DEF BestOf
      <4> QED
        BY <4>3, <4>4
    <3> QED
      BY <3>1, <3>2
  <2>4. TypeOK'
    BY <1>1, <1>2, <1>3, <2>2 DEF IInv, TypeOK
  <2> QED
    BY <1>2, <2>2, <2>3, <2>4 DEF IInv
<1>4. CASE ~(InWindow /\ CompatibleOffer(o))
  BY <1>1, <1>2, <1>4, WorldStep DEF decisions, IInv, TypeOK
<1> QED
  BY <1>3, <1>4

\* The choice hands the minimum over to the session.
LEMMA ChooseStep == ASSUME IInv, Choose PROVE IInv'
<1>1. /\ settle' = None /\ best' = None /\ at' = "serve"
      /\ \/ session' = None
         \/ best # None /\ session' = [offer |-> best, hello |-> FALSE]
      /\ UNCHANGED <<nonce, query, asked, offers, station, seen>>
  <2>1. \/ session' = None
        \/ best # None /\ session' = [offer |-> best, hello |-> FALSE]
    BY DEF Choose
  <2> QED
    BY <2>1 DEF Choose, world
<1>2. TypeOK'
  <2>1. best # None => [offer |-> best, hello |-> FALSE] \in [offer : Message, hello : BOOLEAN]
    BY DEF IInv, TypeOK
  <2>2. session' \in [offer : Message, hello : BOOLEAN] \cup {None}
    BY <1>1, <2>1
  <2> QED
    BY <1>1, <2>2 DEF IInv, TypeOK
<1>3. session' # None => BestOf(session.offer)'
  BY <1>1 DEF IInv, BestOf, LatestQuery
<1> QED
  BY <1>1, <1>2, <1>3 DEF IInv, LatestQuery

\* Serving a session keeps its endpoint.
LEMMA ServeStep == ASSUME IInv, Serve PROVE IInv'
<1>1. /\ at' = "sleep" /\ UNCHANGED <<nonce, query, settle, best, asked, offers, station, seen>>
  BY DEF Serve, world
<1>2. \/ session' = session
      \/ session # None /\ session' = [session EXCEPT !.hello = TRUE]
  BY DEF Serve
<1>3. session' # None => session # None /\ session'.offer = session.offer
  BY <1>2 DEF IInv, TypeOK
<1>4. TypeOK'
  BY <1>1, <1>2 DEF IInv, TypeOK
<1> QED
  BY <1>1, <1>3, <1>4 DEF IInv, BestOf, LatestQuery

LEMMA LoopStep == ASSUME IInv, Loop PROVE IInv'
<1>1. CASE Query
  BY <1>1, QueryStep
<1>2. CASE NoQuery
  BY <1>2 DEF NoQuery, IInv, TypeOK, world, BestOf, LatestQuery
<1>3. CASE Receive
  BY <1>3, ReceiveStep
<1>4. CASE Received
  BY <1>4 DEF Received, IInv, TypeOK, world, BestOf, LatestQuery
<1>5. CASE Choose
  BY <1>5, ChooseStep
<1>6. CASE NotSettled
  BY <1>6 DEF NotSettled, IInv, TypeOK, world, BestOf, LatestQuery
<1>7. CASE Serve
  BY <1>7, ServeStep
<1>8. CASE Disconnected
  BY <1>8 DEF Disconnected, Lose, IInv, TypeOK, world, BestOf, LatestQuery
<1>9. CASE Wake
  BY <1>9 DEF Wake, IInv, TypeOK, world, BestOf, LatestQuery
<1> QED
  BY <1>1, <1>2, <1>3, <1>4, <1>5, <1>6, <1>7, <1>8, <1>9 DEF Loop

LEMMA TickStep == ASSUME IInv, Tick PROVE IInv'
<1>1. settle' # None => settle # None
  BY DEF Tick
<1> QED
  BY <1>1 DEF Tick, IInv, TypeOK, world, BestOf, LatestQuery

\* The steps of the network and of the stations.
LEMMA EnvironmentStep ==
    ASSUME IInv, Answer \/ LoseDatagram \/ Stray \/ Restart \/ CalmDown
    PROVE  IInv'
<1>1. CASE Answer
  <2>1. PICK a \in asked : /\ asked' = asked \ {a}
                           /\ \/ offers' = offers
                              \/ offers' = offers \cup {Offer(TRUE, "ground", a[1], station[a[1]].port, a[2])}
                           /\ UNCHANGED <<station, decisions>>
    BY <1>1 DEF Answer, Environment, loop, decisions
  <2>2. a[1] \in Stations /\ a[1] \in Nat /\ a[2] \in Nat /\ station[a[1]].port \in Nat
    BY DiscoveryAssumption DEF IInv, TypeOK
  <2>3. Offer(TRUE, "ground", a[1], station[a[1]].port, a[2]) \in Message
    BY <2>2 DEF Offer, Message
  <2> QED
    BY <2>1, <2>3, WorldStep DEF IInv, TypeOK, decisions
<1>2. CASE LoseDatagram
  BY <1>2, WorldStep DEF LoseDatagram, Environment, loop, decisions, IInv, TypeOK
<1>3. CASE Stray
  <2>1. PICK o \in {Offer(TRUE, "pico", 0, 1, query), Offer(TRUE, "ground", Own, 1, query),
                    Offer(FALSE, "ground", 0, 1, query)} :
            query # None /\ offers' = offers \cup {o} /\ UNCHANGED <<asked, station, decisions>>
    BY <1>3 DEF Stray, Environment, loop, decisions
  <2>2. o \in Message
    <3>1. query \in Nat /\ Own \in Nat
      BY <2>1, DiscoveryAssumption DEF IInv, TypeOK
    <3>2. \A valid \in BOOLEAN, party \in {"ground", "pico"}, identity \in {0, Own} :
             Offer(valid, party, identity, 1, query) \in Message
      BY <3>1 DEF Offer, Message
    <3> QED
      BY <2>1, <3>2
  <2> QED
    BY <2>1, <2>2, WorldStep DEF IInv, TypeOK, decisions
<1>4. CASE Restart
  <2>1. PICK s \in Stations, runs, accepts \in BOOLEAN :
            /\ station' = [station EXCEPT ![s] = [runs |-> runs, accepts |-> accepts, port |-> 1 + (@.port % 2)]]
            /\ UNCHANGED <<asked, offers, decisions>>
    BY <1>4 DEF Restart, Environment, loop, decisions
  <2>2. 1 + (station[s].port % 2) \in Nat
    BY DEF IInv, TypeOK
  <2>3. station' \in [Stations -> [runs : BOOLEAN, accepts : BOOLEAN, port : Nat]]
    BY <2>1, <2>2 DEF IInv, TypeOK
  <2> QED
    BY <2>1, <2>3, WorldStep DEF IInv, TypeOK, decisions
<1>5. CASE CalmDown
  BY <1>5, WorldStep DEF CalmDown, Environment, loop, decisions, IInv, TypeOK
<1> QED
  BY <1>1, <1>2, <1>3, <1>4, <1>5

\* The invariant holds of every reachable state: what is remembered of the offers
\* is the best of those seen since the latest query (run_discovered).
THEOREM DiscoveryInvariance == Spec => []IInv
<1>1. Init => IInv
  BY DiscoveryAssumption DEF Init, IInv, TypeOK
<1>2. IInv /\ [Next]_vars => IInv'
  <2>1. IInv /\ UNCHANGED vars => IInv'
    BY WorldStep DEF vars, loop, world, decisions, IInv, TypeOK
  <2> QED
    BY <2>1, LoopStep, TickStep, EnvironmentStep DEF Next
<1> QED
  BY <1>1, <1>2, PTL DEF Spec

\* The Pico is connected to the lowest identity among the compatible answers to
\* its latest query (compatible_offer and the choice in run_discovered).
THEOREM SessionFreshKept == Spec => []SessionFresh
<1>1. IInv => SessionFresh
  BY DEF IInv, BestOf, SessionFresh
<1> QED
  BY <1>1, DiscoveryInvariance, PTL
=============================================================================
