----------------------------- MODULE PicoDiscovery ----------------------------
(***************************************************************************)
(* run_discovered of picofi_tcp_bridge.rs: how the Pico finds the ground    *)
(* station it keeps a TCP session with.  It asks with a fresh nonce, gathers *)
(* offers for a while, connects to the lowest identity, and asks again when  *)
(* the session is lost.  The datagrams in between may be lost, reordered,    *)
(* duplicated or arrive when they are of no use.  What a session carries is  *)
(* PicoEthernet; picofi_discovery_wire.rs is the wire.                       *)
(***************************************************************************)
EXTENDS Integers, FiniteSets

CONSTANTS
    None,
    Stations,       \* identities of ground stations; the lower is preferred
    Own,            \* the identity of this Pico
    Settle,         \* ticks between a query and the choice (400 ms)
    Period,         \* ticks between queries (1 s)
    Batch           \* datagrams read in one round of the loop (8)

CONSTANTS           \* bounds of the instance
    Nonces,         \* nonces run through 1..Nonces; the code has 2^64 - 1
    Restarts,       \* restarts of stations
    InFlight        \* offers on their way

\* Message: an offer as far as the loop tells offers apart.  One that does not
\* decode, or comes from another host, is not valid.
Message == [valid : BOOLEAN, party : {"ground", "pico"}, identity : Nat, port : Nat, nonce : Nat]

ASSUME DiscoveryAssumption ==
    /\ None \notin Nat \cup Message
    /\ Stations \subseteq Nat /\ Own \in Nat \ Stations
    /\ {Settle, Period, Batch, Nonces} \subseteq Nat \ {0} /\ Settle < Period

VARIABLES
    at,             \* "query", "receive", "settle", "serve" or "sleep"
    nonce,          \* of the next query
    query,          \* nonce of the query that offers must answer, or None
    next_query,     \* ticks until the next query
    settle,         \* ticks until the choice, or None
    best,           \* the best offer, or None
    reads,          \* datagrams read in this round
    session,        \* the offer that was connected to and whether it greeted, or None
    asked,          \* queries on their way: <<station, nonce>>
    offers,         \* datagrams on their way to the Pico
    station,        \* station -> whether it runs and accepts, and its TCP port
    restarts,       \* how many restarts there were
    calm,           \* the network and the stations fail no more
    seen            \* history: identities of compatible offers since the query

loop == <<at, nonce, query, next_query, settle, best, reads, session>>
world == <<asked, offers, station, restarts, calm>>
vars == <<loop, world, seen>>

-----------------------------------------------------------------------------
(* Which offers count.                                                        *)

Offer(valid, party, identity, port, answers) ==
    [valid |-> valid, party |-> party, identity |-> identity, port |-> port, nonce |-> answers]

\* A plausible bug: an offer need not answer the query that is open.
MutCompatibleOffer(o) ==
    /\ o.valid /\ o.party = "ground" /\ o.identity # Own
    /\ query # None

\* compatible_offer, and the loopback check
CompatibleOffer(o) ==
    /\ o.valid /\ o.party = "ground" /\ o.identity # Own
    /\ query # None /\ o.nonce = query

InWindow == settle # None /\ settle >= 0
Better(o) == best = None \/ o.identity < best.identity

NextNonce == IF nonce = Nonces THEN 1 ELSE nonce + 1

-----------------------------------------------------------------------------
(* One round of the loop.                                                     *)

\* A plausible bug: the time of the next query stays where it is.
MutRearm == settle' = Settle /\ UNCHANGED next_query

Rearm == settle' = Settle /\ next_query' = Period

Query ==
    /\ at = "query" /\ session = None /\ next_query <= 0
    /\ query' = nonce /\ nonce' = NextNonce
    /\ asked' = Stations \X {nonce}
    /\ offers' = {o \in offers : o.nonce # nonce}
    /\ best' = None /\ Rearm
    /\ seen' = {} /\ at' = "receive"
    /\ UNCHANGED <<reads, session, station, restarts, calm>>

NoQuery ==
    /\ at = "query"
    /\ session # None \/ next_query > 0
    /\ at' = IF session = None THEN "receive" ELSE "serve"
    /\ UNCHANGED <<nonce, query, next_query, settle, best, reads, session, world, seen>>

\* A datagram may come again.
Receive ==
    /\ at = "receive" /\ reads < Batch
    /\ \E o \in offers :
          /\ IF InWindow /\ CompatibleOffer(o)
               THEN /\ best' = IF Better(o) THEN o ELSE best
                    /\ seen' = seen \cup {o.identity}
               ELSE UNCHANGED <<best, seen>>
          /\ \/ offers' = offers \ {o}
             \/ ~calm /\ offers' = offers
    /\ reads' = reads + 1
    /\ UNCHANGED <<at, nonce, query, next_query, settle, session, asked, station, restarts, calm>>

Received ==
    /\ at = "receive" /\ (reads = Batch \/ offers = {})
    /\ at' = "settle" /\ reads' = 0
    /\ UNCHANGED <<nonce, query, next_query, settle, best, session, world, seen>>

Accepts(o) == station[o.identity].runs /\ station[o.identity].accepts /\ station[o.identity].port = o.port

Settled == settle # None /\ settle <= 0

\* The choice: connect to the best offer, if the station is still there.
Choose ==
    /\ at = "settle" /\ Settled
    /\ settle' = None /\ best' = None
    /\ session' = IF best # None /\ Accepts(best) THEN [offer |-> best, hello |-> FALSE] ELSE None
    /\ at' = "serve"
    /\ UNCHANGED <<nonce, query, next_query, reads, world, seen>>

NotSettled ==
    /\ at = "settle" /\ ~Settled
    /\ at' = "serve"
    /\ UNCHANGED <<nonce, query, next_query, settle, best, reads, session, world, seen>>

\* Session::service: the peer greets, or the session goes on.
Serve ==
    /\ at = "serve"
    /\ \/ session = None /\ UNCHANGED session
       \/ session # None /\ Accepts(session.offer) /\ session' = [session EXCEPT !.hello = TRUE]
    /\ at' = "sleep"
    /\ UNCHANGED <<nonce, query, next_query, settle, best, reads, world, seen>>

\* The session is over: discover again at once.
Lose ==
    /\ session' = None /\ query' = None /\ best' = None /\ settle' = None
    /\ next_query' = 0

\* The station has gone, or the session broke or timed out.
Disconnected ==
    /\ at = "serve" /\ session # None
    /\ ~Accepts(session.offer) \/ ~calm
    /\ Lose
    /\ at' = "sleep"
    /\ UNCHANGED <<nonce, reads, world, seen>>

Wake == at = "sleep" /\ at' = "query" /\ UNCHANGED <<nonce, query, next_query, settle, best, reads, session, world, seen>>

Loop == Query \/ NoQuery \/ Receive \/ Received \/ Choose \/ NotSettled \/ Serve \/ Disconnected \/ Wake

-----------------------------------------------------------------------------
(* Time, the network and the stations: external.                              *)

Less(ticks) == IF ticks > -1 THEN ticks - 1 ELSE ticks

\* Time passes while the loop sleeps or is slow. In calm, loopback datagrams and
\* a round of the loop take less than a tick.
Tick ==
    /\ at = "sleep"
    /\ calm => asked = {} /\ (session = None => offers = {})
    /\ at' = IF calm THEN "query" ELSE at
    /\ next_query' = Less(next_query)
    /\ settle' = IF settle = None THEN None ELSE Less(settle)
    /\ UNCHANGED <<nonce, query, best, reads, session, world, seen>>

Environment == UNCHANGED <<loop, seen>>

Answer ==
    \E a \in asked :
        /\ asked' = asked \ {a}
        /\ offers' = IF station[a[1]].runs
                       THEN offers \cup {Offer(TRUE, "ground", a[1], station[a[1]].port, a[2])}
                       ELSE offers
        /\ Cardinality(offers') <= InFlight
        /\ UNCHANGED <<station, restarts, calm>> /\ Environment

LoseDatagram ==
    /\ ~calm
    /\ \/ \E a \in asked : asked' = asked \ {a} /\ UNCHANGED offers
       \/ \E o \in offers : offers' = offers \ {o} /\ UNCHANGED asked
    /\ UNCHANGED <<station, restarts, calm>> /\ Environment

\* Another Pico's offer, an echo of the Pico's own identity, or a broken one.
Stray ==
    /\ ~calm /\ query # None /\ offers = {}
    /\ \E o \in {Offer(TRUE, "pico", 0, 1, query), Offer(TRUE, "ground", Own, 1, query),
                 Offer(FALSE, "ground", 0, 1, query)} : offers' = offers \cup {o}
    /\ UNCHANGED <<asked, station, restarts, calm>> /\ Environment

\* A station stops, or starts again on a new port; one may offer a port that it
\* does not accept on.
Restart ==
    /\ ~calm /\ restarts < Restarts
    /\ \E s \in Stations, runs, accepts \in BOOLEAN :
          station' = [station EXCEPT ![s] = [runs |-> runs, accepts |-> accepts, port |-> 1 + (@.port % 2)]]
    /\ restarts' = restarts + 1
    /\ UNCHANGED <<asked, offers, calm>> /\ Environment

CalmDown == ~calm /\ calm' = TRUE /\ UNCHANGED <<asked, offers, station, restarts>> /\ Environment

Next == Loop \/ Tick \/ Answer \/ LoseDatagram \/ Stray \/ Restart \/ CalmDown

Init ==
    /\ at = "query" /\ nonce = 1 /\ query = None /\ next_query = 0 /\ settle = None
    /\ best = None /\ reads = 0 /\ session = None
    /\ asked = {} /\ offers = {} /\ restarts = 0 /\ calm = FALSE /\ seen = {}
    /\ station = [s \in Stations |-> [runs |-> TRUE, accepts |-> TRUE, port |-> 1]]

Spec == Init /\ [][Next]_vars

\* The loop runs, time passes while it sleeps again and again, and in calm every
\* query reaches its station.
FairSpec ==
    /\ Spec
    /\ WF_vars(Loop) /\ SF_vars(calm /\ Tick) /\ WF_vars(calm /\ Answer)

-----------------------------------------------------------------------------
(* Properties.  *)

\* The types of what offers and sessions are made of.
TypeOK ==
    /\ nonce \in 1..Nonces
    /\ query \in Nat \cup {None}
    /\ best \in Message \cup {None}
    /\ session \in [offer : Message, hello : BOOLEAN] \cup {None}
    /\ asked \subseteq Stations \X Nat
    /\ offers \subseteq Message
    /\ station \in [Stations -> [runs : BOOLEAN, accepts : BOOLEAN, port : Nat]]
    /\ seen \subseteq Nat

\* Whatever is delayed, repeated or forged, and whichever stations restarted in
\* between, the Pico is connected to the lowest of the stations it heard answer
\* its latest query, and to no offer from before it (compatible_offer).
LatestQuery == IF nonce = 1 THEN Nonces ELSE nonce - 1

SessionFresh ==
    session # None =>
        /\ session.offer.nonce = LatestQuery /\ session.offer.identity \in seen
        /\ \A s \in seen : session.offer.identity <= s

\* Once the network is calm and the first station that answers accepts, the Pico
\* gets a session and keeps it, also after the one it had was lost
\* (discovery_bridge_finds_changed_host_port).
Answering == {s \in Stations : station[s].runs}
Findable == \E s \in Answering : station[s].accepts /\ \A t \in Answering : s <= t

Rediscovers == <>[](calm /\ Findable) => <>[](session # None /\ session.hello /\ Accepts(session.offer))
===============================================================================
