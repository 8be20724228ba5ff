------------------------------ MODULE MCRadio ------------------------------
(* Three indexes.  Either all are attached for good and their stations       *)
(* contend for a saturated medium, or two are, and one of the two is replaced *)
(* while callbacks, bursts and deliveries of the old attachment are under way. *)
EXTENDS RadioFairness

CONSTANT CalmAt   \* from this time on no topology changes and nothing is late

\* The link whose availability changes.
OneWay == {<<0, 1>>}

\* As after so many calls of Attach.
AttachedInit(count) ==
    /\ clock = 0
    /\ att = [i \in Stations |-> IF i < count THEN i + 1 ELSE 0]
    /\ uart = [a \in Ids |-> IF a <= count THEN a ELSE 0]
    /\ home = [a \in Ids |-> IF a <= count THEN a - 1 ELSE 0]
    /\ nextId = count + 1
    /\ links = [p \in Stations \X Stations |-> p[1] # p[2]]
    /\ InitNodes /\ InitAir /\ InitCallbacks
    /\ overtakers = [i \in Stations |-> {}]

MCInit == AttachedInit(MaxNodes - 1) \/ AttachedInit(MaxNodes)

\* The last index stays empty where the others are replaced.
Spare == MaxNodes - 1
Hotplug == att[Spare] = 0
Unsettled == Hotplug /\ clock < CalmAt

\* Two bytes at most, and early, of a station that may be replaced.
Writes(a) == (Hotplug => offered[a] < 2 /\ clock <= 2) /\ Offer(a)

\* Settled machines run their callbacks and deliveries before the next tick but one.
Punctual == (\A a \in Ids : deferred[a] = <<>>) /\ (\A c \in calls : clock <= c.now)
MediumTick == (Unsettled \/ Punctual) /\ Tick

MCNext ==
    /\ \/ Unsettled /\ \E i \in Stations \ {Spare}, u \in Uarts \ {MaxUarts} : Attach(i, u)
       \/ Unsettled /\ \E i \in Stations : DetachFrom(i)
       \/ Unsettled /\ \E p \in Fading : SetLink(p)
       \/ \E a \in Ids : Writes(a)
       \/ \E c \in calls : Enqueue(c)
       \/ MediumTick
       \/ \E a \in Ids : Deliver(a)
    /\ Remember

MCSpec ==
    /\ MCInit /\ [][MCNext]_fairVars
    /\ WF_fairVars(MediumTick /\ Remember)
    /\ WF_fairVars(\E c \in calls : Enqueue(c) /\ Remember)
    /\ WF_fairVars(\E a \in Ids : Deliver(a) /\ Remember)
=============================================================================
