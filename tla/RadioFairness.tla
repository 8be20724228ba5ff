--------------------------- MODULE RadioFairness ---------------------------
(* The radio medium with a history of who overtook whom, to state that the  *)
(* round robin of Tick serves a waiting station before it serves the same   *)
(* other station twice.                                                      *)
EXTENDS RadioMedium

VARIABLE overtakers   \* stations served since i began to wait with a ready packet

fairVars == <<vars, overtakers>>

FairInit == Init /\ overtakers = [i \in Stations |-> {}]

\* The station whose burst this step starts, if it starts one.
Starting == IF active' # NoBurst /\ active' # active THEN {active'.sender} ELSE {}

Waiting(i) == Ready(i, clock')

Remember ==
    overtakers' = [i \in Stations |->
        IF i \in Starting \/ ~Waiting(i) THEN {} ELSE overtakers[i] \cup Starting]

HistoryNext == Next /\ Remember

\* Sender fairness (tests/radio-medium): nobody starts a second burst while some
\* station has been waiting with a ready packet since before his first.
FairTurns ==
    [][\A i \in Stations : Waiting(i) => Starting \cap overtakers[i] = {}]_fairVars
=============================================================================
