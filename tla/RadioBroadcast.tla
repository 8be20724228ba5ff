--------------------------- MODULE RadioBroadcast ---------------------------
(***************************************************************************)
(* What the radio medium promises, without time, arbitration, packets or   *)
(* capacities: attachments write characters; one sender at a time puts a   *)
(* run of its oldest characters on the air; when the run ends every        *)
(* attachment that was present from its start to its end gains a prefix of *)
(* it, possibly nothing; what is gained is heard in order by that very     *)
(* attachment or, once it has left, by nobody.                             *)
(***************************************************************************)
EXTENDS Integers, Sequences

CONSTANTS Ids, Byte, MaxBurst, Silence

VARIABLES
    ever,      \* attachments that have existed
    present,   \* attachments now attached
    unsent,    \* accepted characters that have not left the sender
    inbox,     \* characters gained and not yet heard
    heard,     \* characters heard
    onAir      \* the burst on the air: sender, length, audience

abstractVars == <<ever, present, unsent, inbox, heard, onAir>>

Init ==
    /\ ever = {} /\ present = {} /\ onAir = Silence
    /\ unsent = [a \in Ids |-> <<>>]
    /\ inbox = [a \in Ids |-> <<>>]
    /\ heard = [a \in Ids |-> <<>>]

Join(a) ==
    /\ a \notin ever
    /\ ever' = ever \cup {a} /\ present' = present \cup {a}
    /\ UNCHANGED <<unsent, inbox, heard, onAir>>

\* A leaving sender takes its burst with it.
Leave(a) ==
    /\ a \in present
    /\ present' = present \ {a}
    /\ unsent' = [unsent EXCEPT ![a] = <<>>]
    /\ inbox' = [inbox EXCEPT ![a] = <<>>]
    /\ onAir' = IF onAir # Silence /\ onAir.src = a THEN Silence ELSE onAir
    /\ UNCHANGED <<ever, heard>>

Write(a) ==
    /\ a \in present
    /\ \E b \in Byte : b.src = a /\ unsent' = [unsent EXCEPT ![a] = Append(@, b)]
    /\ UNCHANGED <<ever, present, inbox, heard, onAir>>

\* The bursts that can be put on the air when queue is what is unsent.
Bursts(queue) ==
    {[src |-> a, len |-> n, audience |-> present \ {a}] :
        a \in {s \in present : queue[s] # <<>>}, n \in 1 .. MaxBurst}

Sendable(queue) == {b \in Bursts(queue) : b.len <= Len(queue[b.src])}

Start ==
    /\ onAir = Silence
    /\ onAir' \in Sendable(unsent)
    /\ UNCHANGED <<ever, present, unsent, inbox, heard>>

\* The burst ends, and the next one may begin at once.
Finish ==
    /\ onAir # Silence
    /\ unsent' = [unsent EXCEPT ![onAir.src] = SubSeq(@, onAir.len + 1, Len(@))]
    /\ \E gain \in [Ids -> 0 .. onAir.len] :
          inbox' = [a \in Ids |->
              IF a \in onAir.audience \cap present
              THEN inbox[a] \o SubSeq(unsent[onAir.src], 1, gain[a])
              ELSE inbox[a]]
    /\ onAir' \in Sendable(unsent') \cup {Silence}
    /\ UNCHANGED <<ever, present, heard>>

Hear(a) ==
    /\ a \in present /\ inbox[a] # <<>>
    /\ heard' = [heard EXCEPT ![a] = Append(@, Head(inbox[a]))]
    /\ inbox' = [inbox EXCEPT ![a] = Tail(@)]
    /\ UNCHANGED <<ever, present, unsent, onAir>>

Next ==
    \/ \E a \in Ids : Join(a) \/ Leave(a) \/ Write(a) \/ Hear(a)
    \/ Start
    \/ Finish

Spec == Init /\ [][Next]_abstractVars
=============================================================================
