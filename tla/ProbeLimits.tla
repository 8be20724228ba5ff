----------------------------- MODULE ProbeLimits -----------------------------
(* What execution.rs and bay.rs ask of the samples of a memory probe.          *)
EXTENDS Integers, Sequences, SequencesExt

CONSTANTS
    None,           \* a limit not configured, an outcome not reached
    WordMax         \* probe values and counters are taken modulo WordMax + 1

Floor(s) == Min({s[i] : i \in DOMAIN s})
Ceiling(s) == Max({s[i] : i \in DOMAIN s})

\* A leak lowers the whole envelope of the second half; a transient does not.
SustainedEndDrop(s) ==
    IF Len(s) < 2 THEN 0
    ELSE LET half  == Len(s) \div 2
             early == SubSeq(s, 1, half)
             late  == SubSeq(s, half + 1, Len(s))
         IN  Max({0, Min({Floor(early) - Floor(late), Ceiling(early) - Ceiling(late)})})

\* Counters wrap; a gain of half the range or more is a counter that went back.
CounterProgresses(s, gain) ==
    gain # None =>
        /\ Len(s) >= 2
        /\ \A i \in 1 .. Len(s) - 1 :
              LET advance == (s[i + 1] - s[i]) % (WordMax + 1)
              IN  advance >= gain /\ advance <= WordMax \div 2

\* From the warm-up on, and from the first value the firmware published.
Qualified(probe, samples, warmup) ==
    LET settled == SubSeq(samples, warmup + 1, Len(samples))
        nonzero == SelectInSeq(settled, LAMBDA v : v # 0)
    IN  IF ~probe.ignore_zeroes THEN settled
        ELSE IF nonzero = 0 THEN <<>> ELSE SubSeq(settled, nonzero, Len(settled))
=============================================================================
