---------------------------- MODULE MCVirtTimer ----------------------------
(* Two devices, each in the mode it chooses. *)
EXTENDS VirtTimer, TLC

CONSTANTS d1, d2

MCRequests == {<<1, TRUE>>, <<2, FALSE>>}
MCRatios   == {<<1, 1>>, <<2, 1>>}

Symmetry   == Permutations({d1, d2})

\* What an inactive timer was last set to is never read.
View == <<[i \in Slots |-> IF timer[i].active THEN timer[i]
                           ELSE [timer[i] EXCEPT !.timeToFire = 0, !.period = 0,
                                                 !.continuous = FALSE]],
          numTimers, slotOf, s, running, ratio, last_usec, outside, failed>>
=============================================================================
