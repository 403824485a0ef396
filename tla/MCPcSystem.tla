---------------------------- MODULE MCPcSystem ----------------------------
(* A small instance of PcSystem: timers of the local APIC and two devices. *)
EXTENDS PcSystem

CONSTANTS d1, d2

\* The lapic timer, which may be periodic, and one of the two others.
MCApicTimers == <<"lapic", "mwaitx">>
MCRequests == {<<0, FALSE>>, <<2, TRUE>>}

\* What an inactive slot and a slot nobody can reach hold is never read: two
\* states that differ only there behave alike.
View ==
    LET reachable(i) == i < numTimers \/ \E c \in Clients : handle[c] = i IN
    <<[i \in Slots |-> IF ~reachable(i) THEN UnusedSlot
                       ELSE IF timer[i].active THEN timer[i]
                       ELSE [timer[i] EXCEPT !.timeToFire = 0]],
      numTimers, clock, event, clients, life>>

\* The properties claim nothing after a start that panicked: the states it
\* leads to are checked and not explored further.
NoStartPanicked == ~aborted
=============================================================================
