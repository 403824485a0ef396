----------------------------- MODULE TimerSpec -----------------------------
(***************************************************************************)
(* What a timer service promises: a clock, and for every slot the time at  *)
(* which it is due, if it is armed.  Time never passes a slot that is due: *)
(* the step that reaches the earliest deadline expires exactly the slots   *)
(* due then, their handlers are called one at a time in slot order, and    *)
(* the clock stands still until all of them have returned.                 *)
(***************************************************************************)
EXTENDS Integers

CONSTANTS Slots,    \* the timer slots, natural numbers
          Off,      \* the deadline of a slot that is not armed, negative
          Cancels   \* whether a slot can be disarmed after it has expired

VARIABLES now, deadline,
          expired,   \* the slots due now whose handlers are still to be called
          called     \* the slot whose handler is running, or Off

specVars == <<now, deadline, expired, called>>

Init ==
    /\ now = 0
    /\ DOMAIN deadline = Slots
    /\ \A s \in Slots : deadline[s] = Off \/ deadline[s] > 0
    /\ expired = {} /\ called = Off

\* Arms, rearms and disarms slots, which a handler may do as it returns; a slot
\* can only be made due in the future.
Program ==
    /\ \A s \in Slots : \/ deadline'[s] = deadline[s]
                        \/ deadline'[s] = Off
                        \/ deadline'[s] > now
    /\ DOMAIN deadline' = Slots
    /\ expired' = expired \/ (Cancels /\ expired' \subseteq expired)
    /\ called' \in {called, Off}
    /\ UNCHANGED now

Due(t) == {s \in Slots : deadline[s] = t}

\* Time passes, no further than the earliest deadline.
Elapse ==
    /\ expired = {} /\ called = Off
    /\ now' > now
    /\ \A s \in Slots : deadline[s] # Off => deadline[s] >= now'
    /\ expired' = Due(now')
    /\ \A s \in Slots : IF s \in expired'
                        THEN deadline'[s] = Off \/ deadline'[s] > now'
                        ELSE deadline'[s] = deadline[s]
    /\ DOMAIN deadline' = Slots
    /\ UNCHANGED called

\* The handler of the first expired slot is called, or the slot has none.
Deliver ==
    /\ called = Off
    /\ \E s \in expired : /\ \A r \in expired : s <= r
                          /\ expired' = expired \ {s}
                          /\ called' \in {s, Off}
    /\ UNCHANGED <<now, deadline>>

\* The machine is switched off or on: the clock starts again from zero.
Restart ==
    /\ now' = 0
    /\ expired' = {} /\ called' = Off
    /\ DOMAIN deadline' = Slots
    /\ \A s \in Slots : deadline'[s] = Off \/ deadline'[s] > 0

Next == Program \/ Elapse \/ Deliver \/ Restart

Spec == Init /\ [][Next]_specVars
=============================================================================
