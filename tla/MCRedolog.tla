----------------------------- MODULE MCRedolog -----------------------------
(* Every sector of the base image holds something else, and everything else *)
(* again after the base image has been modified: first within the two      *)
(* seconds of a stamp, then after them.                                    *)
EXTENDS Redolog, TLC

CONSTANTS d1, d2

MCBase   == [t \in 2 .. 4 |-> [s \in Sectors |-> 10 * t + s]]

Symmetry == Permutations({d1, d2})

\* A block that no bitmap names and no write is about to name is never read;
\* what is read of an unfinished copy is anything, and stays in the copy.
Readable(f) ==
    IF f = None THEN None
    ELSE [f EXCEPT !.block = [p \in Extents |-> [b \in Blocks |->
              IF /\ f.copy = "whole"
                 /\ \/ b \in f.bitmap[p]
                    \/ pc = "write_bitmap" /\ p = page /\ b = extent_offset
              THEN f.block[p][b] ELSE Zero]]]

\* What a read returned is for its own step only.
View == <<Readable(file), mtime, latest, Readable(backup), saves, memory, pc, xfer, buf,
          update_catalog>>
=============================================================================
