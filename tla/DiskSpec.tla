------------------------------ MODULE DiskSpec ------------------------------
(***************************************************************************)
(* What a hard disk image promises the drive that uses it: a write changes *)
(* the one sector it is for, in one step, between its call and its return; *)
(* a read returns what the sector holds.  A crash loses at most the write  *)
(* that has not returned, and a snapshot is the whole disk at one moment.  *)
(*                                                                         *)
(* Two things it does not promise.  A snapshot is copied and so is the     *)
(* disk it is restored to: a crash meanwhile loses the copy, never what is *)
(* copied.  And a base image that is modified without a change of its      *)
(* stamp shows through where the disk was not written.                     *)
(***************************************************************************)
EXTENDS Naturals

CONSTANTS Sectors, Values, None,
          Lost,      \* the disk or snapshot whose copy was not finished
          StampOf    \* by modification time of the base image, its stamp

VARIABLES disk,      \* the contents of the sectors, or Lost
          pending,   \* the write in progress, or None
          out,       \* what the last step read, or None
          snapshot,  \* the disk at the last save, Lost or None
          copying,   \* "save", "restore" or "no"
          now        \* when the base image was last modified

specVars == <<disk, pending, out, snapshot, copying, now>>

Contents == [Sectors -> Values]

Init ==
    /\ disk \in Contents
    /\ pending = None
    /\ out = None
    /\ snapshot = None
    /\ copying = "no"
    /\ now \in DOMAIN StampOf

Ready == pending = None /\ copying = "no"

Read ==
    /\ Ready
    /\ \E s \in Sectors, v \in Values :
          /\ disk # Lost => v = disk[s]
          /\ out' = [sector |-> s, value |-> v]
    /\ UNCHANGED <<disk, pending, snapshot, copying, now>>

Call ==
    /\ Ready
    /\ \E s \in Sectors, v \in Values :
          pending' = [sector |-> s, value |-> v, done |-> FALSE]
    /\ out' = None
    /\ UNCHANGED <<disk, snapshot, copying, now>>

\* The write takes effect, once.
Commit ==
    /\ pending # None
    /\ ~pending.done
    /\ disk' = IF disk = Lost THEN Lost
               ELSE [disk EXCEPT ![pending.sector] = pending.value]
    /\ pending' = [pending EXCEPT !.done = TRUE]
    /\ out' = None
    /\ UNCHANGED <<snapshot, copying, now>>

Return ==
    /\ pending # None
    /\ pending.done
    /\ pending' = None
    /\ out' = None
    /\ UNCHANGED <<disk, snapshot, copying, now>>

\* The image is closed, or the process dies: what is on disk stays.
Drop ==
    /\ pending' = None
    /\ copying' = "no"
    /\ out' = None
    /\ UNCHANGED <<disk, snapshot, now>>

Save ==
    /\ Ready
    /\ copying' = "save"
    /\ snapshot' = Lost
    /\ out' = None
    /\ UNCHANGED <<disk, pending, now>>

Saved ==
    /\ copying = "save"
    /\ copying' = "no"
    /\ snapshot' = disk
    /\ UNCHANGED <<disk, pending, out, now>>

Restore ==
    /\ Ready
    /\ snapshot # None
    /\ copying' = "restore"
    /\ disk' = Lost
    /\ out' = None
    /\ UNCHANGED <<pending, snapshot, now>>

Restored ==
    /\ copying = "restore"
    /\ copying' = "no"
    /\ disk' = snapshot
    /\ UNCHANGED <<pending, out, snapshot, now>>

Modify ==
    /\ now' \in DOMAIN StampOf \ {now}
    /\ IF StampOf[now'] = StampOf[now]
       THEN /\ IF disk = Lost THEN disk' = Lost ELSE disk' \in Contents
            /\ IF snapshot \in {None, Lost} THEN snapshot' = snapshot
               ELSE snapshot' \in Contents
       ELSE UNCHANGED <<disk, snapshot>>
    /\ UNCHANGED <<pending, out, copying>>

Next == Read \/ Call \/ Commit \/ Return \/ Drop
        \/ Save \/ Saved \/ Restore \/ Restored \/ Modify

Spec == Init /\ [][Next]_specVars
=============================================================================
