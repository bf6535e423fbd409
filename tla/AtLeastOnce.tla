----------------------------- MODULE AtLeastOnce -----------------------------
(***************************************************************************)
(* What the link promises its users while the process lives: an item that  *)
(* is handed over is pending until the other side has taken it, one item   *)
(* is pending at a time, and nobody is told that an item is done before    *)
(* it was taken.  The other side may take the pending item many times.     *)
(***************************************************************************)
CONSTANTS Items, Nothing

VARIABLES pending, taken, done

vars == <<pending, taken, done>>

Init == pending = Nothing /\ taken = {} /\ done = {}

HandOver(i) ==
  /\ pending = Nothing
  /\ pending' = i
  /\ UNCHANGED <<taken, done>>

Take ==
  /\ pending \in Items
  /\ taken' = taken \cup {pending}
  /\ UNCHANGED <<pending, done>>

\* The pending item is done; another one may follow at once.
Finish ==
  /\ pending \in taken
  /\ done' \in {done, done \cup {pending}}
  /\ pending' \in Items \cup {Nothing}
  /\ UNCHANGED taken

Next == Take \/ Finish \/ \E i \in Items : HandOver(i)

Spec == Init /\ [][Next]_vars
=============================================================================
