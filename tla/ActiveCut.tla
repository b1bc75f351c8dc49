------------------------------- MODULE ActiveCut -------------------------------
(***************************************************************************)
(* What the refresh store promises its readers.  There is one current cut, *)
(* a value for every source, or no cut at all.  Publishing puts a whole    *)
(* new cut on top of the current one in one step; undoing returns to the   *)
(* cut the current one was put on.  A published cut is never edited.       *)
(***************************************************************************)
CONSTANTS Id,     \* the names cuts are published under
          Cut,    \* the values a cut may take
          NoId,   \* no cut is current
          NoCut   \* nothing is published under this name

VARIABLES current,   \* the name of the current cut, or NoId
          previous,  \* the name a published cut was put on
          cut        \* the value published under each name

vars == <<current, previous, cut>>

Init ==
  /\ current = NoId
  /\ previous = [i \in Id |-> NoId]
  /\ cut = [i \in Id |-> NoCut]

(* A new cut replaces the current one as a whole and remembers it. *)
Publish(i, value) ==
  /\ current' = i
  /\ previous' = [previous EXCEPT ![i] = current]
  /\ cut[i] = NoCut
  /\ cut' = [cut EXCEPT ![i] = value]

(* The last publication is taken back; what it published stays on record. *)
Undo ==
  /\ current # NoId
  /\ current' = previous[current]
  /\ UNCHANGED <<previous, cut>>

Next ==
  \/ \E i \in Id, value \in Cut : Publish(i, value)
  \/ Undo

Spec == Init /\ [][Next]_vars
================================================================================
