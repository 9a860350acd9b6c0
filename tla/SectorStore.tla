----------------------------- MODULE SectorStore ------------------------------
(***************************************************************************)
(* What the flash translation layer promises to the upper layer while the  *)
(* numbers of its pages fit a uint16_t: a store of sectors, one call at a  *)
(* time.  A call that succeeds changes the contents of its sector at once, *)
(* a call that fails and the death of the process change nothing.  What    *)
(* has been stored since the process started can be read.                  *)
(***************************************************************************)
CONSTANTS
  Sector,   \* the sectors
  Payload,  \* their contents
  None      \* no contents

VARIABLES
  durable,  \* the contents of each sector
  view,     \* what reading gives, for the sectors that can be read
  pending,  \* the call in progress: a set of at most one
  sound     \* whether the promise still holds

vars == <<durable, view, pending, sound>>

Init ==
  /\ durable = [s \in Sector |-> None]
  /\ view = [s \in {} |-> None]
  /\ pending = {}
  /\ sound = TRUE

\* A sector cannot be read while it is being stored, nor after that failed.
Begin(s, v) ==
  /\ pending = {}
  /\ pending' = {[sector |-> s, payload |-> v]}
  /\ view' = [t \in DOMAIN view \ {s} |-> view[t]]
  /\ UNCHANGED durable

Commit(s, v) ==
  /\ [sector |-> s, payload |-> v] \in pending
  /\ durable' = [durable EXCEPT ![s] = v]
  /\ view' = [t \in DOMAIN view \cup {s} |-> IF t = s THEN v ELSE view[t]]
  /\ pending' = {}

Fail ==
  /\ pending # {}
  /\ pending' = {}
  /\ UNCHANGED <<durable, view>>

Crash ==
  /\ pending' = {}
  /\ view' = [s \in {} |-> None]
  /\ UNCHANGED durable

\* From here on nothing is promised.
Void ==
  /\ ~sound'
  /\ sound => pending # {}

Next ==
  \/ /\ UNCHANGED sound
     /\ \/ \E s \in Sector, v \in Payload : Begin(s, v) \/ Commit(s, v)
        \/ Fail \/ Crash
  \/ Void

Spec == Init /\ [][Next]_vars
=============================================================================
