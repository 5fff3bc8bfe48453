------------------------------- MODULE Uploads -------------------------------
(***************************************************************************)
(* What athenad promises of an upload that it has accepted: it waits, or   *)
(* one handler is working on it, until a handler ends it.  Only a handler  *)
(* moves it, and one that has ended stays so.  Only a restart of athenad   *)
(* changes more than one upload at a time: after it an accepted upload     *)
(* waits again, even when it had ended, or has ended.                      *)
(***************************************************************************)
EXTENDS Naturals

CONSTANT Ids

VARIABLES state, restarts

States == {"new", "waiting", "working", "ended"}

Init == state = [id \in Ids |-> "new"] /\ restarts = 0

Move(id, from, to) == state[id] = from /\ state' = [state EXCEPT ![id] = to]

Accept(id)   == Move(id, "new", "waiting")
Take(id)     == Move(id, "waiting", "working")
GiveBack(id) == Move(id, "working", "waiting")
End(id)      == Move(id, "working", "ended")

Restart ==
  /\ restarts' = restarts + 1
  /\ \E saved \in SUBSET {id \in Ids : state[id] # "new"} :
       state' = [id \in Ids |-> IF id \in saved THEN "waiting"
                                ELSE IF state[id] = "new" THEN "new" ELSE "ended"]

Next ==
  \/ Restart
  \/ /\ \E id \in Ids : Accept(id) \/ Take(id) \/ GiveBack(id) \/ End(id)
     /\ UNCHANGED restarts

Spec == Init /\ [][Next]_<<state, restarts>>
=============================================================================
