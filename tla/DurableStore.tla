---------------------------- MODULE DurableStore ----------------------------
(***************************************************************************)
(* What the router expects of its store across restarts.  The store is the *)
(* set of facts written to it.  What is saved is, each time, a state the   *)
(* whole store was in, never half of a handler's writes, and every save    *)
(* keeps what an earlier one had saved; a restart brings back the last     *)
(* save and nothing else.  How much time passes between a write and its    *)
(* save is not promised.  SnapshotStore is shown to implement this.        *)
(***************************************************************************)
CONSTANT Facts    \* what may be written

VARIABLES memory, \* what the running router sees
          states, \* the states memory was in since the last restart
          saved   \* what a restart brings back

vars == <<memory, states, saved>>

Init ==
  /\ memory = {}
  /\ states = {{}}
  /\ saved = {}

Write(fact) ==
  /\ memory' = memory \cup {fact}
  /\ states' = states \cup {memory'}
  /\ UNCHANGED saved

Save ==
  /\ \E s \in states : saved \subseteq s /\ saved' = s
  /\ UNCHANGED <<memory, states>>

Restart ==
  /\ memory' = saved
  /\ states' = {saved}
  /\ UNCHANGED saved

Next == (\E fact \in Facts : Write(fact)) \/ Save \/ Restart

Spec == Init /\ [][Next]_vars
=============================================================================
