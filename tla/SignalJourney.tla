----------------------------- MODULE SignalJourney -----------------------------
(***************************************************************************)
(* What the pipeline promises of every signal: its data are completed one  *)
(* milestone after the other (normalized, classified, scored, embedded,    *)
(* synthesized), nothing once there is lost, and an event announces only   *)
(* what is already stored.                                                 *)
(***************************************************************************)
EXTENDS Naturals

CONSTANTS Signal

VARIABLES
  reached,  \* the milestones a signal's stored data have passed
  told      \* the milestones announced: pairs <<signal, milestone>>

Last == 5

Init ==
  /\ reached = [s \in Signal |-> 0]
  /\ told = {}

\* One transaction may complete the same milestone of several signals.
Reach ==
  /\ reached' \in [Signal -> 0..Last]
  /\ \E n \in 1..Last : \A s \in Signal :
       reached'[s] = reached[s] \/ (reached[s] = n - 1 /\ reached'[s] = n)
  /\ UNCHANGED told

\* An event leaves after what it announces is stored.
Announce ==
  /\ \E s \in Signal, n \in 1..Last :
       n <= reached[s] /\ told' = told \cup {<<s, n>>}
  /\ UNCHANGED reached

Next == Reach \/ Announce

Spec == Init /\ [][Next]_<<reached, told>>
=============================================================================
