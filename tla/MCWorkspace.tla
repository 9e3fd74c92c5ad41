------------------------------ MODULE MCWorkspace ------------------------------
(***************************************************************************)
(* One user who is there, one to come and the pilot's; enough requests for *)
(* each part of the API to race with itself, and a few for all of them.    *)
(***************************************************************************)
EXTENDS Workspace

CONSTANTS lead, pilot, newcomer, eLead, ePilot, n1

MCUsers == {lead, pilot, newcomer}
MCMembers == {lead, pilot}
MCStaff == {lead}
MCEmails == {eLead, ePilot}
MCEmailOf == [u \in {lead} |-> eLead]
MCSessionOf == [u \in {lead} |-> n1]

MCAllotments ==
  {[accounts |-> 5, context |-> 0, desk |-> 0],
   [accounts |-> 0, context |-> 5, desk |-> 0],
   [accounts |-> 0, context |-> 0, desk |-> 6],
   [accounts |-> 1, context |-> 0, desk |-> 4]}
===============================================================================
