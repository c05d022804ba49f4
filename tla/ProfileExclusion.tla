-------------------------- MODULE ProfileExclusion --------------------------
(***************************************************************************)
(* What the Supervisor promises about a Profile and its user data           *)
(* directory: it has one holder at a time, a Session or a maintenance       *)
(* operation.  A Session takes its Profile once, before it can be used; it  *)
(* starts a browser only while it is in use; it leaves use with its browser *)
(* stopped or given up, gives its Profile back after that, and never comes  *)
(* back.  When the process dies every holder is forgotten and the browsers  *)
(* that ran are on their own.                                               *)
(***************************************************************************)
CONSTANTS Profiles, Sessions, Maint, None

VARIABLES
  holder,   \* who holds each Profile
  phase,    \* how far each Session is: new, claimed, used, gone
  running,  \* Sessions with a browser
  abandoned \* Sessions whose browser was given up while it ran

vars == <<holder, phase, running, abandoned>>

Init ==
  /\ holder = [p \in Profiles |-> None]
  /\ phase = [s \in Sessions |-> "new"]
  /\ running = {}
  /\ abandoned = {}

Take(p, s) ==
  /\ holder[p] = None /\ phase[s] = "new"
  /\ holder' = [holder EXCEPT ![p] = s]
  /\ phase' = [phase EXCEPT ![s] = "claimed"]
  /\ UNCHANGED <<running, abandoned>>

\* The Session could not be built.
Cancel(p, s) ==
  /\ holder[p] = s /\ phase[s] = "claimed"
  /\ holder' = [holder EXCEPT ![p] = None]
  /\ UNCHANGED <<phase, running, abandoned>>

Use(p, s) ==
  /\ holder[p] = s /\ phase[s] = "claimed"
  /\ phase' = [phase EXCEPT ![s] = "used"]
  /\ UNCHANGED <<holder, running, abandoned>>

Launch(p, s) ==
  /\ holder[p] = s /\ phase[s] = "used" /\ s \notin abandoned
  /\ running' = running \cup {s}
  /\ UNCHANGED <<holder, phase, abandoned>>

Owned == running \ abandoned

Stop(s) == running' = running \ {s} /\ UNCHANGED <<holder, phase, abandoned>>

\* Whoever retires the Session gives up on its browser.
Abandon(s) ==
  /\ phase[s] = "used" /\ s \in running
  /\ abandoned' = abandoned \cup {s}
  /\ UNCHANGED <<holder, phase, running>>

Retire(s) ==
  /\ phase[s] = "used" /\ s \notin Owned
  /\ phase' = [phase EXCEPT ![s] = "gone"]
  /\ UNCHANGED <<holder, running, abandoned>>

GiveBack(p, s) ==
  /\ holder[p] = s /\ phase[s] = "gone" /\ s \notin Owned
  /\ holder' = [holder EXCEPT ![p] = None]
  /\ UNCHANGED <<phase, running, abandoned>>

Maintain(p) ==
  /\ holder[p] = None /\ holder' = [holder EXCEPT ![p] = Maint]
  /\ UNCHANGED <<phase, running, abandoned>>

Maintained(p) ==
  /\ holder[p] = Maint /\ holder' = [holder EXCEPT ![p] = None]
  /\ UNCHANGED <<phase, running, abandoned>>

ProcessDies ==
  /\ holder' = [p \in Profiles |-> None]
  /\ phase' = [s \in Sessions |-> IF phase[s] = "used" THEN "gone" ELSE phase[s]]
  /\ abandoned' = abandoned \cup running
  /\ UNCHANGED running

Next ==
  \/ \E p \in Profiles, s \in Sessions :
       Take(p, s) \/ Cancel(p, s) \/ Use(p, s) \/ Launch(p, s) \/ GiveBack(p, s)
  \/ \E s \in Sessions : Stop(s) \/ Abandon(s) \/ Retire(s)
  \/ \E p \in Profiles : Maintain(p) \/ Maintained(p)
  \/ ProcessDies

Spec == Init /\ [][Next]_vars
=============================================================================
