---------------------------- MODULE MCSupervisor ----------------------------
(* Instances of BrowserSupervisor for TLC.                                 *)
EXTENDS BrowserSupervisor, TLC

CONSTANTS c1, c2, p1, p2, s1, s2, t1, t2

MCSymmetry == Permutations(Sessions) \cup Permutations(Threads) \cup Permutations(Conns)

(* All requests and a restart meet on the default Profile, or creation,    *)
(* close and shutdown meet the maintenance of a second Profile; the        *)
(* product of the two is left out.                                         *)
OneProfileInUse ==
  \A p \in Profiles \ {DefaultProfile} :
    /\ flock[p] = None
    /\ catalog[p] = "ready"
    /\ \A s \in Sessions : profileOf[s] # p

Maintenance ==
  /\ restarts = 0
  /\ released = {} /\ abandoned = {} /\ lapsed = {}
  /\ Cardinality(registered) <= 1
  /\ \A t \in Threads : op[t] \in {"open", "control", "close", "shutdown", None}

MCFocus == OneProfileInUse \/ Maintenance
=============================================================================
