---------------------------- MODULE AgentRouting ----------------------------
(***************************************************************************)
(* The in-memory authority tables of the browser runtime                   *)
(* (packages/webfa-core/browser/session_routing.py): the registry of Agent *)
(* connections, the Profile grants, the Session write leases and the       *)
(* global tab/object routes.  Every table has its own lock, so each        *)
(* operation below is one atomic step on one table; the Supervisor, which  *)
(* composes them, holds no lock across two of them.                        *)
(*                                                                         *)
(* Abstractions.  A Session is minted together with its runtime generation *)
(* and never gets another one, so a member of Sessions stands for the      *)
(* pair.  A connection keeps one Agent identity for its whole life, so a   *)
(* member of Conns stands for both.  Every entry that carries an           *)
(* expires_at is dropped by an explicit expiry action: every reader of the *)
(* code discards an expired entry before it looks at it.                   *)
(***************************************************************************)
EXTENDS FiniteSets

CONSTANTS
  Conns,      \* Agent connections (MCP processes)
  Profiles,   \* persistent Browser Profiles
  Sessions,   \* Session identities, each used at most once
  None        \* absence of a value

ASSUME NoneAssumption == None \notin Conns \cup Profiles \cup Sessions

VARIABLES
  registered, \* connections with a context in the registry
  released,   \* connections that were released; they never come back
  current,    \* context.current_session_id
  leased,     \* context.leased_session_ids
  grants,     \* <<connection, profile>> pairs with an unexpired grant
  leases,     \* holder of each Session's write lease
  routes      \* Sessions whose public tab/object ids resolve

contexts == <<registered, released, current, leased>>
routingVars == <<registered, released, current, leased, grants, leases, routes>>

RoutingTypeOK ==
  /\ registered \in SUBSET Conns
  /\ released \in SUBSET Conns
  /\ current \in [Conns -> Sessions \cup {None}]
  /\ leased \in [Conns -> SUBSET Sessions]
  /\ grants \in SUBSET (Conns \X Profiles)
  /\ leases \in [Sessions -> Conns \cup {None}]
  /\ routes \in SUBSET Sessions

RoutingInit ==
  /\ registered = {}
  /\ released = {}
  /\ current = [c \in Conns |-> None]
  /\ leased = [c \in Conns |-> {}]
  /\ grants = {}
  /\ leases = [s \in Sessions |-> None]
  /\ routes = {}

-----------------------------------------------------------------------------
(* Connection registry.                                                    *)

GetOrCreate(c) ==
  /\ registered' = registered \cup {c}
  /\ UNCHANGED <<released, current, leased>>

BindContext(c, s) ==
  /\ current' = [current EXCEPT ![c] = s]
  /\ leased' = [leased EXCEPT ![c] = @ \cup {s}]
  /\ UNCHANGED <<registered, released>>

(* unbind_session visits only the contexts still in the registry.          *)
UnbindSession(s) ==
  LET hit == {c \in registered : s \in leased[c]}
  IN  /\ leased' = [c \in Conns |-> IF c \in hit THEN leased[c] \ {s} ELSE leased[c]]
      /\ current' = [c \in Conns |->
                       IF c \in hit /\ current[c] = s THEN None ELSE current[c]]
      /\ UNCHANGED <<registered, released>>

(* A released connection belongs to an MCP process that has ended.         *)
PopContext(c) ==
  /\ registered' = registered \ {c}
  /\ released' = released \cup {c}
  /\ UNCHANGED <<current, leased>>

(* _prune_locked: the next request of c starts from a fresh context.       *)
ContextExpires(c) ==
  /\ registered' = registered \ {c}
  /\ current' = [current EXCEPT ![c] = None]
  /\ leased' = [leased EXCEPT ![c] = {}]
  /\ UNCHANGED released

-----------------------------------------------------------------------------
(* Profile grants, keyed by (connection, profile).                         *)

AuthorizeGrant(c, p) == grants' = grants \cup {<<c, p>>}

HasGrant(c, p) == <<c, p>> \in grants

RevokeConnection(c) == grants' = {g \in grants : g[1] # c}

-----------------------------------------------------------------------------
(* Session write leases, keyed by Session.                                 *)

MUT_LeaseFree(s, c) == TRUE

LeaseFree(s, c) == leases[s] \in {None, c}

MUT_GrantLease(s, c) == leases' = [leases EXCEPT ![s] = s]

GrantLease(s, c) == leases' = [leases EXCEPT ![s] = c]

HoldsLease(s, c) == leases[s] = c

DropLease(s) == leases' = [leases EXCEPT ![s] = None]

DropLeasesOf(c) ==
  leases' = [s \in Sessions |-> IF leases[s] = c THEN None ELSE leases[s]]

-----------------------------------------------------------------------------
(* Global routes.                                                          *)

BindRoutes(s) == routes' = routes \cup {s}

InvalidateRoutes(s) == routes' = routes \ {s}

-----------------------------------------------------------------------------
(* Nothing of this survives the process, and the MCP processes that reach  *)
(* the new one bring their connection ids along.                           *)
RoutingLost ==
  /\ registered' = {}
  /\ current' = [c \in Conns |-> None]
  /\ leased' = [c \in Conns |-> {}]
  /\ grants' = {}
  /\ leases' = [s \in Sessions |-> None]
  /\ routes' = {}
  /\ UNCHANGED released
=============================================================================
