------------------------------ MODULE Frontend ------------------------------
EXTENDS Discovery, Functions

(***************************************************************************)
(* The session of an administrator who finds the agents of the LAN (module *)
(* Discovery), chooses one and looks at the processes of its host (module  *)
(* Processes): "mingyue agent discover", then GET /api/v1/processes of the *)
(* agent found.  What the first part needs is not followed in the second.  *)
(***************************************************************************)
CONSTANTS MaxPid, MaxProcess, MaxInt, Pages, Limits, WalkLimits

VARIABLES
    part,                      \* "discover" or "look"
    table, born, list, walk    \* of the host chosen

hvars == <<table, born, list, walk>>
vars == <<part, dvars, hvars>>

Host == INSTANCE Processes

(* Pages, limits and the number of pids are ints; a client walks with a limit. *)
ASSUME FrontendAssumption ==
    /\ MaxPid \in Nat /\ MaxProcess \in Nat /\ MaxInt \in Nat
    /\ MaxPid <= MaxProcess /\ MaxPid <= MaxInt
    /\ Pages \subseteq -MaxInt - 1 .. MaxInt /\ Limits \subseteq -MaxInt - 1 .. MaxInt
    /\ WalkLimits \subseteq 1 .. MaxInt

FrontendInit ==
    /\ part = "discover"
    /\ Init
    /\ table = Host!Running({})
    /\ born = MaxPid
    /\ list = Host!Idle
    /\ walk = Host!NoWalk

(* An agent that was listed and still runs is asked, whatever its host runs. *)
Choose(a) ==
    /\ part = "discover" /\ browse.at = "listed"
    /\ a \in Range(browse.results)
    /\ agent[a].at # "off"
    /\ part' = "look"
    /\ table' \in {Host!Running(S) : S \in SUBSET Host!Pid}
    /\ agent' = [b \in Agent |-> Off] /\ air' = {} /\ browse' = NoBrowse
    /\ UNCHANGED <<born, list, walk>>

FrontendNext ==
    \/ part = "discover" /\ Next /\ UNCHANGED <<part, hvars>>
    \/ \E a \in Agent : Choose(a)
    \/ part = "look" /\ Host!Next /\ UNCHANGED <<part, dvars>>

FrontendSpec == FrontendInit /\ [][FrontendNext]_vars
-----------------------------------------------------------------------------
(* The pages of the process list are right: internal/service/process,        *)
(* Manager.List, whatever starts and exits while it works.                   *)
PagesRight == Host!PagesRight

(* A client that walks through all pages while no process exits misses none  *)
(* that was there all the time: GET /processes?limit=&page=.                 *)
WalkSees == Host!WalkSees
=============================================================================
