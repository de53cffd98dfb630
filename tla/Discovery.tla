----------------------------- MODULE Discovery -----------------------------
EXTENDS Integers, Sequences

(***************************************************************************)
(* Discovery of agents on the LAN: Advertise and Browse of                 *)
(* internal/discovery/udp.go, "mingyue agent start" and "mingyue agent     *)
(* discover" of internal/cli/agent.go.  The clock is discrete: the agents  *)
(* send when their ticker is due, a packet arrives within MaxDelay, twice  *)
(* perhaps, or is lost, and the clock waits for what is due.               *)
(***************************************************************************)
CONSTANTS
    Agent,       \* the hosts an agent may run on
    Key,         \* Key[a]: the host name and address agent a advertises
    Interval,    \* advertiseInterval
    Timeouts,    \* the timeouts of those who browse
    MaxDelay,    \* ticks a packet may travel
    MaxLosses    \* bound on the packets of an agent lost during one browse

VARIABLES
    agent,    \* agent[a].at: "off", "on" (advertising), or "mute" (running, the dial
              \* failed); agent[a].due: ticks to its next packet
    air,      \* the packets on their way, with their age
    browse    \* the browse under way and, with through and lost, what happened since
              \* it opened: the agents that advertise all the time, the packets lost

dvars == <<agent, air, browse>>

ASSUME DiscoveryAssumption ==
    /\ DOMAIN Key = Agent
    /\ Interval \in Nat \ {0} /\ MaxDelay \in Nat /\ MaxLosses \in Nat
    /\ Timeouts \subseteq Nat

Off == [at |-> "off", due |-> 0]
NoBrowse == [at |-> "idle", timeout |-> 0, left |-> 0, results |-> <<>>,
             through |-> {}, lost |-> [a \in Agent |-> 0]]

Init ==
    /\ agent = [a \in Agent |-> Off]
    /\ air = {}
    /\ browse = NoBrowse
-----------------------------------------------------------------------------
(* "agent start" starts Advertise in a goroutine, whose first packet is due  *)
(* at once; when the dial fails Advertise returns and nothing calls it again.*)
Start(a) ==
    /\ agent[a].at = "off"
    /\ \E at \in {"on", "mute"} : agent' = [agent EXCEPT ![a] = [at |-> at, due |-> 0]]
    /\ UNCHANGED <<air, browse>>

(* The command returns, its agent having stopped or never served: advCancel. *)
Stop(a) ==
    /\ agent[a].at # "off"
    /\ agent' = [agent EXCEPT ![a] = Off]
    /\ browse' = [browse EXCEPT !.through = @ \ {a}]
    /\ UNCHANGED air

(* The first packet, and one at every tick of the ticker. *)
Rest_Backoff == 2 * Interval
Rest == Interval

Send(a) ==
    /\ agent[a] = [at |-> "on", due |-> 0]
    /\ agent' = [agent EXCEPT ![a].due = Rest]
    /\ air' = air \cup {[from |-> a, age |-> 0]}
    /\ UNCHANGED browse
-----------------------------------------------------------------------------
Listening == browse.at = "listening"

Open(timeout) ==
    /\ browse.at = "idle"
    /\ browse' = [NoBrowse EXCEPT !.at = "listening", !.timeout = timeout, !.left = timeout,
                      !.through = {a \in Agent : agent[a].at = "on"}]
    /\ UNCHANGED <<agent, air>>

(* A packet is collected unless its host name and address were seen.         *)
Seen == {Key[browse.results[k]] : k \in DOMAIN browse.results}

Collect(a) == IF Key[a] \in Seen THEN browse.results ELSE Append(browse.results, a)

(* The network: a packet is read when somebody listens; a copy may follow.   *)
Deliver(p) ==
    /\ \E copies \in {{}, {p}} : air' = (air \ {p}) \cup copies
    /\ browse' = IF Listening THEN [browse EXCEPT !.results = Collect(p.from)] ELSE browse
    /\ UNCHANGED agent

(* ... or it gets lost, in the network or because the write failed. *)
Lose(p) ==
    /\ Listening => browse.lost[p.from] < MaxLosses
    /\ air' = air \ {p}
    /\ browse' = IF Listening THEN [browse EXCEPT !.lost[p.from] = @ + 1] ELSE browse
    /\ UNCHANGED agent

(* The read deadline ends the browse; any other error of a read drops what   *)
(* was collected.                                                            *)
Close ==
    /\ Listening /\ browse.left = 0
    /\ browse' = [browse EXCEPT !.at = "listed"]
    /\ UNCHANGED <<agent, air>>

ReadError ==
    /\ Listening
    /\ browse' = [browse EXCEPT !.at = "failed", !.results = <<>>]
    /\ UNCHANGED <<agent, air>>

(* The agents are shown and the command ends. *)
Show ==
    /\ browse.at \in {"listed", "failed"}
    /\ browse' = NoBrowse
    /\ UNCHANGED <<agent, air>>
-----------------------------------------------------------------------------
Due == \/ \E a \in Agent : agent[a] = [at |-> "on", due |-> 0]
       \/ \E p \in air : p.age = MaxDelay
       \/ Listening /\ browse.left = 0

Tick ==
    /\ ~Due
    /\ agent' = [a \in Agent |-> [agent[a] EXCEPT !.due = IF @ = 0 THEN 0 ELSE @ - 1]]
    /\ air' = {[p EXCEPT !.age = @ + 1] : p \in air}
    /\ browse' = [browse EXCEPT !.left = IF Listening THEN @ - 1 ELSE @]
-----------------------------------------------------------------------------
Next ==
    \/ \E a \in Agent : Start(a) \/ Stop(a) \/ Send(a)
    \/ \E timeout \in Timeouts : Open(timeout)
    \/ \E p \in air : Deliver(p) \/ Lose(p)
    \/ Close \/ ReadError \/ Show
    \/ Tick

Spec == Init /\ [][Next]_dvars
-----------------------------------------------------------------------------
(* Every variable stays within its type. *)
TypeOK ==
    /\ agent \in [Agent -> [at : {"off", "on", "mute"}, due : 0 .. Rest]]
    /\ air \subseteq [from : Agent, age : 0 .. MaxDelay]
    /\ browse \in [at : {"idle", "listening", "listed", "failed"},
                   timeout : Nat, left : Nat, results : Seq(Agent),
                   through : SUBSET Agent, lost : [Agent -> 0 .. MaxLosses]]

(* Browse lists every name and address that an agent advertised all the      *)
(* time, once, when the timeout leaves room for one more packet than were    *)
(* lost of that agent: the repeated packet makes up for a lost one and for   *)
(* a browse that opened right after one, whoever starts and stops meanwhile. *)
HeardAlive ==
    browse.at = "listed" =>
       /\ \A a \in browse.through :
             browse.timeout > Interval * (browse.lost[a] + 1) + MaxDelay => Key[a] \in Seen
       /\ \A j, k \in DOMAIN browse.results :
             Key[browse.results[j]] = Key[browse.results[k]] => j = k
=============================================================================
