---------------------------- MODULE DaemonProofs ----------------------------
(***************************************************************************)
(* Proofs about Daemon, for any process ids and stop commands.             *)
(***************************************************************************)
EXTENDS Daemon, TLAPS

(* No action takes a variable out of its type.  The histories are Boolean   *)
(* and are treated apart.                                                   *)
HistOK == muddled \in BOOLEAN /\ unclean \in BOOLEAN

LEMMA HistStep ==
    ASSUME HistOK, [Next]_vars
    PROVE  HistOK'
<1>1. CASE UNCHANGED vars
  BY <1>1 DEF HistOK, vars, histVars
<1>2. ASSUME NEW p \in Pids, Start(p) \/ Fork(p)
      PROVE  HistOK'
  BY <1>2 DEF HistOK, Start, Fork
<1>3. ASSUME NEW p \in Pids, WriteFails(p) \/ Crash(p)
      PROVE  HistOK'
  BY <1>3 DEF HistOK, WriteFails, Crash, Die
<1>4. ASSUME NEW p \in Pids, Steps(p) \/ Arrive(p) \/ Respond(p) \/ Reap(p)
      PROVE  HistOK'
  BY <1>4 DEF HistOK, histVars, Steps, Open, Write, Notify, Bind, BindFails, Signalled,
              ServerError, Shutdown, Drained, Deadline, RemovePID, Arrive, Respond, Reap
<1>5. ASSUME NEW t \in Stoppers, ReadPID(t) \/ Terminate(t)
      PROVE  HistOK'
  BY <1>5 DEF HistOK, histVars, ReadPID, Terminate, Die
<1> QED BY <1>1, <1>2, <1>3, <1>4, <1>5 DEF Next

(* A process that is killed, or that ends, leaves every type in place. *)
LEMMA DieType ==
    ASSUME TypeOK, NEW p \in Pids, Die(p), target' \in [Stoppers -> Pids \cup {NoPid}]
    PROVE  TypeOK'
<1>1. HistOK'
  BY DEF TypeOK, HistOK, Die
<1> QED BY <1>1 DEF TypeOK, HistOK, Die, End, Goto, Agent

LEMMA TypeStep ==
    ASSUME TypeOK, [Next]_vars
    PROVE  TypeOK'
<1>0. HistOK'
  BY HistStep DEF TypeOK, HistOK
<1>1. CASE UNCHANGED vars
  BY <1>0, <1>1 DEF TypeOK, HistOK, Agent, vars, procVars, fileVars
<1>2. ASSUME NEW p \in Pids, Start(p) \/ Fork(p) \/ Reap(p)
      PROVE  TypeOK'
  BY <1>0, <1>2 DEF TypeOK, HistOK, Agent, Start, Fork, Reap, Goto, fileVars
<1>3. ASSUME NEW p \in Pids, Open(p) \/ Write(p) \/ Notify(p)
      PROVE  TypeOK'
  BY <1>0, <1>3 DEF TypeOK, HistOK, Agent, Open, Write, Notify, Goto, fileVars
<1>4. ASSUME NEW p \in Pids, Bind(p) \/ BindFails(p) \/ Arrive(p) \/ Respond(p)
      PROVE  TypeOK'
  BY <1>0, <1>4 DEF TypeOK, HistOK, Agent, Bind, BindFails, Arrive, Respond, fileVars
<1>5. ASSUME NEW p \in Pids, Signalled(p) \/ ServerError(p) \/ Shutdown(p) \/ Drained(p) \/ Deadline(p)
      PROVE  TypeOK'
  BY <1>0, <1>5 DEF TypeOK, HistOK, Agent, Signalled, ServerError, Shutdown, Drained,
                    Deadline, Goto, fileVars
<1>6. ASSUME NEW p \in Pids, RemovePID(p)
      PROVE  TypeOK'
  BY <1>0, <1>6 DEF TypeOK, HistOK, Agent, RemovePID, End, Goto
<1>7. ASSUME NEW p \in Pids, WriteFails(p) \/ Crash(p)
      PROVE  TypeOK'
  BY <1>7, DieType DEF WriteFails, Crash, TypeOK
<1>8. ASSUME NEW t \in Stoppers, ReadPID(t)
      PROVE  TypeOK'
  BY <1>0, <1>8 DEF TypeOK, HistOK, Agent, ReadPID, procVars, fileVars
<1>9. ASSUME NEW t \in Stoppers, Terminate(t)
      PROVE  TypeOK'
  <2> DEFINE p == target[t]
  <2>1. p \in Pids /\ target' \in [Stoppers -> Pids \cup {NoPid}]
    BY <1>9 DEF TypeOK, Terminate
  <2>2. CASE Die(p)
    BY <2>1, <2>2, DieType
  <2>3. CASE ~Die(p)
    BY <1>0, <1>9, <2>1, <2>3 DEF TypeOK, HistOK, Agent, Terminate, procVars, fileVars
  <2> QED BY <2>2, <2>3
<1> QED BY <1>1, <1>2, <1>3, <1>4, <1>5, <1>6, <1>7, <1>8, <1>9 DEF Next, Steps

(* Every variable of the agent's life stays within its type. *)
THEOREM TypeCorrect == Spec => []TypeOK
<1>1. Init => TypeOK
  <2>1. Init => HistOK
    BY DEF Init, HistOK
  <2> QED BY <2>1 DEF Init, TypeOK, HistOK, Agent
<1> QED BY <1>1, TypeStep, PTL DEF Spec
-----------------------------------------------------------------------------
(* The end of the one agent leaves the file to nobody.                      *)
LEMMA DieStep ==
    ASSUME TypeOK, OneAgent, NEW p \in Pids, Agent(p), Die(p)
    PROVE  OneAgent'
<1>1. \A q \in Pids : ~Agent(q)' /\ pc'[q] = "off" /\ pidfile' = pidfile /\ orphan' = {}
  BY DEF TypeOK, OneAgent, Die, End, Goto, Agent
<1>2. \A q \in Pids : life'[q] = "other" => life[q] = "other"
  BY DEF TypeOK, Die, End
<1>3. unclean'
  BY DEF Die
<1> QED BY <1>1, <1>2, <1>3 DEF OneAgent, Placed

(* With one agent at a time, the file holds its number from writePID to     *)
(* removePID, and never the number of another program.                      *)
LEMMA PidStep ==
    ASSUME TypeOK, PidInv, [Next]_vars
    PROVE  PidInv'
<1> SUFFICES ASSUME ~muddled'
             PROVE  OneAgent'
  BY DEF PidInv
<1>0. HistOK
  BY DEF TypeOK, HistOK
<1>1. CASE UNCHANGED vars
  BY <1>1 DEF PidInv, OneAgent, Placed, Agent, vars, procVars, fileVars, histVars
<1>2. ASSUME NEW p \in Pids, Start(p)
      PROVE  OneAgent'
  <2>1. OneAgent /\ \A q \in Pids : ~Agent(q)
    BY <1>2 DEF PidInv, Start
  <2>2. \A q \in Pids : pc[q] = "off"
    BY <2>1 DEF TypeOK
  <2> QED BY <1>2, <2>1, <2>2 DEF TypeOK, OneAgent, Placed, Start, Agent, Goto, fileVars
<1>3. ASSUME NEW p \in Pids, Open(p) \/ Write(p) \/ Notify(p)
      PROVE  OneAgent'
  <2>1. OneAgent /\ Agent(p)
    BY <1>3 DEF PidInv, TypeOK, Open, Write, Notify, histVars
  <2>2. \A q \in Pids : q # p => pc[q] = "off"
    BY <2>1 DEF OneAgent, TypeOK
  <2>3. CASE Open(p)
    BY <2>1, <2>2, <2>3, DaemonAssumption DEF TypeOK, OneAgent, Placed, Open, Agent, Goto
  <2>4. CASE Write(p)
    <3>1. pidfile' = p
      BY <2>1, <2>4 DEF OneAgent, Placed, Write
    <3> QED BY <2>1, <2>2, <2>4, <3>1 DEF TypeOK, OneAgent, Placed, Write, Agent, Goto
  <2>5. CASE Notify(p)
    BY <2>1, <2>2, <2>5 DEF TypeOK, OneAgent, Placed, Notify, Agent, Goto, fileVars, histVars
  <2> QED BY <1>3, <2>3, <2>4, <2>5
<1>4. ASSUME NEW p \in Pids, Bind(p) \/ BindFails(p) \/ Arrive(p) \/ Respond(p)
      PROVE  OneAgent'
  BY <1>4 DEF PidInv, OneAgent, Placed, Agent, Bind, BindFails, Arrive, Respond, fileVars,
              histVars
<1>5. ASSUME NEW p \in Pids, Signalled(p) \/ ServerError(p) \/ Shutdown(p) \/ Drained(p) \/ Deadline(p)
      PROVE  OneAgent'
  <2>1. /\ OneAgent /\ pc[p] \notin {"off", "open", "write"} /\ UNCHANGED <<life, pidfile, orphan, unclean>>
        /\ \E step \in {"shutdown", "remove", "drain"} : pc' = [pc EXCEPT ![p] = step]
    BY <1>5 DEF PidInv, Signalled, ServerError, Shutdown, Drained, Deadline, Goto, fileVars,
                histVars
  <2> QED BY <2>1 DEF TypeOK, OneAgent, Placed, Agent
<1>6. ASSUME NEW p \in Pids, RemovePID(p)
      PROVE  OneAgent'
  <2>1. OneAgent /\ Agent(p)
    BY <1>6 DEF PidInv, TypeOK, RemovePID, histVars
  <2>2. \A q \in Pids : q # p => pc[q] = "off"
    BY <2>1 DEF OneAgent, TypeOK
  <2>3. \A q \in Pids : pc'[q] = "off" /\ ~Agent(q)'
    BY <1>6, <2>1, <2>2 DEF TypeOK, RemovePID, End, Goto, Agent
  <2>4. pidfile' = Absent /\ orphan' = {}
    BY <1>6, <2>2 DEF RemovePID
  <2> QED BY <2>3, <2>4, DaemonAssumption DEF OneAgent, Placed
<1>7. ASSUME NEW p \in Pids, WriteFails(p) \/ Crash(p)
      PROVE  OneAgent'
  <2>1. OneAgent /\ Agent(p) /\ Die(p)
    BY <1>7 DEF PidInv, TypeOK, WriteFails, Crash, Die
  <2> QED BY <2>1, DieStep
<1>8. ASSUME NEW p \in Pids, Fork(p) \/ Reap(p)
      PROVE  OneAgent'
  <2>1. OneAgent /\ UNCHANGED <<pc, pidfile, orphan, unclean>>
    BY <1>8 DEF PidInv, Fork, Reap, fileVars, histVars
  <2>2. \A q \in Pids : Agent(q)' => Agent(q)
    BY <1>8 DEF TypeOK, Agent, Fork, Reap
  <2>3. \A q \in Pids : pidfile = q => life'[q] # "other"
    BY <1>8, <2>1 DEF TypeOK, OneAgent, Fork, Reap
  <2> QED BY <2>1, <2>2, <2>3 DEF OneAgent, Placed
<1>9. ASSUME NEW t \in Stoppers, ReadPID(t) \/ Terminate(t)
      PROVE  OneAgent'
  <2>1. OneAgent
    BY <1>9 DEF PidInv, ReadPID, Terminate, Die, histVars
  <2> DEFINE p == target[t]
  <2>2. CASE Agent(p) /\ Die(p) /\ p \in Pids
    BY <2>1, <2>2, DieStep
  <2>3. CASE ~(Agent(p) /\ Die(p) /\ p \in Pids)
    <3>1. UNCHANGED <<pc, pidfile, orphan, unclean>>
      BY <1>9, <2>3 DEF TypeOK, ReadPID, Terminate, procVars, fileVars, histVars
    <3>2. \A q \in Pids : life'[q] = life[q] \/ (life[q] = "other" /\ life'[q] = "free")
      BY <1>9, <2>3 DEF TypeOK, ReadPID, Terminate, procVars
    <3> QED BY <2>1, <3>1, <3>2 DEF OneAgent, Placed, Agent
  <2> QED BY <2>2, <2>3
<1> QED BY <1>1, <1>2, <1>3, <1>4, <1>5, <1>6, <1>7, <1>8, <1>9 DEF Next, Steps

LEMMA PidCorrect == Spec => []PidInv
<1>1. Init => PidInv
  BY DaemonAssumption DEF Init, PidInv, OneAgent, Placed, Agent
<1> QED BY <1>1, PidStep, TypeCorrect, PTL DEF Spec

(* agent status says whether an agent serves, in spite of kills, crashes    *)
(* and failures, as long as agents do not overlap and the number in the     *)
(* file is not given to another program.                                    *)
THEOREM StatusHolds == Spec => []StatusTrue
<1>1. TypeOK /\ PidInv => StatusTrue
  <2> SUFFICES ASSUME TypeOK, OneAgent, Settled
               PROVE  StatusRunning <=> \E p \in Pids : Agent(p)
    BY DEF PidInv, StatusTrue, StatusDescribes
  <2>1. ASSUME StatusRunning
        PROVE  \E p \in Pids : Agent(p)
    BY <2>1 DEF StatusRunning, TypeOK, OneAgent, Agent
  <2>2. ASSUME NEW p \in Pids, Agent(p)
        PROVE  StatusRunning
    BY <2>2 DEF StatusRunning, Settled, OneAgent, Placed, Agent
  <2> QED BY <2>1, <2>2
<1> QED BY <1>1, PidCorrect, TypeCorrect, PTL

(* Agents that end in order leave no PID file behind. *)
THEOREM LeavesNoFile == Spec => []CleanExit
<1>1. TypeOK /\ PidInv => CleanExit
  BY DEF TypeOK, PidInv, OneAgent, CleanExit
<1> QED BY <1>1, PidCorrect, TypeCorrect, PTL
=============================================================================
