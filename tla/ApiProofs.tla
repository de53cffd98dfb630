----------------------------- MODULE ApiProofs -----------------------------
(***************************************************************************)
(* Proofs about Api, for any requests, handlers, commands and failures.    *)
(***************************************************************************)
EXTENDS Api, TLAPS

(* What is known of a worker by where it is: its request is the one asked   *)
(* under its number, through the door it came by, and it has a command left  *)
(* to try as long as it runs one.                                          *)
Working(w) ==
    /\ pc[w] # "idle" =>
          /\ req[w] \in Requests
          /\ id[w] \in DOMAIN asked
          /\ asked[id[w]] = req[w]
          /\ w \in Shells <=> req[w].role = "shell"
    /\ pc[w] \in {"run", "busy"} => tries[w] \in 1 .. 2

WorkInv == \A w \in Workers : Working(w)

(* The services, looked up. *)
LEMMA ServiceFacts ==
    ASSUME NEW op \in Op
    PROVE  /\ Services[op].commands \in 1 .. 2
           /\ Services[op].killed \in BOOLEAN
           /\ Services[op].recorded <=> op \notin {"user", "read"}
           /\ Services[op].silent => op \in Changing
<1>1. CASE op = "kill"
  <2>1. Services[op] = KillService
    BY <1>1 DEF Services, Op, Changing
  <2> QED BY <1>1, <2>1 DEF KillService, Service, Changing
<1>2. CASE op = "link"
  <2>1. Services[op] = LinkService
    BY <1>2 DEF Services, Op, Changing
  <2> QED BY <1>2, <2>1 DEF LinkService, Service, Changing
<1>3. CASE op = "dhcp"
  <2>1. Services[op] = DhcpService
    BY <1>3 DEF Services, Op, Changing
  <2> QED BY <1>3, <2>1 DEF DhcpService, Service, Changing
<1>4. CASE op = "acl"
  <2>1. Services[op] = AclService
    BY <1>4 DEF Services, Op, Changing
  <2> QED BY <1>4, <2>1 DEF AclService, Service, Changing
<1>5. CASE op = "power"
  <2>1. Services[op] = PowerService
    BY <1>5 DEF Services, Op, Changing
  <2> QED BY <1>5, <2>1 DEF PowerService, Service, Changing
<1>6. CASE op = "user"
  <2>1. Services[op] = UserService
    BY <1>6 DEF Services, Op, Changing
  <2> QED BY <1>6, <2>1 DEF UserService, Service, Changing
<1>7. CASE op = "mount"
  <2>1. Services[op] = MountService
    BY <1>7 DEF Services, Op, Changing
  <2> QED BY <1>7, <2>1 DEF MountService, Service, Changing
<1>8. CASE op = "share"
  <2>1. Services[op] = ShareService
    BY <1>8 DEF Services, Op, Changing
  <2> QED BY <1>8, <2>1 DEF ShareService, Service, Changing
<1>9. CASE op = "file"
  <2>1. Services[op] = FileService
    BY <1>9 DEF Services, Op, Changing
  <2> QED BY <1>9, <2>1 DEF FileService, Service, Changing
<1>10. CASE op = "read"
  <2>1. Services[op] = ReadService
    BY <1>10 DEF Services, Op, Changing
  <2> QED BY <1>10, <2>1 DEF ReadService, Service, Changing
<1> QED BY <1>1, <1>2, <1>3, <1>4, <1>5, <1>6, <1>7, <1>8, <1>9, <1>10 DEF Op, Changing

LEMMA RequestFacts ==
    ASSUME NEW r \in Requests
    PROVE  /\ r \in Request /\ r # NoRequest
           /\ r.op \in Op /\ r.target \in Targets
  BY ApiAssumption DEF Request

(* Numbers of requests stay what they were when another one comes. *)
LEMMA AppendFacts ==
    ASSUME NEW S, NEW s \in Seq(S), NEW e \in S
    PROVE  /\ Append(s, e) \in Seq(S)
           /\ Len(Append(s, e)) = Len(s) + 1
           /\ DOMAIN s \subseteq DOMAIN Append(s, e)
           /\ Len(s) + 1 \in DOMAIN Append(s, e)
           /\ DOMAIN Append(s, e) = DOMAIN s \cup {Len(s) + 1}
           /\ \A i \in DOMAIN s : Append(s, e)[i] = s[i]
           /\ Append(s, e)[Len(s) + 1] = e
           /\ Len(s) + 1 \notin DOMAIN s
           /\ DOMAIN s = 1 .. Len(s)
  OBVIOUS

-----------------------------------------------------------------------------
(* The types, variable by variable, so that a step on a worker's own state  *)
(* need not speak of the rest.                                              *)
TaskOK ==
    /\ pc \in [Workers -> PCs]
    /\ req \in [Workers -> Request \cup {NoRequest}]
    /\ id \in [Workers -> 0 .. MaxRequests]
    /\ tries \in [Workers -> 0 .. 2]
    /\ status \in [Workers -> Status]
    /\ left \in [Workers -> BOOLEAN]
AgentOK ==
    /\ phase \in {"serving", "draining", "returned", "closed", "exited"}
    /\ cut \in BOOLEAN
AskedOK == asked \in Seq(Requests) /\ Len(asked) <= MaxRequests
HostOK ==
    /\ host \in [Targets -> 0 .. MaxRequests]
    /\ stray \subseteq DOMAIN asked /\ made \subseteq DOMAIN asked
LogOK == log \in Seq(Record) /\ lost \subseteq DOMAIN asked
HistOK ==
    /\ partial \subseteq DOMAIN asked
    /\ told \subseteq Told /\ \A t \in told : t.id \in DOMAIN asked
    /\ met \subseteq Targets

LEMMA TypeParts == TypeOK <=> TaskOK /\ AgentOK /\ AskedOK /\ HostOK /\ LogOK /\ HistOK
  BY DEF TypeOK, TaskOK, AgentOK, AskedOK, HostOK, LogOK, HistOK

LEMMA DomainAsked == ASSUME AskedOK PROVE DOMAIN asked = 1 .. Len(asked) /\ DOMAIN asked \subseteq 1 .. MaxRequests
  BY ApiAssumption DEF AskedOK

(* The pieces that several actions share. *)
LEMMA WriteType ==
    ASSUME TypeOK, WorkInv, NEW w \in Workers, pc[w] # "idle",
           NEW l \in {"service", "http"}, NEW ok \in BOOLEAN, WriteRecord(w, l, ok), UNCHANGED asked
    PROVE  LogOK'
<1>1. id[w] \in DOMAIN asked /\ id[w] \in 1 .. MaxRequests
  BY DomainAsked, TypeParts DEF WorkInv, Working
<1>2. [id |-> id[w], layer |-> l, ok |-> ok] \in Record
  BY <1>1 DEF Record
<1>3. CASE log' = Append(log, [id |-> id[w], layer |-> l, ok |-> ok]) /\ UNCHANGED lost
  BY <1>2, <1>3, AppendFacts DEF LogOK, TypeOK
<1>4. CASE lost' = lost \cup {id[w]} /\ UNCHANGED log
  BY <1>1, <1>4 DEF LogOK, TypeOK
<1> QED BY <1>3, <1>4 DEF WriteRecord

LEMMA ChangeType ==
    ASSUME TypeOK, NEW i \in DOMAIN asked, ChangeHost(i), stray' \subseteq stray, UNCHANGED asked
    PROVE  HostOK'
<1>1. i \in 0 .. MaxRequests
  BY DomainAsked, TypeParts
<1> QED BY <1>1 DEF ChangeHost, HostOK, TypeOK

LEMMA DieType ==
    ASSUME TypeOK, WorkInv, NEW W \in SUBSET Workers, Die(W)
    PROVE  TaskOK' /\ HostOK' /\ LogOK' /\ HistOK' /\ AskedOK' /\ WorkInv'
<1>1. \A w \in W : ~Idle(w) => id[w] \in DOMAIN asked
  BY DEF WorkInv, Working, Idle
<1>2. TaskOK'
  BY DEF TypeOK, TaskOK, Die, Idle, PCs
<1>3. HostOK' /\ HistOK'
  BY <1>1 DEF TypeOK, HostOK, HistOK, Die
<1>4. LogOK' /\ AskedOK'
  BY DEF TypeOK, LogOK, AskedOK, Die, logVars
<1>5. WorkInv'
  BY DEF TypeOK, WorkInv, Working, Die
<1> QED BY <1>2, <1>3, <1>4, <1>5

LEMMA NextTryType ==
    ASSUME TypeOK, WorkInv, NEW w \in Workers, pc[w] \in {"run", "busy"}, NextTry(w),
           UNCHANGED <<req, id, left, asked>>
    PROVE  TaskOK' /\ WorkInv'
<1>1. tries[w] \in 1 .. 2 /\ tries[w] - 1 \in 0 .. 2 /\ (tries[w] > 1 => tries[w] - 1 \in 1 .. 2)
  BY DEF WorkInv, Working
<1>2. TaskOK'
  BY <1>1 DEF TypeOK, TaskOK, NextTry, Goto, PCs, Status
<1>3. \A v \in Workers : Working(v)'
  BY <1>1 DEF TypeOK, WorkInv, Working, NextTry, Goto
<1> QED BY <1>2, <1>3 DEF WorkInv

LEMMA AnswerType ==
    ASSUME TypeOK, WorkInv, NEW w \in Workers, pc[w] # "idle", NEW s \in Status, Answer(w, s),
           UNCHANGED <<req, id, tries, left, asked>>
    PROVE  TaskOK' /\ WorkInv'
<1>1. AfterService(w, s) \in {"log", "reply"}
  BY DEF AfterService
<1>2. TaskOK'
  BY <1>1 DEF TypeOK, TaskOK, Answer, Goto, PCs
<1>3. \A v \in Workers : Working(v)'
  BY <1>1 DEF TypeOK, WorkInv, Working, Answer, Goto
<1> QED BY <1>2, <1>3 DEF WorkInv

LEMMA GotoType ==
    ASSUME TypeOK, WorkInv, NEW w \in Workers, NEW step \in PCs, Goto(w, step),
           pc[w] # "idle", step \in {"run", "busy"} => pc[w] \in {"run", "busy"},
           UNCHANGED <<req, id, tries, left, asked>>,
           status' \in [Workers -> Status]
    PROVE  TaskOK' /\ WorkInv'
<1>1. TaskOK'
  BY DEF TypeOK, TaskOK, Goto
<1>2. \A v \in Workers : Working(v)'
  BY DEF TypeOK, WorkInv, Working, Goto
<1> QED BY <1>1, <1>2 DEF WorkInv

-----------------------------------------------------------------------------
(* A request comes: the number it gets is new. *)
LEMMA BeginType ==
    ASSUME TypeOK, WorkInv, NEW w \in Workers, NEW r \in Requests, Begin(w, r),
           w \in Shells <=> r.role = "shell"
    PROVE  TypeOK' /\ WorkInv'
<1>1. asked \in Seq(Requests) /\ asked' = Append(asked, r) /\ Len(asked) < MaxRequests
  BY DEF TypeOK, Begin
<1>2. /\ asked' \in Seq(Requests) /\ Len(asked') = Len(asked) + 1
      /\ DOMAIN asked \subseteq DOMAIN asked'
      /\ \A i \in DOMAIN asked : asked'[i] = asked[i]
      /\ Len(asked') \in DOMAIN asked' /\ asked'[Len(asked')] = r
      /\ Len(asked') \in 0 .. MaxRequests /\ Len(asked') <= MaxRequests
  BY <1>1, AppendFacts, ApiAssumption
<1>3. r \in Request /\ r # NoRequest /\ r.target \in Targets
  BY RequestFacts
<1>4. TaskOK'
  BY <1>2, <1>3 DEF TypeOK, TaskOK, Begin, Goto, PCs, Status
<1>5. AgentOK' /\ AskedOK'
  BY <1>2 DEF TypeOK, AgentOK, AskedOK, Begin, agentVars
<1>6. HostOK' /\ LogOK' /\ HistOK'
  BY <1>2, <1>3 DEF TypeOK, HostOK, LogOK, HistOK, Begin, hostVars, logVars
<1>7. \A v \in Workers : Working(v)'
  <2> TAKE v \in Workers
  <2>1. CASE v = w
    BY <1>2, <2>1 DEF TypeOK, Working, Begin, Goto
  <2>2. CASE v # w
    BY <1>2, <2>2 DEF TypeOK, WorkInv, Working, Begin, Goto
  <2> QED BY <2>1, <2>2
<1> QED BY <1>4, <1>5, <1>6, <1>7, TypeParts DEF TypeOK, TaskOK, AgentOK, AskedOK, HostOK, LogOK, HistOK, WorkInv

(* The steps of a worker on its request. *)
LEMMA ServeType ==
    ASSUME TypeOK, WorkInv, NEW w \in Workers, Serve(w)
    PROVE  TypeOK' /\ WorkInv'
<1>0. TypeOK' <=> TaskOK' /\ AgentOK' /\ AskedOK' /\ HostOK' /\ LogOK' /\ HistOK'
  BY DEF TypeOK, TaskOK, AgentOK, AskedOK, HostOK, LogOK, HistOK
<1>1. AgentOK' /\ AskedOK' /\ UNCHANGED asked
  <2>1. UNCHANGED agentVars /\ UNCHANGED asked
    BY DEF Serve, Admit, Start, Works, NotStarted, Fails, Missing, RecordAttempt, LogRequest,
           Reply, histVars
  <2> QED BY <2>1 DEF TypeOK, AgentOK, AskedOK, agentVars
<1>2. UNCHANGED logVars => LogOK'
  BY <1>1 DEF TypeOK, LogOK, logVars, AskedOK
<1>3. UNCHANGED hostVars /\ UNCHANGED asked => HostOK'
  BY DEF TypeOK, HostOK, hostVars
<1>4. UNCHANGED histVars => HistOK'
  BY DEF TypeOK, HistOK, histVars
<1>5. pc[w] # "idle" => req[w] \in Requests /\ req[w].op \in Op /\ id[w] \in DOMAIN asked
                        /\ id[w] \in 1 .. MaxRequests
  BY RequestFacts, DomainAsked, TypeParts DEF WorkInv, Working
<1>6. CASE Admit(w)
  <2>1. CASE Refuses(req[w])
    BY <1>0, <1>1, <1>3, <1>4, <1>6, <2>1, AnswerType DEF Admit, Refusal, Status, histVars, TypeOK, LogOK, logVars
  <2>2. CASE ~Refuses(req[w])
    <3>1. Serves(w).commands \in 1 .. 2
      BY <1>5, <1>6, ServiceFacts DEF Admit, Serves
    <3>2. TaskOK'
      <4>1. /\ tries' = [tries EXCEPT ![w] = Serves(w).commands]
            /\ pc' = [pc EXCEPT ![w] = "run"]
            /\ UNCHANGED <<req, id, left, status>>
        BY <1>6, <2>2 DEF Admit, Goto
      <4>2. tries' \in [Workers -> 0 .. 2]
        BY <3>1, <4>1 DEF TypeOK
      <4>3. pc' \in [Workers -> PCs]
        BY <4>1 DEF TypeOK, PCs
      <4> QED BY <4>1, <4>2, <4>3 DEF TypeOK, TaskOK
    <3>3. \A v \in Workers : Working(v)'
      BY <1>6, <2>2, <3>1 DEF TypeOK, WorkInv, Working, Admit, Goto, histVars
    <3> QED BY <1>0, <1>1, <1>3, <1>4, <1>6, <3>2, <3>3 DEF Admit, WorkInv, histVars, TypeOK, LogOK, logVars
  <2> QED BY <2>1, <2>2
<1>7. CASE Start(w)
  BY <1>0, <1>1, <1>3, <1>4, <1>7, GotoType DEF Start, PCs, histVars, TypeOK, LogOK, logVars
<1>8. CASE Works(w)
  <2>1. TaskOK' /\ WorkInv'
    BY <1>8, GotoType DEF Works, PCs, histVars, Status, TypeOK
  <2>2. HostOK'
    BY <1>5, <1>8, ChangeType DEF Works, histVars, TypeOK, HostOK
  <2> QED BY <1>0, <1>1, <1>4, <1>8, <2>1, <2>2 DEF Works, histVars, TypeOK, LogOK, logVars
<1>9. CASE NotStarted(w)
  BY <1>0, <1>1, <1>3, <1>4, <1>9, NextTryType DEF NotStarted, histVars, TypeOK, LogOK, logVars
<1>10. CASE Fails(w)
  <2>1. TaskOK' /\ WorkInv'
    BY <1>10, NextTryType DEF Fails
  <2>2. HostOK'
    BY <1>5, <1>10, ChangeType DEF Fails, TypeOK, HostOK
  <2>3. HistOK' /\ LogOK'
    BY <1>5, <1>10 DEF Fails, TypeOK, HistOK, LogOK, logVars
  <2> QED BY <1>0, <1>1, <2>1, <2>2, <2>3
<1>11. CASE Missing(w)
  BY <1>0, <1>1, <1>3, <1>4, <1>11, AnswerType DEF Missing, Status, histVars, TypeOK, LogOK, logVars
<1>12. CASE RecordAttempt(w)
  <2>1. AfterService(w, status[w]) \in {"log", "reply"}
    BY DEF AfterService
  <2>2. TaskOK' /\ WorkInv'
    BY <1>12, <2>1, GotoType DEF RecordAttempt, PCs, histVars, TypeOK
  <2>3. LogOK'
    BY <1>12, WriteType DEF RecordAttempt, histVars, TypeOK, LogOK, logVars
  <2> QED BY <1>0, <1>1, <1>3, <1>4, <1>12, <2>2, <2>3 DEF RecordAttempt, histVars
<1>13. CASE LogRequest(w)
  <2>1. TaskOK' /\ WorkInv'
    BY <1>13, GotoType DEF LogRequest, PCs, histVars, TypeOK
  <2>2. LogOK'
    <3>1. Seen(w) \in BOOLEAN
      BY DEF Seen, Good
    <3> QED BY <1>13, <3>1, WriteType DEF LogRequest, histVars
  <2> QED BY <1>0, <1>1, <1>3, <1>4, <1>13, <2>1, <2>2 DEF LogRequest, histVars
<1>14. CASE Reply(w)
  <2>1. TaskOK'
    BY <1>14 DEF TypeOK, TaskOK, Reply, Goto, PCs
  <2>2. \A v \in Workers : Working(v)'
    BY <1>14 DEF TypeOK, WorkInv, Working, Reply, Goto
  <2>3. [id |-> id[w], status |-> status[w]] \in Told
    BY <1>5, <1>14 DEF Reply, Told, TypeOK
  <2>4. HistOK'
    BY <1>5, <1>14, <2>3 DEF Reply, TypeOK, HistOK
  <2> QED BY <1>0, <1>1, <1>3, <1>14, <2>1, <2>2, <2>4 DEF Reply, WorkInv, TypeOK, LogOK, logVars
<1> QED BY <1>6, <1>7, <1>8, <1>9, <1>10, <1>11, <1>12, <1>13, <1>14 DEF Serve

(* Ends of contexts, of processes, of commands and of the agent. *)
LEMMA EndType ==
    ASSUME TypeOK, WorkInv,
           \/ \E w \in Workers : Leave(w) \/ ShellDies(w)
           \/ \E i \in stray : StrayWorks(i) \/ StrayFails(i)
           \/ Signal \/ Return \/ Deadline \/ ServeFails \/ CloseLog \/ Exit \/ Crash
    PROVE  TypeOK' /\ WorkInv'
<1>0. TypeOK' <=> TaskOK' /\ AgentOK' /\ AskedOK' /\ HostOK' /\ LogOK' /\ HistOK'
  BY DEF TypeOK, TaskOK, AgentOK, AskedOK, HostOK, LogOK, HistOK
<1>1. ASSUME NEW w \in Workers, Leave(w)
      PROVE  TypeOK' /\ WorkInv'
  <2>1. TaskOK'
    BY <1>1 DEF TypeOK, TaskOK, Leave
  <2>2. \A v \in Workers : Working(v)'
    BY <1>1 DEF WorkInv, Working, Leave, histVars
  <2> QED BY <1>0, <1>1, <2>1, <2>2 DEF Leave, WorkInv, TypeOK, AgentOK, AskedOK, HostOK, LogOK, HistOK,
             agentVars, hostVars, logVars, histVars
<1>2. ASSUME NEW w \in Workers, ShellDies(w)
      PROVE  TypeOK' /\ WorkInv'
  BY <1>0, <1>2, DieType DEF ShellDies, TypeOK, AgentOK, agentVars
<1>3. Exit \/ Crash => TypeOK' /\ WorkInv'
  BY <1>0, DieType DEF Exit, Crash, TypeOK, AgentOK, Workers
<1>4. ASSUME NEW i \in stray, StrayWorks(i) \/ StrayFails(i)
      PROVE  TypeOK' /\ WorkInv'
  <2>1. i \in DOMAIN asked
    BY DEF TypeOK
  <2>2. HostOK'
    BY <1>4, <2>1, ChangeType DEF StrayWorks, StrayFails, TypeOK, HostOK, histVars
  <2>3. UNCHANGED <<agentVars, taskVars, logVars, histVars>>
    BY <1>4 DEF StrayWorks, StrayFails
  <2> QED BY <1>0, <2>2, <2>3 DEF TypeOK, TaskOK, AgentOK, AskedOK, LogOK, HistOK, WorkInv, Working,
             agentVars, taskVars, logVars, histVars
<1>5. ASSUME Signal \/ Return \/ Deadline \/ ServeFails \/ CloseLog
      PROVE  TypeOK' /\ WorkInv'
  <2>1. UNCHANGED <<taskVars, hostVars, logVars, histVars>> /\ AgentOK'
    BY <1>5 DEF Signal, Return, Deadline, ServeFails, CloseLog, TypeOK, AgentOK
  <2> QED BY <1>0, <2>1 DEF TypeOK, TaskOK, AskedOK, HostOK, LogOK, HistOK, WorkInv, Working,
             taskVars, hostVars, logVars, histVars
<1> QED BY <1>1, <1>2, <1>3, <1>4, <1>5

LEMMA TypeInit == Init => TypeOK /\ WorkInv
<1> SUFFICES ASSUME Init PROVE TypeOK /\ WorkInv
  OBVIOUS
<1>1. TaskOK /\ AgentOK
  <2>1. 0 \in 0 .. MaxRequests
    BY ApiAssumption
  <2>2. id \in [Workers -> 0 .. MaxRequests] /\ tries \in [Workers -> 0 .. 2]
    BY <2>1 DEF Init
  <2>3. /\ pc \in [Workers -> PCs] /\ req \in [Workers -> Request \cup {NoRequest}]
        /\ status \in [Workers -> Status] /\ left \in [Workers -> BOOLEAN]
    BY DEF Init, PCs, Status
  <2> QED BY <2>2, <2>3 DEF Init, TaskOK, AgentOK
<1>2. AskedOK /\ HostOK /\ LogOK /\ HistOK
  BY ApiAssumption DEF Init, AskedOK, HostOK, LogOK, HistOK
<1>3. WorkInv
  BY DEF Init, WorkInv, Working
<1> QED BY <1>1, <1>2, <1>3, TypeParts

LEMMA TypeStep ==
    ASSUME TypeOK, WorkInv, [Next]_vars
    PROVE  TypeOK' /\ WorkInv'
<1>1. CASE UNCHANGED vars
  BY <1>1 DEF TypeOK, WorkInv, Working, vars, agentVars, taskVars, hostVars, logVars, histVars
<1>2. ASSUME NEW w \in Workers, NEW r \in Requests, Arrive(w, r) \/ Invoke(w, r)
      PROVE  TypeOK' /\ WorkInv'
  <2>1. w \in Shells <=> r.role = "shell"
    BY <1>2, ApiAssumption DEF Arrive, Invoke
  <2> QED BY <1>2, <2>1, BeginType DEF Arrive, Invoke
<1> QED BY <1>1, <1>2, ServeType, EndType DEF Next

(* Every variable of a request's way stays within its type.                *)
THEOREM TypeCorrect == Spec => []TypeOK
<1>1. TypeOK /\ WorkInv /\ [Next]_vars => TypeOK' /\ WorkInv'
  BY TypeStep
<1> QED BY <1>1, TypeInit, PTL DEF Spec

-----------------------------------------------------------------------------
(* What has been admitted has been checked, and everything that changes the *)
(* host or is answered with success has been admitted.                      *)
AuthInv ==
    /\ \A i \in made \cup stray : ~Refuses(asked[i])
    /\ \A t \in told : t.status = "ok" => ~Refuses(asked[t.id])
    /\ \A w \in Workers :
          /\ pc[w] \in {"run", "busy", "record"} => ~Refuses(req[w])
          /\ pc[w] # "idle" /\ status[w] = "ok" => ~Refuses(req[w])

LEMMA AdmittedPermitted ==
    ASSUME NEW r \in Request, ~Refuses(r)
    PROVE  r.role \in Permitted(r.op)
<1>1. r.op \in Op /\ r.role \in {"none", "viewer", "operator", "admin", "shell"}
  BY DEF Request, RoleOrder
<1>2. HasRole(r.role, Needs(r.op))
  BY DEF Refuses
<1>3. CASE r.op = "read"
  <2>1. Needs(r.op) = "viewer"
    BY <1>3 DEF Needs
  <2> QED BY <1>1, <1>2, <1>3, <2>1 DEF HasRole, RoleOrder, Permitted
<1>4. CASE r.op \in {"link", "dhcp"}
  <2>1. Needs(r.op) = "admin"
    BY <1>4 DEF Needs, NetworkRole
  <2> QED BY <1>1, <1>2, <1>4, <2>1 DEF HasRole, RoleOrder, Permitted
<1>5. CASE r.op \in {"kill", "acl", "power", "user", "mount", "share", "file"}
  <2>1. Needs(r.op) = "operator"
    BY <1>5 DEF Needs, ProcessRole, AclRole, PowerRole, UserRole, MountRole
  <2> QED BY <1>1, <1>2, <1>5, <2>1 DEF HasRole, RoleOrder, Permitted
<1> QED BY <1>1, <1>3, <1>4, <1>5 DEF Op, Changing

(* A step of a worker that leaves the requests asked in place. *)
LEMMA AuthServe ==
    ASSUME TypeOK, WorkInv, AuthInv, NEW w \in Workers, Serve(w)
    PROVE  AuthInv'
<1>1. pc[w] # "idle" => asked[id[w]] = req[w]
  BY DEF WorkInv, Working
<1>2. CASE Admit(w)
  <2>1. UNCHANGED <<made, stray, told, asked, req>>
    BY <1>2 DEF Admit, hostVars, histVars
  <2>2. CASE Refuses(req[w])
    BY <1>2, <2>1, <2>2 DEF Admit, Refusal, Answer, AfterService, Goto, AuthInv, TypeOK
  <2>3. CASE ~Refuses(req[w])
    BY <1>2, <2>1, <2>3 DEF Admit, Goto, AuthInv, TypeOK
  <2> QED BY <2>2, <2>3
<1>3. CASE Start(w)
  BY <1>3 DEF Start, Goto, AuthInv, TypeOK, hostVars, histVars
<1>4. CASE Works(w)
  <2>1. ~Refuses(asked[id[w]]) /\ made' \subseteq made \cup {id[w]}
        /\ UNCHANGED <<stray, told, asked, req>>
    BY <1>1, <1>4 DEF Works, AuthInv, ChangeHost, histVars
  <2> QED BY <1>1, <1>4, <2>1 DEF Works, Goto, AuthInv, TypeOK
<1>5. CASE NotStarted(w)
  BY <1>5 DEF NotStarted, NextTry, Goto, AuthInv, TypeOK, hostVars, histVars
<1>6. CASE Fails(w)
  <2>1. ~Refuses(asked[id[w]]) /\ made' \subseteq made \cup {id[w]}
        /\ UNCHANGED <<stray, told, asked, req>>
    BY <1>1, <1>6 DEF Fails, AuthInv, ChangeHost
  <2> QED BY <1>1, <1>6, <2>1 DEF Fails, NextTry, Goto, AuthInv, TypeOK
<1>7. CASE Missing(w)
  BY <1>7 DEF Missing, Answer, AfterService, Goto, AuthInv, TypeOK, hostVars, histVars
<1>8. CASE RecordAttempt(w)
  BY <1>8 DEF RecordAttempt, AfterService, Goto, AuthInv, TypeOK, hostVars, histVars
<1>9. CASE LogRequest(w)
  BY <1>9 DEF LogRequest, Goto, AuthInv, TypeOK, hostVars, histVars
<1>10. CASE Reply(w)
  <2>1. UNCHANGED <<made, stray, asked, status>>
    BY <1>10 DEF Reply, hostVars
  <2>2. \A t \in told' : t.status = "ok" => ~Refuses(asked[t.id])
    BY <1>1, <1>10 DEF Reply, AuthInv
  <2>3. \A v \in Workers : pc'[v] # "idle" => v # w /\ pc'[v] = pc[v] /\ req'[v] = req[v]
    BY <1>10 DEF Reply, Goto, TypeOK
  <2> QED BY <2>1, <2>2, <2>3 DEF AuthInv
<1> QED BY <1>2, <1>3, <1>4, <1>5, <1>6, <1>7, <1>8, <1>9, <1>10 DEF Serve

LEMMA AuthDie ==
    ASSUME TypeOK, WorkInv, AuthInv, NEW W \in SUBSET Workers, Die(W)
    PROVE  AuthInv'
<1>1. \A w \in W : pc[w] = "busy" => ~Refuses(asked[id[w]])
  BY DEF WorkInv, Working, AuthInv
<1> QED BY <1>1 DEF Die, Idle, AuthInv, TypeOK

LEMMA AuthStep ==
    ASSUME TypeOK, WorkInv, AuthInv, [Next]_vars
    PROVE  AuthInv'
<1>1. CASE UNCHANGED vars
  BY <1>1 DEF AuthInv, vars, agentVars, taskVars, hostVars, logVars, histVars
<1>2. ASSUME NEW w \in Workers, NEW r \in Requests, Begin(w, r)
      PROVE  AuthInv'
  <2>1. asked \in Seq(Requests) /\ asked' = Append(asked, r)
    BY <1>2 DEF TypeOK, Begin
  <2>2. \A i \in DOMAIN asked : asked'[i] = asked[i]
    BY <2>1, AppendFacts
  <2> QED BY <1>2, <2>2 DEF Begin, Goto, AuthInv, TypeOK, hostVars
<1>3. ASSUME NEW w \in Workers, Leave(w)
      PROVE  AuthInv'
  BY <1>3 DEF Leave, AuthInv, hostVars, histVars
<1>4. ASSUME NEW w \in Workers, ShellDies(w)
      PROVE  AuthInv'
  BY <1>4, AuthDie DEF ShellDies
<1>5. Exit \/ Crash => AuthInv'
  BY AuthDie DEF Exit, Crash, Workers
<1>6. ASSUME NEW i \in stray, StrayWorks(i) \/ StrayFails(i)
      PROVE  AuthInv'
  <2>1. made' \cup stray' \subseteq made \cup stray
    BY <1>6 DEF StrayWorks, StrayFails, ChangeHost
  <2> QED BY <1>6, <2>1 DEF StrayWorks, StrayFails, AuthInv, taskVars, histVars
<1>7. ASSUME Signal \/ Return \/ Deadline \/ ServeFails \/ CloseLog
      PROVE  AuthInv'
  BY <1>7 DEF Signal, Return, Deadline, ServeFails, CloseLog, AuthInv, taskVars, hostVars, histVars
<1> QED BY <1>1, <1>2, <1>3, <1>4, <1>5, <1>6, <1>7, AuthServe DEF Next, Arrive, Invoke

(* The host is changed, and something read, only for someone the contract   *)
(* permits it, whoever dies, leaves or fails meanwhile.                     *)
THEOREM AuthorizedOnly == Spec => []OnlyAuthorized
<1>1. Init => AuthInv
  BY DEF Init, AuthInv
<1>2. TypeOK /\ WorkInv /\ AuthInv /\ [Next]_vars => (TypeOK /\ WorkInv /\ AuthInv)'
  BY TypeStep, AuthStep
<1>3. TypeOK /\ AuthInv => OnlyAuthorized
  <2> SUFFICES ASSUME TypeOK, AuthInv PROVE OnlyAuthorized
    OBVIOUS
  <2>1. \A i \in DOMAIN asked : asked[i] \in Request
    BY ApiAssumption DEF TypeOK
  <2> QED BY <2>1, AdmittedPermitted DEF TypeOK, AuthInv, OnlyAuthorized
<1> QED BY <1>1, <1>2, <1>3, TypeInit, PTL DEF Spec
-----------------------------------------------------------------------------
(* The trail a request leaves in the log, by where its worker is: nothing   *)
(* before its service has returned, then what the service says, then what   *)
(* the middleware has seen, unless the record was lost.                     *)
ServiceSpoke(w) == id[w] \in lost \/ Recorded(id[w], "service", status[w] = "ok")
LayerSpoke(w) == id[w] \in lost \/ Recorded(id[w], "http", Good(status[w]))

Trail(w) ==
    /\ pc[w] \in {"admit", "run", "busy", "record"} => \A k \in DOMAIN log : log[k].id # id[w]
    /\ pc[w] = "record" => status[w] \in {"ok", "failed"}
    /\ pc[w] = "log" =>
          /\ w \in Handlers /\ Changes(w)
          /\ \A k \in DOMAIN log : log[k].id = id[w] =>
                log[k].layer = "service" /\ log[k].ok = Good(status[w])
    /\ pc[w] \in {"run", "busy", "record"} => req[w].form # "unclean"
    /\ pc[w] \in {"log", "reply"} =>
          /\ status[w] = "moved" => req[w].form = "unclean"
          /\ status[w] \in {"ok", "failed"} => req[w].form # "unclean"
    /\ pc[w] \in {"log", "reply"} /\ Changes(w) /\ status[w] \in {"ok", "failed"}
          /\ req[w].op # "user" => ServiceSpoke(w)
    /\ pc[w] = "reply" /\ w \in Handlers /\ Changes(w) => LayerSpoke(w)
    /\ pc[w] \in {"record", "log", "reply"} /\ status[w] = "ok" /\ Changes(w) => id[w] \in made

Distinct == \A v, w \in Workers : pc[v] # "idle" /\ pc[w] # "idle" /\ v # w => id[v] # id[w]
LogAsked == \A k \in DOMAIN log : log[k].id \in DOMAIN asked

TrailInv ==
    /\ \A w \in Workers : Trail(w)
    /\ Distinct /\ LogAsked
    /\ RecordsTrue /\ AckedRecorded

(* The log only grows, and by records of requests at work. *)
LogGrows ==
    /\ lost \subseteq lost'
    /\ \A k \in DOMAIN log : k \in DOMAIN log' /\ log'[k] = log[k]
NoneNew(i) == \A k \in DOMAIN log' : k \notin DOMAIN log => log'[k].id # i

LEMMA RecordKept ==
    ASSUME LogGrows, NEW i, NEW l, NEW ok, Recorded(i, l, ok)
    PROVE  Recorded(i, l, ok)'
  BY DEF LogGrows, Recorded

LEMMA WriteFacts ==
    ASSUME TypeOK, WorkInv, NEW w \in Workers, pc[w] # "idle",
           NEW l \in {"service", "http"}, NEW ok \in BOOLEAN, WriteRecord(w, l, ok),
           NEW i, i = id[w]
    PROVE  /\ LogGrows
           /\ \A j : j # i => NoneNew(j)
           /\ i \in lost' \/ Recorded(i, l, ok)'
           /\ \A k \in DOMAIN log' : k \notin DOMAIN log =>
                 /\ log'[k] = [id |-> i, layer |-> l, ok |-> ok]
                 /\ \A j \in DOMAIN log' : j < k => j \in DOMAIN log
                 /\ \A j \in DOMAIN log : ~(k < j)
<1> DEFINE e == [id |-> i, layer |-> l, ok |-> ok]
<1>1. e \in Record
  BY DomainAsked, TypeParts DEF Record, WorkInv, Working
<1>2. CASE log' = Append(log, e) /\ UNCHANGED lost
  <2>1. log \in Seq(Record)
    BY DEF TypeOK
  <2>2. /\ DOMAIN log = 1 .. Len(log) /\ DOMAIN log' = 1 .. Len(log) + 1 /\ Len(log) \in Nat
        /\ \A k \in DOMAIN log : log'[k] = log[k]
        /\ log'[Len(log) + 1] = e
    BY <1>1, <1>2, <2>1
  <2>3. LogGrows
    BY <1>2, <2>2 DEF LogGrows
  <2>4. \A k \in DOMAIN log' : k \notin DOMAIN log => k = Len(log) + 1
    BY <2>2
  <2>5. \A j : j # i => NoneNew(j)
    BY <2>2, <2>4 DEF NoneNew
  <2>6. Recorded(i, l, ok)'
    BY <2>2 DEF Recorded
  <2> HIDE DEF e
  <2>7. \A k \in DOMAIN log' : k \notin DOMAIN log =>
                 /\ log'[k] = e
                 /\ \A j \in DOMAIN log' : j < k => j \in DOMAIN log
                 /\ \A j \in DOMAIN log : ~(k < j)
    BY <2>2, <2>4
  <2> QED BY <2>3, <2>5, <2>6, <2>7 DEF e
<1>3. CASE lost' = lost \cup {i} /\ UNCHANGED log
  BY <1>3 DEF LogGrows, NoneNew
<1> QED BY <1>2, <1>3 DEF WriteRecord

(* A worker that does not move keeps its trail when others write theirs. *)
LEMMA TrailOthers ==
    ASSUME TypeOK, NEW v \in Workers, Trail(v), LogGrows, NoneNew(id[v]), made \subseteq made',
           pc'[v] = pc[v], pc[v] # "idle" => req'[v] = req[v] /\ id'[v] = id[v] /\ status'[v] = status[v]
    PROVE  Trail(v)'
<1>1. CASE pc[v] = "idle"
  BY <1>1 DEF Trail
<1>2. CASE pc[v] # "idle"
  <2>1. req'[v] = req[v] /\ id'[v] = id[v] /\ status'[v] = status[v] /\ Changes(v)' = Changes(v)
    BY <1>2 DEF Changes
  <2>2. \A k \in DOMAIN log' : log'[k].id = id[v] => k \in DOMAIN log /\ log'[k] = log[k]
    BY DEF LogGrows, NoneNew
  <2>3. ServiceSpoke(v) => ServiceSpoke(v)'
    BY <2>1, RecordKept DEF ServiceSpoke, LogGrows, Recorded
  <2>4. LayerSpoke(v) => LayerSpoke(v)'
    BY <2>1, RecordKept DEF LayerSpoke, LogGrows, Recorded
  <2> QED BY <2>1, <2>2, <2>3, <2>4 DEF Trail
<1> QED BY <1>1, <1>2

(* What was told stays recorded. *)
LEMMA AckedKept ==
    ASSUME TypeOK, AckedRecorded, LogGrows, told' \subseteq told,
           \A i \in DOMAIN asked : asked'[i] = asked[i]
    PROVE  AckedRecorded'
<1> SUFFICES ASSUME NEW t \in told', asked'[t.id].op \in Changing, t.id \notin lost'
             PROVE  /\ asked'[t.id].role # "shell" => Recorded(t.id, "http", Good(t.status))'
                    /\ t.status \in {"ok", "failed"} /\ asked'[t.id].op # "user" =>
                          Recorded(t.id, "service", t.status = "ok")'
  BY DEF AckedRecorded
<1>1. t \in told /\ t.id \in DOMAIN asked /\ asked'[t.id] = asked[t.id] /\ t.id \notin lost
  BY DEF TypeOK, LogGrows
<1> QED BY <1>1, RecordKept DEF AckedRecorded

(* A write by worker w that agrees with what was made and said before. *)
LEMMA WriteTrue ==
    ASSUME TypeOK, WorkInv, TrailInv, NEW w \in Workers, pc[w] # "idle",
           NEW l \in {"service", "http"}, NEW ok \in BOOLEAN, WriteRecord(w, l, ok),
           made' = made, UNCHANGED asked,
           ok => IF asked[id[w]].form = "unclean" THEN l = "http" ELSE id[w] \in made,
           \A k \in DOMAIN log : log[k].id = id[w] =>
               log[k].layer = "service" /\ l = "http" /\ log[k].ok = ok
    PROVE  RecordsTrue' /\ LogAsked'
<1> DEFINE i == id[w]
<1>1. /\ LogGrows
      /\ \A k \in DOMAIN log' : k \notin DOMAIN log =>
                 /\ log'[k] = [id |-> i, layer |-> l, ok |-> ok]
                 /\ \A j \in DOMAIN log' : j < k => j \in DOMAIN log
                 /\ \A j \in DOMAIN log : ~(k < j)
  BY WriteFacts
<1>2. log \in Seq(Record) /\ log' \in Seq(Record)
  BY WriteType DEF LogOK, TypeOK
<1>3. /\ \A k \in DOMAIN log : k \in Nat /\ \A j \in 1 .. k - 1 : j \in DOMAIN log /\ j < k
      /\ \A k \in DOMAIN log' : k \in Nat /\ \A j \in 1 .. k - 1 : j \in DOMAIN log' /\ j < k
  BY <1>2
<1>4. i \in DOMAIN asked
  BY DEF WorkInv, Working
<1>5. LogAsked'
  BY <1>1, <1>4 DEF LogAsked, TrailInv, LogGrows
<1>8. ok => IF asked[i].form = "unclean" THEN l = "http" ELSE i \in made
  OBVIOUS
<1>6. ASSUME NEW k \in DOMAIN log', log'[k].ok
      PROVE  /\ asked[log'[k].id].form # "unclean" => log'[k].id \in made
             /\ asked[log'[k].id].form = "unclean" => log'[k].layer = "http"
  <2>1. CASE k \in DOMAIN log
    BY <1>1, <1>6, <2>1 DEF TrailInv, RecordsTrue, LogGrows, Claims
  <2>2. CASE k \notin DOMAIN log
    <3>1. log'[k] = [id |-> i, layer |-> l, ok |-> ok]
      BY <1>1, <2>2
    <3>2. log'[k].id = i /\ log'[k].layer = l /\ log'[k].ok = ok
      BY <3>1
    <3>3. IF asked[i].form = "unclean" THEN l = "http" ELSE i \in made
      BY <1>6, <1>8, <3>2
    <3> QED BY <3>2, <3>3
  <2> QED BY <2>1, <2>2
<1>7. ASSUME NEW k \in DOMAIN log', NEW j \in 1 .. k - 1, log'[j].id = log'[k].id
      PROVE  log'[j].layer = "service" /\ log'[k].layer = "http" /\ log'[j].ok = log'[k].ok
  <2>1. j \in DOMAIN log' /\ j < k
    BY <1>3
  <2>2. CASE k \in DOMAIN log
    BY <1>1, <1>3, <1>7, <2>2 DEF TrailInv, RecordsTrue, LogGrows
  <2>3. CASE k \notin DOMAIN log
    <3>1. j \in DOMAIN log /\ log'[k] = [id |-> i, layer |-> l, ok |-> ok] /\ log'[j] = log[j]
      BY <1>1, <2>1, <2>3 DEF LogGrows
    <3> QED BY <1>7, <3>1
  <2> QED BY <2>2, <2>3
<1> QED BY <1>5, <1>6, <1>7 DEF RecordsTrue, Claims

(* What does not touch the log. *)
LEMMA SilentTrue ==
    ASSUME TypeOK, TrailInv, UNCHANGED logVars, made \subseteq made', told' \subseteq told,
           DOMAIN asked \subseteq DOMAIN asked', \A i \in DOMAIN asked : asked'[i] = asked[i]
    PROVE  RecordsTrue' /\ LogAsked' /\ AckedRecorded' /\ LogGrows /\ \A i : NoneNew(i)
<1>1. LogGrows /\ \A i : NoneNew(i)
  BY DEF LogGrows, NoneNew, logVars
<1>2. RecordsTrue' /\ LogAsked'
  BY DEF TrailInv, RecordsTrue, LogAsked, Claims, logVars
<1> QED BY <1>1, <1>2, AckedKept DEF TrailInv

LEMMA DistinctKept ==
    ASSUME Distinct, \A w \in Workers : pc'[w] # "idle" => pc[w] # "idle" /\ id'[w] = id[w]
    PROVE  Distinct'
  BY DEF Distinct

(* A step of w that writes nothing keeps the invariant if it keeps w's trail. *)
LEMMA Quiet ==
    ASSUME TypeOK, TrailInv, NEW w \in Workers, UNCHANGED <<logVars, req, id, asked, told>>,
           made \subseteq made', pc[w] # "idle",
           \A v \in Workers : v # w => pc'[v] = pc[v] /\ status'[v] = status[v],
           Trail(w)'
    PROVE  TrailInv'
<1>1. RecordsTrue' /\ LogAsked' /\ AckedRecorded' /\ LogGrows /\ \A i : NoneNew(i)
  BY SilentTrue
<1>2. ASSUME NEW v \in Workers, v # w PROVE Trail(v)'
  BY <1>1, <1>2, TrailOthers DEF TrailInv
<1>3. Distinct'
  BY DEF TrailInv, Distinct
<1> QED BY <1>1, <1>2, <1>3 DEF TrailInv

LEMMA QuietAnswer ==
    ASSUME TypeOK, WorkInv, TrailInv, NEW w \in Workers, pc[w] \in {"admit", "busy"},
           NEW s \in {"refused", "missing", "moved"}, Answer(w, s),
           s = "moved" => req[w].form = "unclean",
           UNCHANGED <<logVars, req, id, asked, told, made>>
    PROVE  TrailInv'
<1>1. /\ pc' = [pc EXCEPT ![w] = AfterService(w, s)] /\ status'[w] = s
      /\ \A v \in Workers : v # w => pc'[v] = pc[v] /\ status'[v] = status[v]
      /\ pc'[w] = AfterService(w, s)
  BY DEF Answer, Goto, TypeOK
<1>2. AfterService(w, s) = IF w \in Handlers /\ Changes(w) THEN "log" ELSE "reply"
  BY DEF AfterService
<1>3. Changes(w)' = Changes(w) /\ id'[w] = id[w]
  BY DEF Changes
<1>4. \A k \in DOMAIN log' : log'[k].id # id'[w]
  BY DEF TrailInv, Trail, logVars
<1>5. Trail(w)'
  BY <1>1, <1>2, <1>3, <1>4 DEF Trail
<1> QED BY <1>1, <1>5, Quiet

LEMMA QuietTry ==
    ASSUME TypeOK, WorkInv, TrailInv, NEW w \in Workers, pc[w] \in {"run", "busy"}, NextTry(w),
           UNCHANGED <<logVars, req, id, asked, told>>, made \subseteq made'
    PROVE  TrailInv'
<1>1. /\ pc'[w] = "run" \/ (pc'[w] = "record" /\ (status'[w] = "failed" \/ (status'[w] = "ok" /\ ~Changes(w))))
      /\ \A v \in Workers : v # w => pc'[v] = pc[v] /\ status'[v] = status[v]
  BY DEF NextTry, Goto, TypeOK
<1>2. Changes(w)' = Changes(w) /\ id'[w] = id[w]
  BY DEF Changes
<1>3. Trail(w)'
  BY <1>1, <1>2 DEF TrailInv, Trail, logVars
<1> QED BY <1>1, <1>3, Quiet

(* A step of w that writes a record of its request. *)
LEMMA Writing ==
    ASSUME TypeOK, WorkInv, TrailInv, NEW w \in Workers, pc[w] # "idle",
           NEW l \in {"service", "http"}, NEW ok \in BOOLEAN, WriteRecord(w, l, ok),
           UNCHANGED <<req, id, status, asked, told, made>>,
           \A v \in Workers : v # w => pc'[v] = pc[v],
           ok => IF asked[id[w]].form = "unclean" THEN l = "http" ELSE id[w] \in made,
           \A k \in DOMAIN log : log[k].id = id[w] =>
               log[k].layer = "service" /\ l = "http" /\ log[k].ok = ok,
           Trail(w)'
    PROVE  TrailInv'
<1>1. RecordsTrue' /\ LogAsked'
  BY WriteTrue
<1>2. LogGrows /\ \A j : j # id[w] => NoneNew(j)
  BY WriteFacts
<1>3. AckedRecorded'
  BY <1>2, AckedKept DEF TrailInv
<1>4. ASSUME NEW v \in Workers, v # w PROVE Trail(v)'
  <2>1. CASE pc[v] = "idle"
    BY <1>4, <2>1 DEF Trail
  <2>2. CASE pc[v] # "idle"
    <3>1. id[v] # id[w]
      BY <1>4, <2>2 DEF TrailInv, Distinct
    <3> QED BY <1>2, <1>4, <3>1, TrailOthers DEF TrailInv
  <2> QED BY <2>1, <2>2
<1>5. Distinct'
  BY DEF TrailInv, Distinct
<1> QED BY <1>1, <1>3, <1>4, <1>5 DEF TrailInv

LEMMA TrailServe ==
    ASSUME TypeOK, WorkInv, TrailInv, NEW w \in Workers, Serve(w)
    PROVE  TrailInv'
<1>0. pc[w] # "idle" => /\ req[w] \in Requests /\ req[w].op \in Op /\ id[w] \in DOMAIN asked
                        /\ asked[id[w]] = req[w]
                        /\ w \in Shells <=> req[w].role = "shell"
  BY RequestFacts DEF WorkInv, Working
<1>1. CASE Admit(w)
  <2>1. CASE Refuses(req[w])
    <3>1. Refusal(req[w]) \in {"refused", "moved"}
          /\ (Refusal(req[w]) = "moved" => req[w].form = "unclean")
      BY DEF Refusal
    <3> QED BY <1>1, <2>1, <3>1, QuietAnswer DEF Admit, hostVars, histVars
  <2>2. CASE ~Refuses(req[w])
    <3>1. /\ pc'[w] = "run" /\ \A v \in Workers : v # w => pc'[v] = pc[v]
          /\ UNCHANGED <<status, req, id, logVars, asked, told, made>>
      BY <1>1, <2>2 DEF Admit, Goto, TypeOK, hostVars, histVars
    <3>2. Trail(w)'
      BY <1>1, <2>2, <3>1 DEF Admit, Refuses, TrailInv, Trail, logVars
    <3> QED BY <1>1, <3>1, <3>2, Quiet DEF Admit
  <2> QED BY <2>1, <2>2
<1>2. CASE Start(w)
  <2>1. /\ pc'[w] = "busy" /\ \A v \in Workers : v # w => pc'[v] = pc[v]
        /\ UNCHANGED <<status, req, id, logVars, asked, told, made>>
    BY <1>2 DEF Start, Goto, TypeOK, hostVars, histVars
  <2>2. Trail(w)'
    BY <1>2, <2>1 DEF Start, TrailInv, Trail, logVars
  <2> QED BY <1>2, <2>1, <2>2, Quiet DEF Start
<1>3. CASE Works(w)
  <2>1. /\ pc'[w] = "record" /\ status'[w] = "ok"
        /\ \A v \in Workers : v # w => pc'[v] = pc[v] /\ status'[v] = status[v]
        /\ UNCHANGED <<req, id, logVars, asked, told>>
    BY <1>3 DEF Works, Goto, TypeOK, histVars
  <2>2. made \subseteq made' /\ (Changes(w) => id[w] \in made')
    BY <1>3 DEF Works, ChangeHost
  <2>3. Trail(w)'
    BY <1>3, <2>1, <2>2 DEF Works, TrailInv, Trail, logVars, Changes
  <2> QED BY <1>3, <2>1, <2>2, <2>3, Quiet DEF Works
<1>4. CASE NotStarted(w)
  BY <1>4, QuietTry DEF NotStarted, hostVars, histVars
<1>5. CASE Fails(w)
  <2>1. made \subseteq made'
    BY <1>5 DEF Fails, ChangeHost
  <2> QED BY <1>5, <2>1, QuietTry DEF Fails
<1>6. CASE Missing(w)
  BY <1>6, QuietAnswer DEF Missing, hostVars, histVars
<1>7. CASE RecordAttempt(w)
  <2> DEFINE i == id[w]
             ok == status[w] = "ok"
  <2>1. /\ pc'[w] = AfterService(w, status[w]) /\ \A v \in Workers : v # w => pc'[v] = pc[v]
        /\ UNCHANGED <<status, req, id, asked, told, made>>
    BY <1>7 DEF RecordAttempt, Goto, TypeOK, hostVars, histVars
  <2>2. AfterService(w, status[w]) = IF w \in Handlers /\ Changes(w) THEN "log" ELSE "reply"
    BY DEF AfterService
  <2>3. /\ \A k \in DOMAIN log : log[k].id # i
        /\ status[w] \in {"ok", "failed"} /\ (ok /\ Changes(w) => i \in made)
        /\ req[w].form # "unclean"
    BY <1>7 DEF RecordAttempt, TrailInv, Trail
  <2>4. Changes(w)' = Changes(w) /\ id'[w] = i /\ status'[w] = status[w]
    BY <2>1 DEF Changes
  <2>5. Serves(w).recorded <=> req[w].op \notin {"user", "read"}
    BY <1>0, <1>7, ServiceFacts DEF RecordAttempt, Serves
  <2>6. CASE Serves(w).recorded
    <3>1. WriteRecord(w, "service", ok) /\ Changes(w)
      BY <1>0, <1>7, <2>5, <2>6 DEF RecordAttempt, Changes, Op
    <3>2. /\ i \in lost' \/ Recorded(i, "service", ok)'
          /\ \A k \in DOMAIN log' : k \notin DOMAIN log => log'[k] = [id |-> i, layer |-> "service", ok |-> ok]
          /\ LogGrows
      BY <1>7, <3>1, WriteFacts DEF RecordAttempt
    <3>3. \A k \in DOMAIN log' : log'[k].id = i => log'[k].layer = "service" /\ log'[k].ok = ok
      BY <2>3, <3>2 DEF LogGrows
    <3>4. ServiceSpoke(w)'
      BY <2>4, <3>2 DEF ServiceSpoke, Recorded
    <3>6. Good(status[w]) = ok /\ status[w] # "moved"
      BY <2>3 DEF Good
    <3>5. Trail(w)'
      BY <2>1, <2>2, <2>3, <2>4, <3>1, <3>3, <3>4, <3>6 DEF Trail
    <3> QED BY <1>0, <1>7, <2>1, <2>3, <3>1, <3>5, Writing DEF RecordAttempt
  <2>7. CASE ~Serves(w).recorded
    <3>1. UNCHANGED logVars
      BY <1>7, <2>7 DEF RecordAttempt
    <3>2. Changes(w) => req[w].op = "user"
      BY <2>5, <2>7 DEF Changes, Changing
    <3>3. Trail(w)'
      BY <2>1, <2>2, <2>3, <2>4, <3>1, <3>2 DEF Trail, logVars
    <3> QED BY <1>7, <2>1, <3>1, <3>3, Quiet DEF RecordAttempt
  <2> QED BY <2>6, <2>7
<1>8. CASE LogRequest(w)
  <2> DEFINE i == id[w]
             ok == Good(status[w])
  <2>1. /\ pc'[w] = "reply" /\ \A v \in Workers : v # w => pc'[v] = pc[v]
        /\ UNCHANGED <<status, req, id, asked, told, made>>
    BY <1>8 DEF LogRequest, Goto, TypeOK, hostVars, histVars
  <2>2. /\ w \in Handlers /\ Changes(w)
        /\ \A k \in DOMAIN log : log[k].id = i => log[k].layer = "service" /\ log[k].ok = ok
        /\ status[w] = "ok" => i \in made
        /\ status[w] = "moved" => req[w].form = "unclean"
        /\ status[w] \in {"ok", "failed"} => req[w].form # "unclean"
        /\ status[w] \in {"ok", "failed"} /\ req[w].op # "user" => ServiceSpoke(w)
    BY <1>8 DEF LogRequest, TrailInv, Trail
  <2>3. Changes(w)' = Changes(w) /\ id'[w] = i /\ status'[w] = status[w]
    BY <2>1 DEF Changes
  <2>9. ok /\ asked[i].form # "unclean" => i \in made
    BY <1>0, <1>8, <2>2 DEF Good, LogRequest
  <2>10. ok \in BOOLEAN
    BY DEF Good
  <2>4. WriteRecord(w, "http", ok)
    BY <1>8 DEF LogRequest, Seen
  <2>5. (i \in lost' \/ Recorded(i, "http", ok)') /\ LogGrows
    BY <1>8, <2>4, <2>10, WriteFacts DEF LogRequest
  <2>6. LayerSpoke(w)'
    BY <2>3, <2>5 DEF LayerSpoke, Recorded
  <2>7. ServiceSpoke(w) => ServiceSpoke(w)'
    BY <2>3, <2>5, RecordKept DEF ServiceSpoke, LogGrows, Recorded
  <2>8. Trail(w)'
    BY <2>1, <2>2, <2>3, <2>6, <2>7 DEF Trail
  <2> HIDE DEF ok
  <2> QED BY <1>8, <2>1, <2>2, <2>4, <2>8, <2>9, <2>10, Writing DEF LogRequest
<1>9. CASE Reply(w)
  <2>1. /\ pc'[w] = "idle" /\ UNCHANGED <<id, status, log, lost, made, asked>>
        /\ \A v \in Workers : v # w => pc'[v] = pc[v] /\ req'[v] = req[v]
    BY <1>9 DEF Reply, Goto, TypeOK, hostVars, logVars
  <2>2. \A v \in Workers : Trail(v)'
    <3> SUFFICES ASSUME NEW v \in Workers PROVE Trail(v)'
      OBVIOUS
    <3>1. CASE v = w
      BY <2>1, <3>1 DEF Trail
    <3>2. CASE v # w
      <4>1. LogGrows /\ NoneNew(id[v])
        BY <2>1 DEF LogGrows, NoneNew
      <4> QED BY <2>1, <3>2, <4>1, TrailOthers DEF TrailInv
    <3> QED BY <3>1, <3>2
  <2>3. Distinct' /\ LogAsked' /\ RecordsTrue'
    BY <2>1 DEF TrailInv, Distinct, LogAsked, RecordsTrue, Claims
  <2>4. ASSUME NEW t \in told', asked[t.id].op \in Changing, t.id \notin lost
        PROVE  /\ asked[t.id].role # "shell" => Recorded(t.id, "http", Good(t.status))
               /\ t.status \in {"ok", "failed"} /\ asked[t.id].op # "user" =>
                     Recorded(t.id, "service", t.status = "ok")
    <3>1. CASE t \in told
      BY <2>4, <3>1 DEF TrailInv, AckedRecorded
    <3>2. CASE t = [id |-> id[w], status |-> status[w]]
      <4>1. Changes(w) /\ (asked[t.id].role # "shell" => w \in Handlers)
        BY <1>0, <1>9, <2>4, <3>2 DEF Reply, Changes, Workers
      <4> QED BY <1>0, <1>9, <2>4, <3>2, <4>1 DEF Reply, TrailInv, Trail, ServiceSpoke, LayerSpoke
    <3> QED BY <1>9, <2>4, <3>1, <3>2 DEF Reply
  <2>5. AckedRecorded'
    BY <2>1, <2>4 DEF AckedRecorded, Recorded
  <2> QED BY <2>2, <2>3, <2>5 DEF TrailInv
<1> QED BY <1>1, <1>2, <1>3, <1>4, <1>5, <1>6, <1>7, <1>8, <1>9 DEF Serve

LEMMA TrailBegin ==
    ASSUME TypeOK, WorkInv, TrailInv, NEW w \in Workers, NEW r \in Requests, Begin(w, r)
    PROVE  TrailInv'
<1> DEFINE i == Len(asked) + 1
<1>1. asked \in Seq(Requests) /\ asked' = Append(asked, r)
  BY DEF TypeOK, Begin
<1>2. /\ i \notin DOMAIN asked /\ Len(asked') = i
      /\ DOMAIN asked \subseteq DOMAIN asked' /\ \A j \in DOMAIN asked : asked'[j] = asked[j]
  BY <1>1, AppendFacts
<1>3. /\ pc[w] = "idle" /\ pc'[w] = "admit" /\ id'[w] = i
      /\ \A v \in Workers : v # w =>
            pc'[v] = pc[v] /\ req'[v] = req[v] /\ id'[v] = id[v] /\ status'[v] = status[v]
      /\ UNCHANGED <<log, lost, made, told>>
  BY <1>2 DEF Begin, Idle, Goto, TypeOK, hostVars, logVars
<1>4. RecordsTrue' /\ LogAsked' /\ AckedRecorded' /\ LogGrows /\ \A j : NoneNew(j)
  BY <1>2, <1>3, SilentTrue DEF logVars
<1>5. Trail(w)'
  BY <1>2, <1>3 DEF Trail, TrailInv, LogAsked
<1>6. ASSUME NEW v \in Workers, v # w PROVE Trail(v)'
  BY <1>3, <1>4, <1>6, TrailOthers DEF TrailInv
<1>7. \A v \in Workers : pc[v] # "idle" => id[v] # i
  BY <1>2 DEF WorkInv, Working
<1>8. Distinct'
  BY <1>3, <1>7 DEF TrailInv, Distinct
<1> QED BY <1>4, <1>5, <1>6, <1>8 DEF TrailInv

(* Steps in which no worker moves, or some just die. *)
LEMMA TrailEnds ==
    ASSUME TypeOK, TrailInv, UNCHANGED <<id, status, logVars, asked, told>>, made \subseteq made',
           \A w \in Workers : pc'[w] = "idle" \/ (pc'[w] = pc[w] /\ req'[w] = req[w])
    PROVE  TrailInv'
<1>1. RecordsTrue' /\ LogAsked' /\ AckedRecorded' /\ LogGrows /\ \A i : NoneNew(i)
  BY SilentTrue
<1>2. ASSUME NEW w \in Workers PROVE Trail(w)'
  <2>1. CASE pc'[w] = "idle"
    BY <2>1 DEF Trail
  <2>2. CASE pc'[w] = pc[w] /\ req'[w] = req[w]
    BY <1>1, <2>2, TrailOthers DEF TrailInv
  <2> QED BY <2>1, <2>2
<1>3. Distinct'
  BY DEF TrailInv, Distinct
<1> QED BY <1>1, <1>2, <1>3 DEF TrailInv

LEMMA TrailStep ==
    ASSUME TypeOK, WorkInv, TrailInv, [Next]_vars
    PROVE  TrailInv'
<1>1. CASE UNCHANGED vars
  BY <1>1, TrailEnds DEF vars, taskVars, hostVars, histVars
<1>2. ASSUME NEW w \in Workers, Leave(w)
      PROVE  TrailInv'
  BY <1>2, TrailEnds DEF Leave, hostVars, histVars
<1>3. ASSUME NEW w \in Workers, ShellDies(w)
      PROVE  TrailInv'
  BY <1>3, TrailEnds DEF ShellDies, Die
<1>4. Exit \/ Crash => TrailInv'
  BY TrailEnds DEF Exit, Crash, Die, Workers
<1>5. ASSUME NEW i \in stray, StrayWorks(i) \/ StrayFails(i)
      PROVE  TrailInv'
  <2>1. UNCHANGED <<taskVars, logVars, histVars>> /\ made \subseteq made'
    BY <1>5 DEF StrayWorks, StrayFails, ChangeHost
  <2> QED BY <2>1, TrailEnds DEF taskVars, histVars
<1>6. ASSUME Signal \/ Return \/ Deadline \/ ServeFails \/ CloseLog
      PROVE  TrailInv'
  <2>1. UNCHANGED <<taskVars, hostVars, logVars, histVars>>
    BY <1>6 DEF Signal, Return, Deadline, ServeFails, CloseLog
  <2> QED BY <2>1, TrailEnds DEF taskVars, hostVars, histVars
<1> QED BY <1>1, <1>2, <1>3, <1>4, <1>5, <1>6, TrailServe, TrailBegin DEF Next, Arrive, Invoke

LEMMA TrailKept == Spec => [](TypeOK /\ WorkInv /\ TrailInv)
<1>1. Init => TrailInv
  BY DEF Init, TrailInv, Trail, Distinct, LogAsked, RecordsTrue, AckedRecorded
<1>2. TypeOK /\ WorkInv /\ TrailInv /\ [Next]_vars => (TypeOK /\ WorkInv /\ TrailInv)'
  BY TypeStep, TrailStep
<1> QED BY <1>1, <1>2, TypeInit, PTL DEF Spec

(* Whoever has been told the outcome of a change finds it in the log, from  *)
(* each layer that has a word to say (of a redirect, one of success).       *)
THEOREM AnswersRecorded == Spec => []AckedRecorded
  BY TrailKept, PTL DEF TrailInv

(* The log claims success only of what was done and, from the middleware,   *)
(* of what net/http redirected; and its layers agree.                       *)
THEOREM LogTrue == Spec => []RecordsTrue
  BY TrailKept, PTL DEF TrailInv

-----------------------------------------------------------------------------
(* As long as the agent is not cut short, whatever was changed by HTTP is   *)
(* recorded or has a handler on its way to record it; commands survive only *)
(* the CLI processes that started them.                                     *)
AtWork(i) == \E w \in Handlers : id[w] = i /\ pc[w] \in {"run", "busy", "record", "log"}
Logged(i) == \E ok \in BOOLEAN : Recorded(i, "http", ok)

HandlersDone == ~cut /\ phase \in {"returned", "closed", "exited"} => \A w \in Handlers : Idle(w)
StrayOfShells == ~cut => \A i \in stray : asked[i].role = "shell"
MadeLogged ==
    ~cut => \A i \in made \ lost : asked[i].role # "shell" => Logged(i) \/ AtWork(i)
MadeChanging == \A i \in made : asked[i].op \in Changing

CleanInv == HandlersDone /\ StrayOfShells /\ MadeLogged /\ MadeChanging

(* A handler moves on without losing sight of what it changed. *)
LEMMA CleanServe ==
    ASSUME TypeOK, WorkInv, CleanInv, NEW w \in Workers, Serve(w)
    PROVE  CleanInv'
<1>1. /\ pc[w] # "idle" /\ UNCHANGED <<phase, cut, id, stray, asked>>
      /\ \A v \in Workers : v # w => pc'[v] = pc[v]
  BY DEF Serve, Admit, Answer, Goto, Start, Works, NotStarted, NextTry, Fails, Missing, RecordAttempt,
         LogRequest, Reply, agentVars, hostVars, histVars, TypeOK
<1>2. /\ id[w] \in DOMAIN asked /\ asked[id[w]] = req[w]
      /\ w \in Shells <=> req[w].role = "shell"
  BY <1>1 DEF WorkInv, Working
<1>3. HandlersDone'
  BY <1>1 DEF CleanInv, HandlersDone, Idle, Workers
<1>4. StrayOfShells'
  BY <1>1 DEF CleanInv, StrayOfShells
<1>5. /\ made' \subseteq made \cup {id[w]}
      /\ id[w] \in made' /\ id[w] \notin made =>
            Changes(w) /\ pc[w] = "busy" /\ pc'[w] \in {"run", "record"}
  BY DEF Serve, Admit, Answer, Goto, Start, Works, NotStarted, NextTry, Fails, Missing, RecordAttempt,
         LogRequest, Reply, ChangeHost, hostVars, TypeOK, Changes
<1>6. MadeChanging'
  BY <1>1, <1>2, <1>5 DEF CleanInv, MadeChanging, Changes
<1>10. Seen(w) \in BOOLEAN
  BY DEF Seen, Good
<1>7. LogGrows
  BY <1>10, WriteFacts DEF Serve, Admit, Start, Works, NotStarted, Fails, Missing, RecordAttempt,
         LogRequest, Reply, logVars, LogGrows, TypeOK
<1>8. CASE LogRequest(w)
  <2>1. id[w] \in lost' \/ Logged(id[w])'
    <3>1. PICK ok \in BOOLEAN, i \in DOMAIN asked : i = id[w] /\ WriteRecord(w, "http", ok)
      BY <1>2, <1>8, <1>10 DEF LogRequest
    <3>2. i \in lost' \/ Recorded(i, "http", ok)'
      BY <1>1, <3>1, WriteFacts
    <3> QED BY <1>1, <3>1, <3>2 DEF Logged, Recorded
  <2>2. ASSUME NEW i \in made' \ lost', asked[i].role # "shell", ~cut
        PROVE  Logged(i)' \/ AtWork(i)'
    <3>1. i \in made \ lost
      BY <1>7, <1>8 DEF LogRequest, hostVars, LogGrows
    <3>2. CASE Logged(i)
      BY <1>7, <3>2, RecordKept DEF Logged
    <3>3. CASE i = id[w]
      BY <1>1, <2>1, <2>2, <3>3
    <3>4. CASE AtWork(i) /\ i # id[w]
      BY <1>1, <3>4 DEF AtWork, Workers
    <3> QED BY <2>2, <3>1, <3>2, <3>3, <3>4 DEF CleanInv, MadeLogged
  <2> QED BY <1>1, <1>3, <1>4, <1>6, <2>2 DEF CleanInv, MadeLogged
<1>9. CASE ~LogRequest(w)
  <2>1. pc[w] \in {"run", "busy", "record"} /\ Changes(w) /\ w \in Handlers =>
            pc'[w] \in {"run", "busy", "record", "log"}
    BY <1>9 DEF Serve, Admit, Answer, AfterService, Goto, Start, Works, NotStarted, NextTry, Fails,
                Missing, RecordAttempt, LogRequest, Reply, TypeOK
  <2>2. pc[w] # "log"
    BY <1>9 DEF Serve, Admit, Start, Works, NotStarted, Fails, Missing, RecordAttempt, LogRequest, Reply
  <2>3. ASSUME NEW i \in made' \ lost', asked[i].role # "shell", ~cut
        PROVE  Logged(i)' \/ AtWork(i)'
    <3>1. CASE i \in made /\ Logged(i)
      BY <1>7, <3>1, RecordKept DEF Logged
    <3>2. CASE i \in made /\ AtWork(i)
      <4>1. PICK v \in Handlers : id[v] = i /\ pc[v] \in {"run", "busy", "record", "log"}
        BY <3>2 DEF AtWork
      <4>2. v = w => Changes(w)
        BY <1>2, <3>2, <4>1 DEF CleanInv, MadeChanging, Changes
      <4> QED BY <1>1, <2>1, <2>2, <4>1, <4>2 DEF AtWork, Workers
    <3>3. CASE i \notin made
      BY <1>1, <1>2, <1>5, <2>3, <3>3 DEF AtWork, Workers
    <3> QED BY <1>7, <2>3, <3>1, <3>2, <3>3 DEF CleanInv, MadeLogged, LogGrows
  <2> QED BY <1>1, <1>3, <1>4, <1>6, <2>3 DEF CleanInv, MadeLogged
<1> QED BY <1>8, <1>9

LEMMA CleanBegin ==
    ASSUME TypeOK, WorkInv, CleanInv, NEW w \in Workers, NEW r \in Requests, Begin(w, r),
           w \in Handlers => phase \in {"serving", "draining"}
    PROVE  CleanInv'
<1>1. asked \in Seq(Requests) /\ asked' = Append(asked, r)
  BY DEF TypeOK, Begin
<1>2. \A i \in DOMAIN asked : asked'[i] = asked[i]
  BY <1>1, AppendFacts
<1>3. /\ pc[w] = "idle" /\ UNCHANGED <<phase, cut, stray, made, log, lost>>
      /\ \A v \in Workers : v # w => pc'[v] = pc[v] /\ id'[v] = id[v]
  BY DEF Begin, Idle, Goto, TypeOK, agentVars, hostVars, logVars
<1>4. HandlersDone'
  BY <1>3 DEF CleanInv, HandlersDone, Idle, Workers
<1>5. StrayOfShells' /\ MadeChanging'
  BY <1>2, <1>3 DEF CleanInv, StrayOfShells, MadeChanging, TypeOK
<1>6. \A i : AtWork(i) => AtWork(i)'
  BY <1>3 DEF AtWork, Workers
<1>7. \A i : Logged(i) => Logged(i)'
  BY <1>3 DEF Logged, Recorded
<1>8. MadeLogged'
  BY <1>2, <1>3, <1>6, <1>7 DEF CleanInv, MadeLogged, TypeOK
<1> QED BY <1>4, <1>5, <1>8 DEF CleanInv

(* Commands of dead processes, and clients that leave. *)
LEMMA CleanRest ==
    ASSUME TypeOK, CleanInv, UNCHANGED <<phase, cut, pc, id, logVars, asked>>, stray' \subseteq stray,
           made' \subseteq made \cup stray, \A i \in made' \ made : asked[i].op \in Changing
    PROVE  CleanInv'
<1>1. HandlersDone' /\ StrayOfShells' /\ MadeChanging'
  BY DEF CleanInv, HandlersDone, StrayOfShells, MadeChanging, Idle
<1>2. MadeLogged'
  BY DEF CleanInv, MadeLogged, StrayOfShells, Logged, Recorded, AtWork, logVars
<1> QED BY <1>1, <1>2 DEF CleanInv

LEMMA CleanPhase ==
    ASSUME TypeOK, CleanInv, UNCHANGED <<taskVars, hostVars, logVars, histVars>>, cut \in BOOLEAN,
           cut' = TRUE \/ (cut' = cut /\ HandlersDone')
    PROVE  CleanInv'
  BY DEF CleanInv, HandlersDone, StrayOfShells, MadeLogged, MadeChanging, Logged, Recorded, AtWork,
         taskVars, hostVars, logVars, histVars

LEMMA CleanStep ==
    ASSUME TypeOK, WorkInv, CleanInv, [Next]_vars
    PROVE  CleanInv'
<1>1. CASE UNCHANGED vars
  BY <1>1, CleanRest DEF vars, agentVars, taskVars, hostVars, histVars
<1>2. ASSUME NEW w \in Workers, Leave(w)
      PROVE  CleanInv'
  BY <1>2, CleanRest DEF Leave, agentVars, hostVars, histVars
<1>3. ASSUME NEW w \in Workers, ShellDies(w)
      PROVE  CleanInv'
  <2>1. w \in Shells /\ w \notin Handlers /\ UNCHANGED <<phase, cut, id, made, logVars, asked>>
    BY <1>3, ApiAssumption DEF ShellDies, Die, agentVars
  <2>2. \A v \in Handlers : pc'[v] = pc[v]
    BY <1>3, <2>1 DEF ShellDies, Die, Workers
  <2>3. stray' \subseteq stray \cup {id[w]} /\ asked[id[w]].role = "shell"
    BY <1>3, <2>1 DEF ShellDies, Die, Idle, WorkInv, Working
  <2>4. HandlersDone' /\ StrayOfShells' /\ MadeChanging'
    BY <2>1, <2>2, <2>3 DEF CleanInv, HandlersDone, StrayOfShells, MadeChanging, Idle
  <2>5. MadeLogged'
    BY <2>1, <2>2 DEF CleanInv, MadeLogged, Logged, Recorded, AtWork, logVars
  <2> QED BY <2>4, <2>5 DEF CleanInv
<1>4. ASSUME Exit
      PROVE  CleanInv'
  <2>1. phase = "closed" /\ UNCHANGED <<cut, id, made, logVars, asked>>
    BY <1>4 DEF Exit, Die
  <2>2. CASE cut
    BY <2>1, <2>2 DEF CleanInv, HandlersDone, StrayOfShells, MadeLogged, MadeChanging
  <2>3. CASE ~cut
    <3>1. \A w \in Handlers : Idle(w)
      BY <2>1, <2>3 DEF CleanInv, HandlersDone
    <3>2. \A w \in Workers : pc'[w] = pc[w]
      BY <1>4, <3>1 DEF Exit, Die
    <3>3. stray' = stray
      BY <1>4, <3>1 DEF Exit, Die
    <3>4. HandlersDone'
      BY <3>1, <3>2 DEF HandlersDone, Idle, Workers
    <3>5. \A i : AtWork(i) => AtWork(i)'
      BY <2>1, <3>2 DEF AtWork, Workers
    <3> QED BY <2>1, <3>3, <3>4, <3>5 DEF CleanInv, StrayOfShells, MadeLogged, MadeChanging,
               Logged, Recorded, logVars
  <2> QED BY <2>2, <2>3
<1>5. ASSUME Crash
      PROVE  CleanInv'
  BY <1>5 DEF Crash, Die, CleanInv, HandlersDone, StrayOfShells, MadeLogged, MadeChanging
<1>6. ASSUME NEW i \in stray, StrayWorks(i) \/ StrayFails(i)
      PROVE  CleanInv'
  BY <1>6, CleanRest DEF StrayWorks, StrayFails, ChangeHost, agentVars, taskVars, histVars
<1>7. ASSUME Signal \/ Return \/ Deadline \/ ServeFails \/ CloseLog
      PROVE  CleanInv'
  <2>1. UNCHANGED <<taskVars, hostVars, logVars, histVars>>
    BY <1>7 DEF Signal, Return, Deadline, ServeFails, CloseLog
  <2>2. cut' = TRUE \/ (cut' = cut /\ HandlersDone')
    BY <1>7 DEF Signal, Return, Drained, Deadline, ServeFails, CloseLog, CleanInv, HandlersDone, Idle, taskVars
  <2> QED BY <2>1, <2>2, CleanPhase DEF TypeOK
<1>8. ASSUME NEW w \in Workers, NEW r \in Requests, Arrive(w, r) \/ Invoke(w, r)
      PROVE  CleanInv'
  BY <1>8, CleanBegin, ApiAssumption DEF Arrive, Invoke
<1> QED BY <1>1, <1>2, <1>3, <1>4, <1>5, <1>6, <1>7, <1>8, CleanServe DEF Next

(* An agent that stops in its own time leaves no handler behind, and its    *)
(* log has the middleware's record of every change made by HTTP.            *)
THEOREM StoppedClean == Spec => []CleanStop
<1>1. Init => CleanInv
  BY DEF Init, CleanInv, HandlersDone, StrayOfShells, MadeLogged, MadeChanging
<1>2. TypeOK /\ WorkInv /\ CleanInv /\ [Next]_vars => (TypeOK /\ WorkInv /\ CleanInv)'
  BY TypeStep, CleanStep
<1>3. CleanInv => CleanStop
  BY DEF CleanInv, HandlersDone, MadeLogged, AtWork, Logged, Idle, CleanStop
<1> QED BY <1>1, <1>2, <1>3, TypeInit, PTL DEF Spec
-----------------------------------------------------------------------------
(* The log tells the host's state.  Of a target where no two requests met,  *)
(* none was lost, died or failed half-way, the last success of the log is   *)
(* of the request that changed it last, unless one has just changed it and  *)
(* is about to say so.                                                      *)
Concerned(t) == {i \in DOMAIN asked : asked[i].target = t}
Successes(t) == {k \in DOMAIN log : Claims(log[k]) /\ asked[log[k].id].target = t}

Undisturbed(t) ==
    /\ t \notin met
    /\ Concerned(t) \cap (lost \cup partial) = {}
    /\ \A i \in Concerned(t) : asked[i].op = "user" => asked[i].role # "shell"

LastIs(t, i) ==
    \/ i = 0 /\ Successes(t) = {}
    \/ \E k \in Successes(t) : log[k].id = i /\ \A j \in Successes(t) : j <= k

Did(w) == pc[w] \in {"record", "log"} /\ status[w] = "ok" /\ Changes(w)
Owes(w) == Did(w) /\ (pc[w] = "log" => req[w].op = "user")

StrayPartial == stray \subseteq partial
OneAtATime ==
    \A v, w \in Workers :
       ~Idle(v) /\ ~Idle(w) /\ req[v].target = req[w].target /\ req[v].target \notin met => v = w
HostHeld == \A w \in Workers : Did(w) /\ Undisturbed(req[w].target) => host[req[w].target] = id[w]
Current(t) == LastIs(t, host[t]) \/ \E w \in Workers : Owes(w) /\ req[w].target = t

ReplayInv ==
    /\ StrayPartial /\ OneAtATime /\ HostHeld
    /\ \A t \in Targets : Undisturbed(t) => Current(t)

(* What a target's worker knows, with what TrailInv knows of the log. *)
LEMMA WorkFacts ==
    ASSUME TypeOK, WorkInv, NEW w \in Workers, pc[w] # "idle"
    PROVE  /\ id[w] \in DOMAIN asked /\ asked[id[w]] = req[w]
           /\ id[w] \in Concerned(req[w].target) /\ req[w].target \in Targets
           /\ w \in Shells <=> req[w].role = "shell"
  BY RequestFacts DEF WorkInv, Working, Concerned

(* Histories only grow. *)
Grows ==
    /\ DOMAIN asked \subseteq DOMAIN asked' /\ \A i \in DOMAIN asked : asked'[i] = asked[i]
    /\ met \subseteq met' /\ lost \subseteq lost' /\ partial \subseteq partial'

LEMMA UndisturbedBefore ==
    ASSUME Grows, NEW t, Undisturbed(t)'
    PROVE  Undisturbed(t)
  BY DEF Grows, Undisturbed, Concerned

(* The last success of a target is the same when its log is. *)
LEMMA LastKept ==
    ASSUME LogAsked, Grows, UNCHANGED log, NEW t, NEW i, LastIs(t, i)
    PROVE  LastIs(t, i)'
<1>1. Successes(t)' = Successes(t)
  BY DEF Successes, Claims, LogAsked, Grows
<1> QED BY <1>1 DEF LastIs

(* Steps that leave the log alone: whoever has just changed a target still  *)
(* owes its record or disturbs the target, and who disturbs may change it.  *)
LEMMA ReplaySilent ==
    ASSUME TypeOK, LogAsked, ReplayInv, Grows, UNCHANGED log,
           \A t \in Targets : Undisturbed(t)' => host'[t] = host[t],
           \A w \in Workers : Did(w)' => Did(w) /\ req'[w] = req[w] /\ id'[w] = id[w]
                                         /\ req[w].target \in Targets,
           \A t \in Targets : Undisturbed(t)' =>
              \A w \in Workers : Owes(w) /\ req[w].target = t => Owes(w)' /\ req'[w] = req[w]
    PROVE  HostHeld' /\ \A t \in Targets : Undisturbed(t)' => Current(t)'
<1>1. HostHeld'
  BY UndisturbedBefore DEF HostHeld, ReplayInv
<1>2. ASSUME NEW t \in Targets, Undisturbed(t)' PROVE Current(t)'
  <2>1. Undisturbed(t) /\ host'[t] = host[t]
    BY <1>2, UndisturbedBefore
  <2>2. CASE LastIs(t, host[t])
    <3>1. PICK i : i = host[t]
      OBVIOUS
    <3>2. LastIs(t, i)'
      BY <2>2, <3>1, LastKept
    <3>3. host'[t] = i
      BY <2>1, <3>1
    <3>4. LastIs(t, host[t])'
      BY <3>2, <3>3 DEF LastIs
    <3> QED BY <3>4 DEF Current
  <2>3. CASE \E w \in Workers : Owes(w) /\ req[w].target = t
    BY <1>2, <2>3 DEF Current
  <2> QED BY <2>1, <2>2, <2>3 DEF ReplayInv, Current
<1> QED BY <1>1, <1>2

(* Workers that stay at work on what they were keep to themselves. *)
LEMMA AloneKept ==
    ASSUME OneAtATime, met \subseteq met',
           \A w \in Workers : pc'[w] # "idle" => pc[w] # "idle" /\ req'[w] = req[w]
    PROVE  OneAtATime'
  BY DEF OneAtATime, Idle

(* Nobody disturbs a target that is undisturbed after a request has come.   *)
LEMMA ReplayBegin ==
    ASSUME TypeOK, WorkInv, LogAsked, ReplayInv, NEW w \in Workers, NEW r \in Requests, Begin(w, r)
    PROVE  ReplayInv'
<1>1. asked \in Seq(Requests) /\ asked' = Append(asked, r)
  BY DEF TypeOK, Begin
<1>2. /\ pc[w] = "idle" /\ pc'[w] = "admit" /\ req'[w] = r
      /\ \A v \in Workers : v # w =>
            pc'[v] = pc[v] /\ req'[v] = req[v] /\ id'[v] = id[v] /\ status'[v] = status[v]
      /\ UNCHANGED <<log, lost, host, stray, partial>>
  BY DEF Begin, Idle, Goto, TypeOK, hostVars, logVars
<1>3. Grows
  <2>1. DOMAIN asked \subseteq DOMAIN asked' /\ \A i \in DOMAIN asked : asked'[i] = asked[i]
    BY <1>1, AppendFacts
  <2> QED BY <1>2, <2>1 DEF Grows, Begin
<1>4. StrayPartial'
  BY <1>2 DEF ReplayInv, StrayPartial
<1>5. OneAtATime'
  <2>1. /\ met \subseteq met'
        /\ \A v \in Workers : pc[v] # "idle" /\ req[v].target = r.target => r.target \in met'
    BY DEF Begin, Idle
  <2> QED BY <1>2, <2>1 DEF ReplayInv, OneAtATime, Idle
<1>6. \A v \in Workers : Did(v)' => Did(v) /\ req'[v] = req[v] /\ id'[v] = id[v]
                                    /\ req[v].target \in Targets
  <2> TAKE v \in Workers
  <2>1. CASE v = w
    BY <1>2, <2>1 DEF Did
  <2>2. CASE v # w
    BY <1>2, <2>2, WorkFacts DEF Did, Changes
  <2> QED BY <2>1, <2>2
<1>7. \A v \in Workers : Owes(v) => Owes(v)' /\ req'[v] = req[v]
  BY <1>2 DEF Owes, Did, Changes
<1>8. HostHeld' /\ \A t \in Targets : Undisturbed(t)' => Current(t)'
  BY <1>2, <1>3, <1>6, <1>7, ReplaySilent
<1> QED BY <1>4, <1>5, <1>8 DEF ReplayInv

(* A step of w on its request, other than its last word, that does not     *)
(* touch the log.                                                          *)
LEMMA ReplayQuiet ==
    ASSUME TypeOK, WorkInv, LogAsked, ReplayInv, NEW w \in Workers, pc[w] # "idle",
           UNCHANGED <<logVars, id, asked, met, stray>>, partial \subseteq partial',
           \A v \in Workers : v # w => pc'[v] = pc[v] /\ req'[v] = req[v] /\ status'[v] = status[v],
           pc'[w] # "idle" => req'[w] = req[w],
           ~Did(w)', ~Owes(w),
           host' = host \/ (id[w] \in partial' /\ \A t \in Targets : t # req[w].target => host'[t] = host[t])
    PROVE  ReplayInv'
<1>1. Grows
  BY DEF Grows, logVars
<1>2. StrayPartial' /\ OneAtATime'
  BY AloneKept DEF ReplayInv, StrayPartial
<1>3. \A t \in Targets : Undisturbed(t)' => host'[t] = host[t]
  <2>2. ASSUME NEW t \in Targets, Undisturbed(t)', host'[t] # host[t] PROVE FALSE
    <3>1. id[w] \in partial' /\ t = req[w].target
      BY <2>2
    <3>2. id[w] \in Concerned(t)'
      BY <1>1, <3>1, WorkFacts DEF Grows, Concerned
    <3> QED BY <2>2, <3>1, <3>2 DEF Undisturbed
  <2> QED BY <2>2
<1>4. \A v \in Workers : Did(v)' => Did(v) /\ req'[v] = req[v] /\ id'[v] = id[v]
                                    /\ req[v].target \in Targets
  <2> TAKE v \in Workers
  <2>1. CASE v # w
    BY <2>1, WorkFacts DEF Did, Changes
  <2> QED BY <2>1
<1>5. \A v \in Workers : Owes(v) => Owes(v)' /\ req'[v] = req[v]
  BY DEF Owes, Did, Changes
<1>6. HostHeld' /\ \A t \in Targets : Undisturbed(t)' => Current(t)'
  BY <1>1, <1>3, <1>4, <1>5, ReplaySilent DEF logVars
<1> QED BY <1>2, <1>6 DEF ReplayInv

(* What a record does to the last success of each target. *)
LEMMA LastWritten ==
    ASSUME TypeOK, LogAsked, UNCHANGED asked, NEW e \in Record, log' = Append(log, e),
           e.id \in DOMAIN asked, NEW t
    PROVE  /\ Claims(e) /\ asked[e.id].target = t => LastIs(t, e.id)'
           /\ \A i : ~(Claims(e) /\ asked[e.id].target = t) /\ LastIs(t, i) => LastIs(t, i)'
<1> DEFINE n == Len(log) + 1
<1>1. log \in Seq(Record)
  BY DEF TypeOK
<1>2. /\ DOMAIN log' = DOMAIN log \cup {n} /\ log'[n] = e /\ n \notin DOMAIN log
      /\ \A k \in DOMAIN log : log'[k] = log[k] /\ k <= n
      /\ n <= n
  BY <1>1, AppendFacts
<1> HIDE DEF n
<1>3. ASSUME Claims(e) /\ asked[e.id].target = t PROVE LastIs(t, e.id)'
  <2>1. n \in Successes(t)'
    BY <1>2, <1>3 DEF Successes, Claims
  <2>2. \A j \in Successes(t)' : j <= n
    BY <1>2 DEF Successes
  <2> QED BY <1>2, <2>1, <2>2 DEF LastIs
<1>4. ASSUME ~(Claims(e) /\ asked[e.id].target = t), NEW i, LastIs(t, i) PROVE LastIs(t, i)'
  <2>1. Successes(t)' = Successes(t)
    BY <1>2, <1>4 DEF Successes, Claims
  <2>2. \A k \in Successes(t) : log'[k] = log[k]
    BY <1>2 DEF Successes
  <2> QED BY <1>4, <2>1, <2>2 DEF LastIs
<1> QED BY <1>3, <1>4

(* A record that w owes, or one that is no success.                        *)
LEMMA ReplayWrites ==
    ASSUME TypeOK, WorkInv, LogAsked, ReplayInv, NEW w \in Workers, pc[w] # "idle", pc'[w] # "idle",
           NEW l \in {"service", "http"}, NEW ok \in BOOLEAN, WriteRecord(w, l, ok),
           UNCHANGED <<req, id, status, asked, host, stray, partial, met>>,
           \A v \in Workers : v # w => pc'[v] = pc[v],
           ok => Did(w) \/ req[w].form = "unclean", Owes(w) => ok /\ req[w].form # "unclean",
           Did(w)' => Did(w)
    PROVE  ReplayInv'
<1> DEFINE i == id[w]
           e == [id |-> i, layer |-> l, ok |-> ok]
<1>1. Grows
  BY DEF Grows, WriteRecord
<1>2. StrayPartial' /\ OneAtATime'
  BY AloneKept DEF ReplayInv, StrayPartial
<1>3. i \in DOMAIN asked /\ asked[i] = req[w] /\ e \in Record
  BY DomainAsked, TypeParts DEF Record, WorkInv, Working
<1>4. HostHeld'
  <2>1. \A v \in Workers : Did(v)' => Did(v)
    BY DEF Did, Changes
  <2> QED BY <1>1, <2>1, UndisturbedBefore DEF HostHeld, ReplayInv
<1>5. ASSUME NEW t \in Targets, Undisturbed(t)' PROVE Current(t)'
  <2>1. Undisturbed(t)
    BY <1>1, <1>5, UndisturbedBefore
  <2>2. PICK h : h = host[t] /\ h = host'[t]
    OBVIOUS
  <2>3. t = req[w].target => i \notin lost'
    BY <1>3, <1>5 DEF Undisturbed, Concerned
  <2>4. CASE t = req[w].target /\ ok /\ req[w].form # "unclean"
    <3>1. log' = Append(log, e)
      BY <2>3, <2>4 DEF WriteRecord
    <3>2. host[t] = i
      BY <2>1, <2>4 DEF ReplayInv, HostHeld
    <3>3. PICK k : k = i /\ k = e.id
      BY DEF e
    <3>4. LastIs(t, k)'
      <4>1. LastIs(t, e.id)'
        BY <1>3, <2>4, <3>1, LastWritten DEF Claims
      <4> QED BY <3>3, <4>1 DEF LastIs
    <3> QED BY <3>2, <3>3, <3>4 DEF Current, LastIs
  <2>5. CASE ~(t = req[w].target /\ ok /\ req[w].form # "unclean")
    <3>1. CASE LastIs(t, host[t])
      <4>1. LastIs(t, h)
        BY <2>2, <3>1
      <4>2. LastIs(t, h)'
        <5>1. CASE log' = Append(log, e)
          BY <1>3, <2>5, <4>1, <5>1, LastWritten DEF e, Claims
        <5>2. CASE UNCHANGED log
          BY <1>1, <4>1, <5>2, LastKept
        <5> QED BY <5>1, <5>2 DEF WriteRecord
      <4> QED BY <2>2, <4>2 DEF Current, LastIs
    <3>2. CASE \E v \in Workers : Owes(v) /\ req[v].target = t
      <4>1. PICK v \in Workers : Owes(v) /\ req[v].target = t
        BY <3>2
      <4>2. v # w
        BY <2>5, <4>1
      <4> QED BY <4>1, <4>2 DEF Current, Owes, Did, Changes
    <3> QED BY <2>1, <3>1, <3>2 DEF ReplayInv, Current
  <2> QED BY <2>4, <2>5
<1> QED BY <1>2, <1>4, <1>5 DEF ReplayInv

(* The steps of a worker on its request. *)
LEMMA ReplayServe ==
    ASSUME TypeOK, WorkInv, TrailInv, ReplayInv, NEW w \in Workers, Serve(w)
    PROVE  ReplayInv'
<1> USE DEF TrailInv
<1>1. DOMAIN pc = Workers /\ DOMAIN status = Workers /\ DOMAIN req = Workers
  BY DEF TypeOK
<1>2. CASE Admit(w) \/ Start(w) \/ NotStarted(w) \/ Missing(w)
  <2>1. /\ pc[w] \in {"admit", "run", "busy"} /\ pc'[w] # "idle"
        /\ UNCHANGED <<logVars, req, id, asked, met, stray, partial, host>>
        /\ \A v \in Workers : v # w => pc'[v] = pc[v] /\ req'[v] = req[v] /\ status'[v] = status[v]
    BY <1>1, <1>2 DEF Admit, Start, NotStarted, Missing, NextTry, Answer, AfterService, Goto,
                      hostVars, histVars
  <2>2. pc'[w] \in {"run", "busy"} \/ status'[w] # "ok" \/ ~Changes(w)
    BY <1>1, <1>2 DEF Admit, Refusal, Start, NotStarted, Missing, NextTry, Answer, Goto
  <2>3. ~Did(w)' /\ ~Owes(w)
    BY <2>1, <2>2 DEF Did, Owes, Changes
  <2> QED BY <2>1, <2>3, ReplayQuiet
<1>3. CASE Fails(w)
  <2>1. /\ pc[w] = "busy"
        /\ UNCHANGED <<logVars, req, id, asked, met, stray>> /\ partial \subseteq partial'
        /\ \A v \in Workers : v # w => pc'[v] = pc[v] /\ req'[v] = req[v] /\ status'[v] = status[v]
    BY <1>1, <1>3 DEF Fails, NextTry, Goto
  <2>2. pc'[w] = "run" \/ status'[w] = "failed" \/ ~Changes(w)
    BY <1>1, <1>3 DEF Fails, NextTry, Goto
  <2>3. asked[id[w]].target = req[w].target
    BY <2>1, WorkFacts
  <2>4. host' = host \/ (id[w] \in partial' /\ \A t \in Targets : t # req[w].target => host'[t] = host[t])
    BY <1>3, <2>3 DEF Fails, ChangeHost, TypeOK
  <2>5. ~Did(w)' /\ ~Owes(w)
    BY <2>1, <2>2 DEF Did, Owes, Changes
  <2> QED BY <2>1, <2>4, <2>5, ReplayQuiet
<1>4. CASE Works(w)
  <2>1. /\ pc[w] = "busy" /\ pc'[w] = "record" /\ status'[w] = "ok"
        /\ UNCHANGED <<logVars, req, id, asked, met, stray, partial>>
        /\ \A v \in Workers : v # w => pc'[v] = pc[v] /\ req'[v] = req[v] /\ status'[v] = status[v]
    BY <1>1, <1>4 DEF Works, Goto, histVars
  <2>2. CASE ~Changes(w)
    <3>1. ~Did(w)' /\ ~Owes(w) /\ host' = host
      BY <1>4, <2>1, <2>2 DEF Did, Owes, Changes, Works
    <3> QED BY <2>1, <3>1, ReplayQuiet
  <2>3. CASE Changes(w)
    <3> DEFINE u == req[w].target
    <3>1. u \in Targets /\ host'[u] = id[w] /\ \A t \in Targets : t # u => host'[t] = host[t]
      BY <1>4, <2>1, <2>3, WorkFacts DEF Works, ChangeHost, TypeOK
    <3>2. Grows
      BY <2>1 DEF Grows, logVars
    <3>3. StrayPartial' /\ OneAtATime'
      BY <2>1, AloneKept DEF ReplayInv, StrayPartial
    <3>4. Owes(w)'
      BY <2>1, <2>3 DEF Owes, Did, Changes
    <3>5. \A t \in Targets : Undisturbed(t)' => Undisturbed(t)
      BY <3>2, UndisturbedBefore
    <3>6. HostHeld'
      <4> SUFFICES ASSUME NEW v \in Workers, Did(v)', Undisturbed(req[v].target)'
                   PROVE  host'[req[v].target] = id'[v]
        BY <2>1 DEF HostHeld
      <4>1. CASE v = w
        BY <2>1, <3>1, <4>1
      <4>2. CASE v # w
        <5>1. Did(v) /\ req[v].target \in Targets
          BY <2>1, <4>2, WorkFacts DEF Did, Changes
        <5>2. Undisturbed(req[v].target)
          BY <2>1, <3>2, UndisturbedBefore
        <5>3. req[v].target # u
          BY <2>1, <4>2, <5>1, <5>2 DEF ReplayInv, OneAtATime, Idle, Did, Undisturbed
        <5> QED BY <2>1, <3>1, <5>1, <5>2, <5>3 DEF ReplayInv, HostHeld
      <4> QED BY <4>1, <4>2
    <3>7. ASSUME NEW t \in Targets, Undisturbed(t)' PROVE Current(t)'
      <4>1. CASE t = u
        BY <2>1, <3>4, <4>1 DEF Current
      <4>2. CASE t # u
        <5>1. Current(t) /\ host'[t] = host[t]
          BY <3>1, <3>5, <3>7, <4>2 DEF ReplayInv
        <5>2. PICK h : h = host[t]
          OBVIOUS
        <5>3. CASE LastIs(t, host[t])
          <6>1. LastIs(t, h)'
            BY <2>1, <3>2, <5>2, <5>3, LastKept DEF logVars
          <6> QED BY <5>1, <5>2, <6>1 DEF Current, LastIs
        <5>4. CASE \E v \in Workers : Owes(v) /\ req[v].target = t
          <6>1. PICK v \in Workers : Owes(v) /\ req[v].target = t
            BY <5>4
          <6>2. v # w
            BY <4>2, <6>1
          <6> QED BY <2>1, <6>1, <6>2 DEF Current, Owes, Did, Changes
        <5> QED BY <5>1, <5>3, <5>4 DEF Current
      <4> QED BY <4>1, <4>2
    <3> QED BY <3>3, <3>6, <3>7 DEF ReplayInv
  <2> QED BY <2>2, <2>3
<1>5. CASE RecordAttempt(w)
  <2>1. /\ pc[w] = "record" /\ pc' = [pc EXCEPT ![w] = AfterService(w, status[w])]
        /\ UNCHANGED <<req, id, status, asked, host, stray, partial, met>>
    BY <1>5 DEF RecordAttempt, Goto, hostVars, histVars
  <2>2. AfterService(w, status[w]) = IF w \in Handlers /\ Changes(w) THEN "log" ELSE "reply"
    BY DEF AfterService
  <2>3. pc'[w] \in {"log", "reply"} /\ \A v \in Workers : v # w => pc'[v] = pc[v]
    BY <1>1, <2>1, <2>2
  <2>4. Did(w)' => Did(w)
    BY <2>1 DEF Did, Changes
  <2>5. req[w].op \in Op /\ (Serves(w).recorded <=> req[w].op \notin {"user", "read"})
    BY <2>1, ServiceFacts, RequestFacts DEF WorkInv, Working, Serves
  <2>6. CASE Serves(w).recorded
    <3>1. WriteRecord(w, "service", status[w] = "ok")
      BY <1>5, <2>6 DEF RecordAttempt
    <3>2. (status[w] = "ok") \in BOOLEAN
      OBVIOUS
    <3>3. status[w] = "ok" => Did(w)
      BY <2>1, <2>5, <2>6 DEF Did, Changes, Op
    <3>4. Owes(w) => status[w] = "ok" /\ req[w].form # "unclean"
      BY <2>1 DEF Owes, Did, Trail
    <3> QED BY <2>1, <2>3, <2>4, <3>1, <3>2, <3>3, <3>4, ReplayWrites
  <2>7. CASE ~Serves(w).recorded
    <3>1. UNCHANGED logVars
      BY <1>5, <2>7 DEF RecordAttempt
    <3>2. Grows
      BY <2>1, <3>1 DEF Grows, logVars
    <3>3. \A v \in Workers : Did(v)' => Did(v) /\ req'[v] = req[v] /\ id'[v] = id[v]
                                      /\ req[v].target \in Targets
      <4> TAKE v \in Workers
      <4>1. Did(v)' => Did(v)
        BY <2>1, <2>3, <2>4 DEF Did, Changes
      <4> QED BY <2>1, <4>1, WorkFacts DEF Did
    <3>4. ASSUME NEW t \in Targets, Undisturbed(t)', NEW v \in Workers, Owes(v), req[v].target = t
          PROVE  Owes(v)' /\ req'[v] = req[v]
      <4>1. CASE v # w
        BY <2>1, <2>3, <3>4, <4>1 DEF Owes, Did, Changes
      <4>2. CASE v = w
        <5>1. req[w].op = "user"
          BY <2>5, <2>7, <3>4, <4>2 DEF Owes, Did, Changes, Changing
        <5>2. w \notin Shells
          <6>1. Undisturbed(t)
            BY <3>2, <3>4, UndisturbedBefore
          <6> QED BY <2>1, <3>4, <4>2, <5>1, <6>1, WorkFacts DEF Undisturbed
        <5> QED BY <1>1, <2>1, <2>2, <3>4, <4>2, <5>1, <5>2 DEF Owes, Did, Changes, Workers
      <4> QED BY <4>1, <4>2
    <3>5. HostHeld' /\ \A t \in Targets : Undisturbed(t)' => Current(t)'
      BY <2>1, <3>1, <3>2, <3>3, <3>4, ReplaySilent DEF logVars
    <3>6. StrayPartial' /\ OneAtATime'
      BY <2>1, <2>3, AloneKept DEF ReplayInv, StrayPartial
    <3> QED BY <3>5, <3>6 DEF ReplayInv
  <2> QED BY <2>6, <2>7
<1>6. CASE LogRequest(w)
  <2>1. /\ pc[w] = "log" /\ pc'[w] = "reply" /\ \A v \in Workers : v # w => pc'[v] = pc[v]
        /\ UNCHANGED <<req, id, status, asked, host, stray, partial, met>>
        /\ WriteRecord(w, "http", Good(status[w]))
    BY <1>1, <1>6 DEF LogRequest, Goto, Seen, hostVars, histVars
  <2>2. /\ Changes(w) /\ (status[w] = "moved" => req[w].form = "unclean")
        /\ status[w] = "ok" => req[w].form # "unclean"
    BY <2>1 DEF Trail
  <2>3. Good(status[w]) \in BOOLEAN
    BY DEF Good
  <2>4. /\ Good(status[w]) => Did(w) \/ req[w].form = "unclean"
        /\ Owes(w) => Good(status[w]) /\ req[w].form # "unclean"
        /\ ~Did(w)'
    BY <2>1, <2>2 DEF Did, Owes, Good
  <2> QED BY <2>1, <2>3, <2>4, ReplayWrites
<1>7. CASE Reply(w)
  <2>1. /\ pc[w] = "reply" /\ pc'[w] = "idle"
        /\ UNCHANGED <<logVars, id, status, asked, met, stray, partial, host>>
        /\ \A v \in Workers : v # w => pc'[v] = pc[v] /\ req'[v] = req[v]
    BY <1>1, <1>7 DEF Reply, Goto, hostVars
  <2>2. ~Did(w)' /\ ~Owes(w)
    BY <2>1 DEF Did, Owes
  <2> QED BY <2>1, <2>2, ReplayQuiet
<1> QED BY <1>2, <1>3, <1>4, <1>5, <1>6, <1>7 DEF Serve

(* Who dies at work disturbs its target. *)
LEMMA ReplayDie ==
    ASSUME TypeOK, WorkInv, LogAsked, ReplayInv, NEW W \in SUBSET Workers, Die(W)
    PROVE  ReplayInv'
<1>1. /\ UNCHANGED <<id, status, host, log, lost, asked, met>> /\ partial \subseteq partial'
      /\ \A w \in Workers : \/ pc'[w] = pc[w] /\ req'[w] = req[w]
                            \/ w \in W /\ pc[w] # "idle" /\ pc'[w] = "idle" /\ id[w] \in partial'
      /\ stray' \subseteq stray \cup {id[w] : w \in {v \in W : ~Idle(v)}}
      /\ {id[w] : w \in {v \in W : ~Idle(v)}} \subseteq partial'
  BY DEF Die, Idle, logVars
<1>2. Grows
  BY <1>1 DEF Grows
<1>3. StrayPartial'
  BY <1>1 DEF ReplayInv, StrayPartial
<1>4. OneAtATime'
  BY <1>1, AloneKept DEF ReplayInv
<1>5. \A v \in Workers : Did(v)' => Did(v) /\ req'[v] = req[v] /\ id'[v] = id[v]
                                  /\ req[v].target \in Targets
  BY <1>1, WorkFacts DEF Did, Changes
<1>6. ASSUME NEW t \in Targets, Undisturbed(t)', NEW v \in Workers, Owes(v), req[v].target = t
      PROVE  Owes(v)' /\ req'[v] = req[v]
  <2>1. CASE pc'[v] = pc[v] /\ req'[v] = req[v]
    BY <1>1, <1>6, <2>1 DEF Owes, Did, Changes
  <2>2. CASE pc[v] # "idle" /\ id[v] \in partial'
    <3>1. id[v] \in Concerned(t)'
      BY <1>1, <1>6, <2>2, WorkFacts DEF Concerned
    <3> QED BY <1>6, <2>2, <3>1 DEF Undisturbed
  <2> QED BY <1>1, <2>1, <2>2
<1>7. HostHeld' /\ \A t \in Targets : Undisturbed(t)' => Current(t)'
  BY <1>1, <1>2, <1>5, <1>6, ReplaySilent
<1> QED BY <1>3, <1>4, <1>7 DEF ReplayInv

(* Steps of no worker: a stray command changes a disturbed target only.     *)
LEMMA ReplayRest ==
    ASSUME TypeOK, WorkInv, LogAsked, ReplayInv,
           UNCHANGED <<pc, req, id, status, logVars, histVars>>, stray' \subseteq stray,
           host' = host \/ \E i \in stray : host' = [host EXCEPT ![asked[i].target] = i]
    PROVE  ReplayInv'
<1>1. Grows
  BY DEF Grows, logVars, histVars
<1>2. StrayPartial' /\ OneAtATime'
  BY AloneKept DEF ReplayInv, StrayPartial, histVars
<1>3. ASSUME NEW t \in Targets, Undisturbed(t)' PROVE host'[t] = host[t]
  <2>1. ASSUME NEW i \in stray, host' = [host EXCEPT ![asked[i].target] = i] PROVE host'[t] = host[t]
    <3>1. i \in DOMAIN asked /\ i \in partial'
      BY DEF ReplayInv, StrayPartial, TypeOK, histVars
    <3>2. asked[i].target # t
      BY <1>3, <3>1 DEF Undisturbed, Concerned, histVars
    <3> QED BY <2>1, <3>2 DEF TypeOK
  <2> QED BY <2>1
<1>4. \A v \in Workers : Did(v)' => Did(v) /\ req'[v] = req[v] /\ id'[v] = id[v]
                                  /\ req[v].target \in Targets
  BY WorkFacts DEF Did, Changes
<1>5. \A v \in Workers : Owes(v) => Owes(v)' /\ req'[v] = req[v]
  BY DEF Owes, Did, Changes
<1>6. HostHeld' /\ \A t \in Targets : Undisturbed(t)' => Current(t)'
  BY <1>1, <1>3, <1>4, <1>5, ReplaySilent DEF logVars
<1> QED BY <1>2, <1>6 DEF ReplayInv

LEMMA ReplayStep ==
    ASSUME TypeOK, WorkInv, TrailInv, ReplayInv, [Next]_vars
    PROVE  ReplayInv'
<1> USE DEF TrailInv
<1>1. CASE UNCHANGED vars
  BY <1>1, ReplayRest DEF vars, taskVars, hostVars
<1>2. ASSUME NEW w \in Workers, Leave(w)
      PROVE  ReplayInv'
  BY <1>2, ReplayRest DEF Leave, hostVars
<1>3. ASSUME NEW w \in Workers, ShellDies(w)
      PROVE  ReplayInv'
  BY <1>3, ReplayDie DEF ShellDies
<1>4. Exit \/ Crash => ReplayInv'
  BY ReplayDie DEF Exit, Crash, Workers
<1>5. ASSUME NEW i \in stray, StrayWorks(i) \/ StrayFails(i)
      PROVE  ReplayInv'
  BY <1>5, ReplayRest DEF StrayWorks, StrayFails, ChangeHost, taskVars
<1>6. ASSUME Signal \/ Return \/ Deadline \/ ServeFails \/ CloseLog
      PROVE  ReplayInv'
  <2>1. UNCHANGED <<taskVars, hostVars, logVars, histVars>>
    BY <1>6 DEF Signal, Return, Deadline, ServeFails, CloseLog
  <2> QED BY <2>1, ReplayRest DEF taskVars, hostVars
<1> QED BY <1>1, <1>2, <1>3, <1>4, <1>5, <1>6, ReplayServe, ReplayBegin DEF Next, Arrive, Invoke

(* The last success is one: no two records have the same place.             *)
LEMMA ReplayedLast ==
    ASSUME TypeOK, NEW t, NEW i, LastIs(t, i)
    PROVE  Replayed(t) = i
<1>1. CASE Successes(t) = {}
  BY <1>1 DEF LastIs, Replayed, Successes
<1>2. CASE Successes(t) # {}
  <2>1. PICK k \in Successes(t) : log[k].id = i /\ \A j \in Successes(t) : j <= k
    BY <1>2 DEF LastIs
  <2>2. Successes(t) \subseteq Nat
    BY DEF Successes, TypeOK
  <2>3. \A m \in Successes(t) : (\A j \in Successes(t) : j <= m) => m = k
    BY <2>1, <2>2
  <2>4. (CHOOSE m \in Successes(t) : \A j \in Successes(t) : j <= m) = k
    BY <2>1, <2>3
  <2>5. Replayed(t) = log[CHOOSE m \in Successes(t) : \A j \in Successes(t) : j <= m].id
    BY <1>2 DEF Replayed, Successes
  <2> QED BY <2>1, <2>4, <2>5
<1> QED BY <1>1, <1>2

(* The audit log can be replayed: of a target that requests changed one     *)
(* after the other, none cut off and no record lost, its last success is of *)
(* the request the host's state is from.                                    *)
THEOREM LogTellsHost == Spec => []LogReplays
<1>1. Init => ReplayInv
  BY DEF Init, ReplayInv, StrayPartial, OneAtATime, Idle, HostHeld, Did, Current, LastIs, Successes
<1>2. TypeOK /\ WorkInv /\ TrailInv /\ ReplayInv /\ [Next]_vars => ReplayInv'
  BY ReplayStep
<1>3. TypeOK /\ ReplayInv => LogReplays
  <2> SUFFICES ASSUME TypeOK, ReplayInv, NEW t \in Targets \ met,
                      \A w \in Workers : ~Idle(w) => req[w].target # t,
                      Concerned(t) \cap (lost \cup partial) = {},
                      \A i \in Concerned(t) : asked[i].op = "user" => asked[i].role # "shell"
               PROVE  Replayed(t) = host[t]
    BY DEF LogReplays, Concerned
  <2>1. Current(t)
    BY DEF ReplayInv, Undisturbed
  <2>2. LastIs(t, host[t])
    BY <2>1 DEF Current, Owes, Did, Idle
  <2> QED BY <2>2, ReplayedLast
<1> QED BY <1>1, <1>2, <1>3, TrailKept, PTL DEF Spec
=============================================================================
