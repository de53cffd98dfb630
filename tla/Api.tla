-------------------------------- MODULE Api --------------------------------
EXTENDS Naturals, Sequences

(***************************************************************************)
(* The way of a request through the program: internal/api (router.go, the   *)
(* handlers, middleware/auth.go and middleware/audit.go), the services that *)
(* run commands (process, network, acl, disk power, Samba users), the audit *)
(* log (internal/audit), and the end of the agent (internal/agent,          *)
(* internal/cli/agent.go), which closes that log.                           *)
(*                                                                         *)
(* Mounts, shares and files pass through the same steps; what they do is    *)
(* in modules of their own, and a step of their service is one step here.   *)
(* What a change does to the host is abstracted to which request changed a  *)
(* target last; a status code to the outcomes the properties tell apart.    *)
(***************************************************************************)
CONSTANTS
    Handlers,      \* goroutines of the agent, one for each HTTP request
    Shells,        \* CLI commands, each a process of its own
    Targets,       \* process ids, interfaces, paths, devices, users ...
    Requests,      \* the requests clients make, a subset of Request
    NoRequest,     \* a worker that has nothing to do
    FailingOps,    \* operations whose command may fail
    LogFails,      \* may a write to the audit log fail
    Breaks,        \* what else may happen: "leave", "die", "deadline", "serve", "crash"
    MaxRequests    \* bound on the number of requests of a behaviour

Workers == Handlers \cup Shells

Changing == {"kill", "link", "dhcp", "acl", "power", "user", "mount", "share", "file"}
Op == Changing \cup {"read"}

(* What roleOrder knows; a request without a valid key has no role, and one  *)
(* of the command line is made with the rights of its user on the host.      *)
RoleOrder == [none |-> 0, viewer |-> 1, operator |-> 2, admin |-> 3, shell |-> 4]
HasRole(role, minimum) == RoleOrder[role] >= RoleOrder[minimum]

(* A form is refused by the handler ("bad"), or only by the service, which   *)
(* records it (a power mode it does not know, "odd"); of an HTTP request the *)
(* path may be one that net/http redirects before any handler sees it, such  *)
(* as one with a double slash ("unclean").                                   *)
Request == [op : Op, target : Targets, role : DOMAIN RoleOrder,
            form : {"ok", "bad", "odd", "unclean"}]

Status == {"none", "ok", "failed", "missing", "refused", "moved"}
Record == [id : 1 .. MaxRequests, layer : {"service", "http"}, ok : BOOLEAN]
Told   == [id : 1 .. MaxRequests, status : Status]

VARIABLES
    phase,    \* the agent: serving, draining (Shutdown), returned (from
              \* Start), closed (the log), exited
    cut,      \* the agent ended without waiting for its requests
    pc,       \* pc[w]: what worker w does next
    req,      \* req[w]: the request it runs
    id,       \* id[w]: the number of that request
    tries,    \* tries[w]: commands it has left to try
    status,   \* status[w]: what it will answer
    left,     \* left[w]: the request's context has ended: its client has
              \* left, or the time of a CLI command is over
    asked,    \* history: the requests in the order they came
    host,     \* host[t]: the request that changed target t last, 0: none
    stray,    \* requests whose command outlives the process that ran it
    log,      \* the audit log
    made,     \* history: requests that changed their target
    told,     \* history: the answers that clients have got
    lost,     \* history: requests a record of which was not written
    partial,  \* history: requests whose command failed or which died
    met       \* history: targets two requests were at work on at once

agentVars == <<phase, cut>>
taskVars  == <<pc, req, id, tries, status, left>>
hostVars  == <<host, stray, made>>
logVars   == <<log, lost>>
histVars  == <<asked, told, partial, met>>
vars      == <<agentVars, taskVars, hostVars, logVars, histVars>>

ASSUME ApiAssumption ==
    /\ Handlers \cap Shells = {}
    /\ Requests \subseteq Request
    /\ \A r \in Requests : r.form = "unclean" => r.role # "shell"
    /\ NoRequest \notin Request
    /\ FailingOps \subseteq Changing
    /\ LogFails \in BOOLEAN
    /\ MaxRequests \in Nat
-----------------------------------------------------------------------------
(* The role a handler asks for, route by route.  Reading asks for a valid    *)
(* key and no more.                                                          *)
ProcessRole == "operator"
NetworkRole_Operator == "operator"
NetworkRole == "admin"
AclRole == "operator"
PowerRole == "operator"
UserRole == "operator"
MountRole == "operator"
Needs(op) == CASE op = "kill"             -> ProcessRole
               [] op \in {"link", "dhcp"} -> NetworkRole
               [] op = "acl"              -> AclRole
               [] op = "power"            -> PowerRole
               [] op = "user"             -> UserRole
               [] op \in {"mount", "share", "file"} -> MountRole
               [] op = "read"             -> "viewer"

(* The services: how many commands an operation tries, one after the other;  *)
(* whether they are killed when the context of the request ends; whether     *)
(* the service records the attempt; whether it may find its target missing   *)
(* and then return without a record.                                         *)
Service(commands, killed, recorded, silent) ==
    [commands |-> commands, killed |-> killed, recorded |-> recorded, silent |-> silent]

KillService  == Service(1, FALSE, TRUE, FALSE)
LinkService_Silent == Service(1, TRUE, FALSE, FALSE)
LinkService  == Service(1, TRUE, TRUE, FALSE)
DhcpService  == Service(2, TRUE, TRUE, FALSE)
AclService   == Service(1, TRUE, TRUE, FALSE)
PowerService == Service(1, TRUE, TRUE, FALSE)
UserService  == Service(1, TRUE, FALSE, FALSE)
MountService == Service(1, TRUE, TRUE, TRUE)
ShareService == Service(1, TRUE, TRUE, TRUE)
FileService  == Service(1, FALSE, TRUE, FALSE)
ReadService  == Service(1, TRUE, FALSE, FALSE)

Services == [op \in Op |->
    CASE op = "kill"  -> KillService  [] op = "link"  -> LinkService
      [] op = "dhcp"  -> DhcpService  [] op = "acl"   -> AclService
      [] op = "power" -> PowerService [] op = "user"  -> UserService
      [] op = "mount" -> MountService [] op = "share" -> ShareService
      [] op = "file"  -> FileService  [] op = "read"  -> ReadService]

Serves(w) == Services[req[w].op]
Changes(w) == req[w].op \in Changing
-----------------------------------------------------------------------------
PCs == {"idle", "admit", "run", "busy", "record", "log", "reply"}

Init ==
    /\ phase = "serving"
    /\ cut = FALSE
    /\ pc = [w \in Workers |-> "idle"]
    /\ req = [w \in Workers |-> NoRequest]
    /\ id = [w \in Workers |-> 0]
    /\ tries = [w \in Workers |-> 0]
    /\ status = [w \in Workers |-> "none"]
    /\ left = [w \in Workers |-> FALSE]
    /\ asked = <<>>
    /\ host = [t \in Targets |-> 0]
    /\ log = <<>>
    /\ stray = {} /\ made = {} /\ told = {} /\ lost = {} /\ partial = {} /\ met = {}
-----------------------------------------------------------------------------
Idle(w) == pc[w] = "idle"
Goto(w, step) == pc' = [pc EXCEPT ![w] = step]

(* The log of a CLI command is its own; that of the agent is closed when     *)
(* Start has returned.  A record that cannot be written is given up.         *)
LogOpen(w) == w \in Shells \/ phase \in {"serving", "draining", "returned"}

WriteRecord(w, layer, ok) ==
    \/ /\ LogOpen(w)
       /\ log' = Append(log, [id |-> id[w], layer |-> layer, ok |-> ok])
       /\ UNCHANGED lost
    \/ /\ ~LogOpen(w) \/ LogFails
       /\ lost' = lost \cup {id[w]}
       /\ UNCHANGED log

ChangeHost(i) ==
    /\ host' = [host EXCEPT ![asked[i].target] = i]
    /\ made' = made \cup {i}

(* After the service the answer passes the audit middleware, unless it is    *)
(* one to a request that changes nothing or to a CLI command.                *)
AfterService_NoRefusals(w, s) ==
    IF w \in Handlers /\ Changes(w) /\ s # "refused" THEN "log" ELSE "reply"
AfterService(w, s) == IF w \in Handlers /\ Changes(w) THEN "log" ELSE "reply"

Answer(w, s) ==
    /\ status' = [status EXCEPT ![w] = s]
    /\ Goto(w, AfterService(w, s))
-----------------------------------------------------------------------------
Begin(w, r) ==
    /\ Idle(w)
    /\ Len(asked) < MaxRequests
    /\ asked' = Append(asked, r)
    /\ Goto(w, "admit")
    /\ req' = [req EXCEPT ![w] = r]
    /\ id' = [id EXCEPT ![w] = Len(asked')]
    /\ status' = [status EXCEPT ![w] = "none"]
    /\ left' = [left EXCEPT ![w] = FALSE]
    /\ met' = IF \E v \in Workers : ~Idle(v) /\ req[v].target = r.target
              THEN met \cup {r.target} ELSE met
    /\ UNCHANGED <<agentVars, tries, hostVars, logVars, told, partial>>

(* A request arrives.  While Shutdown drains the server, one may still come  *)
(* on a connection that was accepted before.                                 *)
Arrive(w, r) == w \in Handlers /\ r.role # "shell" /\ phase \in {"serving", "draining"} /\ Begin(w, r)

(* A command is typed.                                                       *)
Invoke(w, r) == w \in Shells /\ r.role = "shell" /\ Begin(w, r)

(* The middleware checks the key, the handler the role and the form of the   *)
(* request; which comes first shows in the status code only.  A command      *)
(* checks its arguments.  The mux redirects an unclean path before all that. *)
Refuses(r) == r.form \in {"bad", "unclean"} \/ ~HasRole(r.role, Needs(r.op))
Refusal(r) == IF r.form = "unclean" THEN "moved" ELSE "refused"

Admit(w) ==
    /\ pc[w] = "admit"
    /\ IF Refuses(req[w])
       THEN Answer(w, Refusal(req[w])) /\ UNCHANGED tries
       ELSE /\ Goto(w, "run")
            /\ tries' = [tries EXCEPT ![w] = Serves(w).commands]
            /\ UNCHANGED status
    /\ UNCHANGED <<agentVars, req, id, left, hostVars, logVars, histVars>>

(* The service starts its command, or its own work.  A command is not        *)
(* started any more when the context has ended.                              *)
Dead(w) == left[w] /\ Serves(w).killed

Start(w) ==
    /\ pc[w] = "run"
    /\ req[w].form # "odd" /\ ~Dead(w)
    /\ Goto(w, "busy")
    /\ UNCHANGED <<agentVars, req, id, tries, status, left, hostVars, logVars, histVars>>

Works(w) ==
    /\ pc[w] = "busy"
    /\ IF Changes(w) THEN ChangeHost(id[w]) ELSE UNCHANGED <<host, made>>
    /\ status' = [status EXCEPT ![w] = "ok"]
    /\ Goto(w, "record")
    /\ UNCHANGED <<agentVars, req, id, tries, left, stray, logVars, histVars>>

(* It fails.  dhcpcd is tried after dhclient, and reading an ACL makes do    *)
(* without what getfacl would have told.                                     *)
NextTry_Endless(w) ==
    /\ tries' = [tries EXCEPT ![w] = @ - 1]
    /\ Goto(w, "run") /\ UNCHANGED status
NextTry(w) ==
    /\ tries' = [tries EXCEPT ![w] = @ - 1]
    /\ IF tries[w] > 1
       THEN Goto(w, "run") /\ UNCHANGED status
       ELSE /\ Goto(w, "record")
            /\ \E s \in IF Changes(w) THEN {"failed"} ELSE {"failed", "ok"} :
                  status' = [status EXCEPT ![w] = s]

NotStarted(w) ==
    /\ pc[w] = "run"
    /\ req[w].form = "odd" \/ Dead(w)
    /\ NextTry(w)
    /\ UNCHANGED <<agentVars, req, id, left, hostVars, logVars, histVars>>

(* A command that fails or is killed may have changed its target all the     *)
(* same; a signal or a read that fails has not.                              *)
Fails(w) ==
    /\ pc[w] = "busy"
    /\ req[w].op \in FailingOps \/ Dead(w)
    /\ NextTry(w)
    /\ \/ UNCHANGED <<host, made, partial>>
       \/ /\ req[w].op \in Changing \ {"kill"}
          /\ ChangeHost(id[w])
          /\ partial' = partial \cup {id[w]}
    /\ UNCHANGED <<agentVars, req, id, left, stray, logVars, asked, told, met>>

(* A share that is not there, a mount table that cannot be read: the service *)
(* returns without a record.                                                 *)
Missing(w) ==
    /\ pc[w] = "busy"
    /\ Serves(w).silent
    /\ Answer(w, "missing")
    /\ UNCHANGED <<agentVars, req, id, tries, left, hostVars, logVars, histVars>>

(* The service records the attempt and the handler writes its answer.        *)
RecordAttempt(w) ==
    /\ pc[w] = "record"
    /\ IF Serves(w).recorded THEN WriteRecord(w, "service", status[w] = "ok")
                             ELSE UNCHANGED logVars
    /\ Goto(w, AfterService(w, status[w]))
    /\ UNCHANGED <<agentVars, req, id, tries, status, left, hostVars, histVars>>

(* The audit middleware records the status code it has seen pass, and calls  *)
(* each below 400 a success, that of a redirect too.                         *)
Seen_Default(w) == TRUE
Good(s) == s \in {"ok", "moved"}
Seen(w) == Good(status[w])

LogRequest(w) ==
    /\ pc[w] = "log"
    /\ WriteRecord(w, "http", Seen(w))
    /\ Goto(w, "reply")
    /\ UNCHANGED <<agentVars, req, id, tries, status, left, hostVars, histVars>>

(* The outermost handler has returned, and only now net/http sends what it   *)
(* has buffered; a client that has left does not get it.                     *)
Reply(w) ==
    /\ pc[w] = "reply"
    /\ told' = IF w \in Handlers /\ left[w] THEN told
               ELSE told \cup {[id |-> id[w], status |-> status[w]]}
    /\ Goto(w, "idle")
    /\ req' = [req EXCEPT ![w] = NoRequest]
    /\ UNCHANGED <<agentVars, id, tries, status, left, hostVars, logVars, asked, partial, met>>
-----------------------------------------------------------------------------
(* The context of a request ends.                                            *)
Leave(w) ==
    /\ "leave" \in Breaks
    /\ ~Idle(w) /\ ~left[w]
    /\ left' = [left EXCEPT ![w] = TRUE]
    /\ UNCHANGED <<agentVars, pc, req, id, tries, status, hostVars, logVars, histVars>>

(* Workers die with their process.  The command one has started runs on.     *)
Die(W) ==
    LET dying == {w \in W : ~Idle(w)} IN
    /\ pc' = [w \in Workers |-> IF w \in dying THEN "idle" ELSE pc[w]]
    /\ req' = [w \in Workers |-> IF w \in dying THEN NoRequest ELSE req[w]]
    /\ partial' = partial \cup {id[w] : w \in dying}
    /\ stray' = stray \cup {id[w] : w \in {v \in dying : pc[v] = "busy" /\ Serves(v).killed}}
    /\ UNCHANGED <<id, tries, status, left, host, made, logVars, asked, told, met>>

ShellDies(w) ==
    /\ "die" \in Breaks
    /\ w \in Shells /\ ~Idle(w)
    /\ Die({w})
    /\ UNCHANGED agentVars

StrayWorks(i) ==
    /\ i \in stray
    /\ stray' = stray \ {i}
    /\ IF asked[i].op \in Changing THEN ChangeHost(i) ELSE UNCHANGED <<host, made>>
    /\ UNCHANGED <<agentVars, taskVars, logVars, histVars>>

StrayFails(i) ==
    /\ i \in stray
    /\ stray' = stray \ {i}
    /\ UNCHANGED <<agentVars, taskVars, host, made, logVars, histVars>>
-----------------------------------------------------------------------------
(* The agent gets a signal and drains its server: Start returns when no      *)
(* request is at work, or when the deadline has passed ...                   *)
Signal ==
    /\ phase = "serving"
    /\ phase' = "draining"
    /\ UNCHANGED <<cut, taskVars, hostVars, logVars, histVars>>

Drained_AtOnce == phase = "draining"
Drained == phase = "draining" /\ \A w \in Handlers : Idle(w)

Return ==
    /\ Drained
    /\ phase' = "returned"
    /\ UNCHANGED <<cut, taskVars, hostVars, logVars, histVars>>

Deadline ==
    /\ "deadline" \in Breaks
    /\ phase = "draining"
    /\ phase' = "returned" /\ cut' = TRUE
    /\ UNCHANGED <<taskVars, hostVars, logVars, histVars>>

(* ... or when the server fails, without waiting for anything.               *)
ServeFails ==
    /\ "serve" \in Breaks
    /\ phase = "serving"
    /\ phase' = "returned" /\ cut' = TRUE
    /\ UNCHANGED <<taskVars, hostVars, logVars, histVars>>

(* Then the log is closed, and the process ends.                             *)
CloseLog ==
    /\ phase = "returned"
    /\ phase' = "closed"
    /\ UNCHANGED <<cut, taskVars, hostVars, logVars, histVars>>

Exit ==
    /\ phase = "closed"
    /\ phase' = "exited"
    /\ Die(Handlers)
    /\ UNCHANGED cut

Crash ==
    /\ "crash" \in Breaks
    /\ phase # "exited"
    /\ phase' = "exited" /\ cut' = TRUE
    /\ Die(Handlers)
-----------------------------------------------------------------------------
Serve(w) == \/ Admit(w) \/ Start(w) \/ Works(w) \/ NotStarted(w) \/ Fails(w)
            \/ Missing(w) \/ RecordAttempt(w) \/ LogRequest(w) \/ Reply(w)

Next ==
    \/ \E w \in Workers : Serve(w) \/ Leave(w) \/ ShellDies(w)
    \/ \E w \in Workers, r \in Requests : Arrive(w, r) \/ Invoke(w, r)
    \/ \E i \in stray : StrayWorks(i) \/ StrayFails(i)
    \/ Signal \/ Return \/ Deadline \/ ServeFails \/ CloseLog \/ Exit \/ Crash

Spec == Init /\ [][Next]_vars
-----------------------------------------------------------------------------
(* Every variable stays within its type. *)
TypeOK ==
    /\ phase \in {"serving", "draining", "returned", "closed", "exited"}
    /\ cut \in BOOLEAN
    /\ pc \in [Workers -> PCs]
    /\ req \in [Workers -> Request \cup {NoRequest}]
    /\ id \in [Workers -> 0 .. MaxRequests]
    /\ tries \in [Workers -> 0 .. 2]
    /\ status \in [Workers -> Status]
    /\ left \in [Workers -> BOOLEAN]
    /\ asked \in Seq(Requests) /\ Len(asked) <= MaxRequests
    /\ host \in [Targets -> 0 .. MaxRequests]
    /\ log \in Seq(Record)
    /\ stray \subseteq DOMAIN asked /\ made \subseteq DOMAIN asked
    /\ lost \subseteq DOMAIN asked /\ partial \subseteq DOMAIN asked
    /\ told \subseteq Told /\ \A t \in told : t.id \in DOMAIN asked
    /\ met \subseteq Targets

(* Who may do what, as docs/api/openapi.yaml:11 has it; the command line is  *)
(* ruled by the host.                                                        *)
Permitted(op) ==
    {"shell", "admin"} \cup (IF op \in {"link", "dhcp"} THEN {} ELSE {"operator"})
                       \cup (IF op = "read" THEN {"viewer"} ELSE {})

(* The host is changed, and something is read, only for someone permitted,   *)
(* also by a command that is killed half-way or that outlives its request.   *)
OnlyAuthorized ==
    /\ \A i \in made : asked[i].role \in Permitted(asked[i].op)
    /\ \A t \in told : t.status = "ok" => asked[t.id].role \in Permitted(asked[t.id].op)

Recorded(i, layer, ok) ==
    \E k \in DOMAIN log : log[k] = [id |-> i, layer |-> layer, ok |-> ok]

(* Whoever has been told the outcome of a change finds it in the log: from   *)
(* the middleware when it came by HTTP, refusals included, and from the      *)
(* service when it recorded it; unless a write to the log failed or came too *)
(* late.  (Samba users, and a target that is missing, have no service        *)
(* record; the middleware's of a redirect is one of success.)                *)
AckedRecorded ==
    \A t \in told :
       LET r == asked[t.id] IN
       r.op \in Changing /\ t.id \notin lost =>
          /\ r.role # "shell" => Recorded(t.id, "http", Good(t.status))
          /\ t.status \in {"ok", "failed"} /\ r.op # "user" =>
                Recorded(t.id, "service", t.status = "ok")

(* A record that claims a change: one of success, other than the success     *)
(* that the middleware sees in a redirect, which its status code tells.      *)
Claims(e) == e.ok /\ asked[e.id].form # "unclean"

(* The log claims only what was made, calls nothing but a redirect a success *)
(* besides, each layer speaks once of a request, the service first, and the  *)
(* layers never contradict each other.                                       *)
RecordsTrue ==
    \A k \in DOMAIN log :
       /\ Claims(log[k]) => log[k].id \in made
       /\ log[k].ok /\ ~Claims(log[k]) => log[k].layer = "http"
       /\ \A j \in 1 .. k - 1 : log[j].id = log[k].id =>
             log[j].layer = "service" /\ log[k].layer = "http" /\ log[j].ok = log[k].ok

(* When the agent has stopped without reaching its deadline, no request is   *)
(* at work any more, and the log has the middleware's record of every change *)
(* that was made by HTTP, also for clients that left before the answer: no   *)
(* record comes too late for the log, only a write may fail.                 *)
CleanStop ==
    ~cut /\ phase \in {"returned", "closed", "exited"} =>
       /\ \A w \in Handlers : Idle(w)
       /\ \A i \in made \ lost : asked[i].role # "shell" =>
             \E ok \in BOOLEAN : Recorded(i, "http", ok)

(* The log tells what the host's state is (internal/audit/logger.go:2): when *)
(* nothing is at work, the last change it claims of a target is the last one *)
(* that was made; if no two requests met at the target, none died or failed  *)
(* half-way, no record was lost, and no Samba user was changed by a command, *)
(* which leaves no record.                                                   *)
Replayed(t) ==
    LET successes == {k \in DOMAIN log :
                         Claims(log[k]) /\ asked[log[k].id].target = t}
    IN  IF successes = {} THEN 0
        ELSE log[CHOOSE k \in successes : \A j \in successes : j <= k].id

LogReplays ==
    \A t \in Targets \ met :
       LET concerned == {i \in DOMAIN asked : asked[i].target = t} IN
       /\ \A w \in Workers : ~Idle(w) => req[w].target # t
       /\ concerned \cap (lost \cup partial) = {}
       /\ \A i \in concerned : asked[i].op = "user" => asked[i].role # "shell"
       => Replayed(t) = host[t]
=============================================================================
