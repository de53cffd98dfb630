------------------------------- MODULE Daemon -------------------------------
(***************************************************************************)
(* The life of the agent process: internal/agent/daemon.go under the        *)
(* commands agent start, stop and status of internal/cli/agent.go.          *)
(*                                                                         *)
(* An agent writes its process id to a file, serves HTTP on one port from a *)
(* goroutine of its own, waits for a signal or for the server's error, and  *)
(* removes the file on its way out.  agent stop reads the file and sends a  *)
(* signal; agent status reads it and asks whether that process lives.  The  *)
(* file is not locked, and nothing says whose it is.                        *)
(*                                                                         *)
(* As in Share, X_Something before a definition X is X with a bug.         *)
(***************************************************************************)
CONSTANTS
    Pids,       \* process ids
    NoPid,
    Absent,     \* no PID file
    Garbled,    \* a PID file that holds no number: empty, or a blend of two
    Stoppers,   \* processes of mingyue agent stop
    Careful,    \* is an agent only started when each other one is told to stop
    Others,     \* may other programs run, and get the id of a dead agent
    Crashes,    \* may an agent be killed, or die
    MayFail     \* may the PID file be unwritable, the port be taken

VARIABLES
    life,       \* life[p]: what process p is, "free" when there is none
    pc,         \* pc[p]: what the main goroutine of agent p does next
    srv,        \* srv[p]: the state of its server goroutine
    busy,       \* agents that are serving a request
    quit,       \* agents with a signal in the channel quit
    port,       \* the agent that listens on the port
    pidfile,    \* what the PID file holds
    orphan,     \* agents about to write to a PID file that was removed
    target,     \* target[t]: the id that stop command t has read
    muddled,    \* history: an agent was started while another was alive, or
                \* another program got the id in the PID file
    unclean     \* history: an agent ended without removing the PID file

procVars == <<life, pc, srv, busy, quit, port>>
fileVars == <<pidfile, orphan>>
histVars == <<muddled, unclean>>
vars == <<procVars, fileVars, target, histVars>>

ASSUME DaemonAssumption ==
    /\ NoPid \notin Pids
    /\ {Absent, Garbled} \cap Pids = {}
    /\ Absent # Garbled
    /\ {Careful, Others, Crashes, MayFail} \subseteq BOOLEAN
-----------------------------------------------------------------------------
Init ==
    /\ life = [p \in Pids |-> "free"]
    /\ pc = [p \in Pids |-> "off"]
    /\ srv = [p \in Pids |-> "off"]
    /\ busy = {}
    /\ quit = {}
    /\ port = NoPid
    /\ pidfile = Absent
    /\ orphan = {}
    /\ target = [t \in Stoppers |-> NoPid]
    /\ muddled = FALSE
    /\ unclean = FALSE

Agent(p) == life[p] = "agent"
Goto(p, step) == pc' = [pc EXCEPT ![p] = step]

(* The process is gone; the kernel closes its port. *)
End_Lingers(p) ==
    /\ Goto(p, "off")
    /\ srv' = [srv EXCEPT ![p] = "off"]
    /\ busy' = busy \ {p}
    /\ quit' = quit \ {p}
    /\ port' = IF port = p THEN NoPid ELSE port
    /\ UNCHANGED life
End(p) ==
    /\ life' = [life EXCEPT ![p] = "free"]
    /\ Goto(p, "off")
    /\ srv' = [srv EXCEPT ![p] = "off"]
    /\ busy' = busy \ {p}
    /\ quit' = quit \ {p}
    /\ port' = IF port = p THEN NoPid ELSE port

Die(p) ==
    /\ End(p)
    /\ unclean' = TRUE
    /\ orphan' = orphan \ {p}
    /\ UNCHANGED <<pidfile, muddled>>
-----------------------------------------------------------------------------
(* mingyue agent start, by hand or by systemd.  A careful operator has seen *)
(* "mingyue daemon stopped." for every earlier one.                         *)
Stopping(p) == p \in quit \/ pc[p] \in {"shutdown", "drain", "remove"}

Start(p) ==
    LET living == {q \in Pids : Agent(q)} IN
    /\ life[p] = "free"
    /\ Careful => \A q \in living : Stopping(q)
    /\ life' = [life EXCEPT ![p] = "agent"]
    /\ Goto(p, "open")
    /\ muddled' = (muddled \/ living # {})
    /\ UNCHANGED <<srv, busy, quit, port, fileVars, target, unclean>>

(* writePID, with os.WriteFile: the file is truncated ...                   *)
Open(p) ==
    /\ pc[p] = "open"
    /\ pidfile' = Garbled
    /\ Goto(p, "write")
    /\ UNCHANGED <<life, srv, busy, quit, port, orphan, target, histVars>>

(* ... and the number written to what is still that file, maybe over a      *)
(* longer one.  Then the server goroutine is started.                       *)
Write(p) ==
    /\ pc[p] = "write"
    /\ IF p \in orphan THEN pidfile' = pidfile
       ELSE pidfile' \in {p} \cup (IF pidfile = Garbled THEN {} ELSE {Garbled})
    /\ orphan' = orphan \ {p}
    /\ Goto(p, "notify")
    /\ srv' = [srv EXCEPT ![p] = "bind"]
    /\ UNCHANGED <<life, busy, quit, port, target, histVars>>

(* The file cannot be opened or written: Start returns before it defers     *)
(* removePID.                                                               *)
WriteFails(p) ==
    /\ MayFail
    /\ pc[p] \in {"open", "write"}
    /\ Die(p)
    /\ UNCHANGED target

(* The server goroutine: ListenAndServe. *)
Bind(p) ==
    /\ srv[p] = "bind"
    /\ port = NoPid
    /\ port' = p
    /\ srv' = [srv EXCEPT ![p] = "serving"]
    /\ UNCHANGED <<life, pc, busy, quit, fileVars, target, histVars>>

BindFails(p) ==
    /\ srv[p] = "bind"
    /\ port # NoPid \/ MayFail
    /\ srv' = [srv EXCEPT ![p] = "failed"]
    /\ UNCHANGED <<life, pc, busy, quit, port, fileVars, target, histVars>>

(* A request arrives and ends; nothing says that it ends. *)
Arrive(p) ==
    /\ srv[p] = "serving"
    /\ busy' = busy \cup {p}
    /\ UNCHANGED <<life, pc, srv, quit, port, fileVars, target, histVars>>
Respond(p) ==
    /\ busy' = busy \ {p}
    /\ p \in busy
    /\ UNCHANGED <<life, pc, srv, quit, port, fileVars, target, histVars>>

(* signal.Notify: from here on SIGTERM no longer kills the process. *)
Notify(p) ==
    /\ pc[p] = "notify"
    /\ Goto(p, "select")
    /\ UNCHANGED <<life, srv, busy, quit, port, fileVars, target, histVars>>

(* The select: a signal, or the error of ListenAndServe.  Either way the    *)
(* deferred calls run.                                                      *)
Signalled(p) ==
    /\ pc[p] = "select"
    /\ p \in quit
    /\ Goto(p, "shutdown")
    /\ UNCHANGED <<life, srv, busy, quit, port, fileVars, target, histVars>>

ServerError_Exit(p) ==
    /\ pc[p] = "select"
    /\ srv[p] = "failed"
    /\ End(p)
    /\ UNCHANGED <<fileVars, target, histVars>>
ServerError(p) ==
    /\ pc[p] = "select"
    /\ srv[p] = "failed"
    /\ Goto(p, "remove")
    /\ UNCHANGED <<life, srv, busy, quit, port, fileVars, target, histVars>>
-----------------------------------------------------------------------------
(* Server.Shutdown closes the listener, or keeps it from being opened ...   *)
Shutdown(p) ==
    /\ pc[p] = "shutdown"
    /\ srv' = [srv EXCEPT ![p] = "closed"]
    /\ port' = IF port = p THEN NoPid ELSE port
    /\ Goto(p, "drain")
    /\ UNCHANGED <<life, busy, quit, fileVars, target, histVars>>

(* ... and waits for the requests in progress, for at most 30 seconds.      *)
Drained(p) ==
    /\ pc[p] = "drain"
    /\ p \notin busy
    /\ Goto(p, "remove")
    /\ UNCHANGED <<life, srv, busy, quit, port, fileVars, target, histVars>>

Deadline_None(p) == Drained(p)
Deadline(p) ==
    /\ pc[p] = "drain"
    /\ Goto(p, "remove")
    /\ UNCHANGED <<life, srv, busy, quit, port, fileVars, target, histVars>>

(* removePID removes the PID file, whatever it holds, and the process ends. *)
RemovePID(p) ==
    /\ pc[p] = "remove"
    /\ End(p)
    /\ pidfile' = Absent
    /\ orphan' = {q \in Pids : pc[q] = "write"}
    /\ UNCHANGED <<target, histVars>>

Crash(p) ==
    /\ Crashes
    /\ Agent(p)
    /\ Die(p)
    /\ UNCHANGED target

(* Another program starts and ends. *)
Fork(p) ==
    /\ Others
    /\ life[p] = "free"
    /\ life' = [life EXCEPT ![p] = "other"]
    /\ muddled' = (muddled \/ pidfile = p)
    /\ UNCHANGED <<pc, srv, busy, quit, port, fileVars, target, unclean>>
Reap(p) ==
    /\ life[p] = "other"
    /\ life' = [life EXCEPT ![p] = "free"]
    /\ UNCHANGED <<pc, srv, busy, quit, port, fileVars, target, histVars>>
-----------------------------------------------------------------------------
(* mingyue agent stop reads the PID file; without a number in it, it ends.  *)
ReadPID(t) ==
    /\ target[t] = NoPid
    /\ pidfile \in Pids
    /\ target' = [target EXCEPT ![t] = pidfile]
    /\ UNCHANGED <<procVars, fileVars, histVars>>

(* It sends SIGTERM and ends.  An agent that has not called Notify yet, or   *)
(* has run its deferred signal.Stop, dies; so does another program.         *)
Notified(p) == pc[p] \in {"select", "shutdown", "drain"}

Terminate(t) ==
    LET p == target[t] IN
    /\ p # NoPid
    /\ target' = [target EXCEPT ![t] = NoPid]
    /\ \/ Agent(p) /\ Notified(p) /\ quit' = quit \cup {p}
          /\ UNCHANGED <<life, pc, srv, busy, port, fileVars, histVars>>
       \/ Agent(p) /\ ~Notified(p) /\ Die(p)
       \/ life[p] = "other" /\ life' = [life EXCEPT ![p] = "free"]
          /\ UNCHANGED <<pc, srv, busy, quit, port, fileVars, histVars>>
       \/ life[p] = "free" /\ UNCHANGED <<procVars, fileVars, histVars>>

(* What agent status answers: the number in the file is that of a process.  *)
StatusRunning_FileOnly == pidfile \in Pids
StatusRunning == pidfile \in Pids /\ life[pidfile] # "free"

Steps(p) ==
    \/ Open(p) \/ Write(p) \/ Notify(p) \/ Bind(p) \/ BindFails(p)
    \/ Signalled(p) \/ ServerError(p) \/ Shutdown(p) \/ Drained(p)
    \/ Deadline(p) \/ RemovePID(p)

Next ==
    \/ \E p \in Pids : \/ Start(p) \/ Steps(p) \/ WriteFails(p) \/ Arrive(p)
                       \/ Respond(p) \/ Crash(p) \/ Fork(p) \/ Reap(p)
    \/ \E t \in Stoppers : ReadPID(t) \/ Terminate(t)

Spec == Init /\ [][Next]_vars

(* The main goroutine and the server's run, and the timer of the 30 seconds *)
(* fires.  Nothing is assumed of requests, commands and other programs.     *)
FairSpec == Spec /\ \A p \in Pids : WF_vars(Steps(p))
-----------------------------------------------------------------------------
(* Every variable stays within its type; what is no agent has no state.     *)
TypeOK ==
    /\ life \in [Pids -> {"free", "agent", "other"}]
    /\ pc \in [Pids -> {"off", "open", "write", "notify", "select", "shutdown",
                        "drain", "remove"}]
    /\ srv \in [Pids -> {"off", "bind", "serving", "failed", "closed"}]
    /\ busy \subseteq Pids
    /\ quit \subseteq Pids
    /\ port \in Pids \cup {NoPid}
    /\ pidfile \in Pids \cup {Absent, Garbled}
    /\ orphan \subseteq Pids
    /\ target \in [Stoppers -> Pids \cup {NoPid}]
    /\ muddled \in BOOLEAN
    /\ unclean \in BOOLEAN
    /\ \A p \in Pids : ~Agent(p) <=> pc[p] = "off"

(* No agent is on its way up or down. *)
Settled == \A p \in Pids : Agent(p) => pc[p] = "select" /\ srv[p] = "serving" /\ p \notin quit

(* What status says is whether an agent serves ("Status returns a           *)
(* human-readable string describing whether the agent is running").         *)
StatusDescribes == Settled => (StatusRunning <=> \E p \in Pids : Agent(p))

(* It is so in spite of kills, crashes and failures, as long as agents do   *)
(* not overlap and no other program gets the id of a dead one.              *)
StatusTrue == ~muddled => StatusDescribes

(* Agents that end in order, after a signal or after the server's error,    *)
(* leave no PID file behind.                                                *)
CleanExit ==
    ~muddled /\ ~unclean /\ (\A p \in Pids : ~Agent(p)) => pidfile = Absent

(* The inductive invariant behind these two: with one agent at a time, the   *)
(* file holds its number from the write to the removal.                     *)
Placed(p) ==
    /\ pc[p] = "write" => pidfile = Garbled
    /\ pc[p] \notin {"off", "open", "write"} => pidfile = p
OneAgent ==
    /\ \A p, q \in Pids : Agent(p) /\ Agent(q) => p = q
    /\ \A p \in Pids : Placed(p)
    /\ \A p \in Pids : pidfile = p => life[p] # "other"
    /\ orphan = {}
    /\ unclean \/ pidfile = Absent \/ \E p \in Pids : pc[p] \notin {"off", "open"}
PidInv == ~muddled => OneAgent

(* An agent that received a signal ends, whatever its requests do (the      *)
(* deadline of Shutdown).                                                   *)
SignalledEnds == \A p \in Pids : p \in quit ~> p \notin quit
=============================================================================
