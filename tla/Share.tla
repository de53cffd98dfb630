------------------------------- MODULE Share -------------------------------
EXTENDS Naturals

(***************************************************************************)
(* The share service: internal/service/share (manager.go, filebackend.go)  *)
(* behind the HTTP handlers of internal/api (share.go, smb.go, nfs.go) and *)
(* the commands of internal/cli (share.go, smb.go, nfs.go).                *)
(*                                                                         *)
(* A process (the agent, or one CLI command) loads shares.json into its    *)
(* own memory when it starts.  A worker (an HTTP handler goroutine, or the *)
(* one goroutine of a CLI command) changes that memory under the backend's *)
(* mutex and then, holding NO lock, rewrites three files and asks smbd and *)
(* nfsd to reload.  When that fails it puts the files back, and the        *)
(* Manager undoes the change in memory.                                    *)
(*                                                                         *)
(* An operator whose name ends in _Something, before a definition X, is X   *)
(* with a plausible bug: each property is shown to fail under one of them.  *)
(*                                                                         *)
(* A map of shares keyed by name is a set of share records in which a name *)
(* occurs once.  Fields of a share that no step looks at are Data.         *)
(***************************************************************************)
CONSTANTS
    Names,            \* share names that pass validateShare
    BadName,          \* stands for "", or a name with a slash
    Data,             \* path, comment, hosts, masks ...: never inspected
    Requests,         \* the requests clients make, a subset of Request
    Initial,          \* the shares an earlier run of the program left on disk
    Procs,            \* processes: the agent, CLI commands
    Workers,          \* goroutines that run requests
    Host,             \* the process each worker belongs to
    NoRequest,        \* a worker that has nothing to do
    Absent,           \* a file that does not exist
    Empty,            \* a file truncated and not yet written
    Torn,             \* a file that holds part of a write, or two mixed
    FailingReads,     \* files that may turn out to be unreadable
    FailingWrites,    \* files whose write may fail (disk full, permissions)
    FailingCommands,  \* services whose reload command may fail
    Overlap,          \* may a request start while another one runs
    Ends,             \* ways a process may end: "stop", "crash"
    MaxRequests       \* bound on the number of requests of a behaviour

Service == {"smb", "nfs"}
File    == {"state"} \cup Service    \* shares.json, mingyue.conf, mingyue.exports

Shares  == [name : Names \cup {BadName}, type : Service \cup {"other"},
            enabled : BOOLEAN, data : Data]
ShareOp == {"create", "update", "delete"}
Request == [op : ShareOp, via : {"share"} \cup Service, share : Shares]
Content == {Absent, Empty, Torn} \cup SUBSET Shares

VARIABLES
    up,       \* up[p]: process p runs
    mem,      \* mem[p]: fileBackend.shares of process p
    file,     \* file[f]: what the file holds on disk
    loaded,   \* loaded[s]: the shares the service serves
    pc,       \* pc[w]: what worker w does next
    req,      \* req[w]: the request worker w runs
    local,    \* local[w]: its local variables, see Locals
    orphan,   \* workers whose open file another worker has removed
    audit,    \* audit[w]: the result it logged for its request, or "none"
    started,  \* requests started so far
    acked,    \* history: acked[p]: the shares process p found when it
              \* started, and what its successful answers made of them
    unsure,   \* history: names of requests that overlapped or were killed
    ever      \* history: every map the memory of some process has been

procVars == <<up, mem>>
diskVars == <<file, loaded, orphan>>
taskVars == <<pc, req, local, audit>>
histVars == <<acked, unsure, ever>>
vars     == <<procVars, diskVars, taskVars, started, histVars>>
-----------------------------------------------------------------------------
(* Maps of shares. *)
Named(m, n) == {s \in m : s.name = n}
Without(m, n) == {s \in m : s.name # n}
Put(m, s) == Without(m, s.name) \cup {s}

(* What validateShare accepts. *)
ValidShare(s) == s.name \in Names /\ s.type \in Service

IsMap(m) == \A s, t \in m : s.name = t.name => s = t

(* json.Unmarshal of a state file: anything but a whole file gives no shares. *)
Parse(c) == IF c \in {Absent, Empty, Torn} THEN {} ELSE c

(* diskHasShareTypes, and the same loop over the shares being saved. *)
TypesIn(m) == {s.type : s \in m}

(* The text written to a file for the shares m.  A disabled Samba share is  *)
(* kept as a comment, a disabled NFS share is left out.                     *)
Text(f, m) == CASE f = "state" -> m
                [] f = "smb"   -> {s \in m : s.type = "smb"}
                [] f = "nfs"   -> {s \in m : s.type = "nfs" /\ s.enabled}

(* What a service that reads a configuration file serves afterwards. *)
Served(c) == IF c = Torn THEN Torn ELSE {s \in Parse(c) : s.enabled}

NextFile_PastEnd(f) == CASE f = "state" -> "smb" [] f = "smb" -> "nfs" [] OTHER -> ""
NextFile(f) == IF f = "state" THEN "smb" ELSE "nfs"

ASSUME ShareAssumption ==
    /\ BadName \notin Names
    /\ Requests \subseteq Request
    /\ Initial \subseteq Shares
    /\ IsMap(Initial)
    /\ \A s \in Initial : ValidShare(s)
    /\ NoRequest \notin Request
    /\ Absent # Empty /\ Absent # Torn /\ Empty # Torn
    /\ Host \in [Workers -> Procs]
    /\ FailingReads \subseteq File
    /\ FailingWrites \subseteq File
    /\ FailingCommands \subseteq Service
    /\ Overlap \in BOOLEAN
    /\ Ends \subseteq {"stop", "crash"}
    /\ MaxRequests \in Nat
-----------------------------------------------------------------------------
NoText   == [f \in File |-> Absent]
NoLocals == [prev |-> {}, snap |-> {}, old |-> NoText, at |-> "state"]
Locals   == [prev : SUBSET Shares,          \* the share before the change
             snap : SUBSET Shares,          \* the shares Reload writes out
             old  : [File -> Content],      \* the files Reload found
             at   : File]                   \* the file or service it is at

PCs == {"idle", "check", "validate", "get", "apply", "snapshot", "read",
        "open", "write", "command", "restore", "rewrite", "undo"}

Init ==
    /\ up = [p \in Procs |-> FALSE]
    /\ mem = [p \in Procs |-> {}]
    /\ file = [f \in File |-> IF Initial = {} THEN Absent ELSE Text(f, Initial)]
    /\ loaded = [s \in Service |-> Served(Text(s, Initial))]
    /\ pc = [w \in Workers |-> "idle"]
    /\ req = [w \in Workers |-> NoRequest]
    /\ local = [w \in Workers |-> NoLocals]
    /\ orphan = {}
    /\ audit = [w \in Workers |-> "none"]
    /\ started = 0
    /\ acked = [p \in Procs |-> Initial]
    /\ unsure = {}
    /\ ever = {{}, Initial}
-----------------------------------------------------------------------------
Idle(w) == pc[w] = "idle"
Hosted(p) == {w \in Workers : Host[w] = p}
Name(w) == req[w].share.name
Mine(w) == mem[Host[w]]
Found(w) == Named(Mine(w), Name(w))

Goto(w, step) == pc' = [pc EXCEPT ![w] = step]
SetMem(p, m) == mem' = [mem EXCEPT ![p] = m] /\ ever' = ever \cup {m}

(* The request is answered; result is what logAudit recorded, if anything. *)
Finish(w, result) ==
    /\ Goto(w, "idle")
    /\ req' = [req EXCEPT ![w] = NoRequest]
    /\ local' = [local EXCEPT ![w] = NoLocals]
    /\ audit' = [audit EXCEPT ![w] = result]

(* The request is answered with an error. *)
Fail(w, result) == Finish(w, result) /\ UNCHANGED acked

(* The request is answered with success. *)
Succeed(w) ==
    /\ Finish(w, "success")
    /\ acked' = [acked EXCEPT ![Host[w]] =
                    IF req[w].op = "delete" THEN Without(@, Name(w))
                                            ELSE Put(@, req[w].share)]
-----------------------------------------------------------------------------
(* os.ReadFile, whose error load logs and Reload ignores: each goes on with  *)
(* nothing, or with the beginning of the file.                               *)
ReadOf(f) ==
    {file[f]} \cup IF f \in FailingReads /\ file[f] # Absent THEN {Absent, Torn} ELSE {}

(* A process starts and reads the state file into its memory. *)
Start(p) ==
    /\ ~up[p]
    /\ up' = [up EXCEPT ![p] = TRUE]
    /\ \E c \in ReadOf("state") :
          /\ SetMem(p, Parse(c))
          /\ acked' = [acked EXCEPT ![p] = Parse(c)]
    /\ UNCHANGED <<diskVars, taskVars, started, unsure>>

(* A process with nothing to do ends: its memory is gone. *)
Stop(p) ==
    /\ "stop" \in Ends
    /\ up[p]
    /\ \A w \in Hosted(p) : Idle(w)
    /\ up' = [up EXCEPT ![p] = FALSE]
    /\ mem' = [mem EXCEPT ![p] = {}]
    /\ UNCHANGED <<diskVars, taskVars, started, histVars>>

(* A process dies in the middle of its requests, which get no answer. *)
Crash(p) ==
    LET dying == {w \in Hosted(p) : ~Idle(w)} IN
    /\ "crash" \in Ends
    /\ up[p]
    /\ dying # {}
    /\ up' = [up EXCEPT ![p] = FALSE]
    /\ mem' = [mem EXCEPT ![p] = {}]
    /\ pc' = [w \in Workers |-> IF w \in dying THEN "idle" ELSE pc[w]]
    /\ req' = [w \in Workers |-> IF w \in dying THEN NoRequest ELSE req[w]]
    /\ local' = [w \in Workers |-> IF w \in dying THEN NoLocals ELSE local[w]]
    /\ orphan' = orphan \ dying
    /\ unsure' = unsure \cup {Name(w) : w \in dying}
    /\ UNCHANGED <<file, loaded, audit, started, acked, ever>>
-----------------------------------------------------------------------------
(* The smb and nfs routes and commands fix the share's type; for an update   *)
(* or a deletion they first look the share up.                               *)
Typed(r) == IF r.via = "share" THEN r.share ELSE [r.share EXCEPT !.type = r.via]
FirstStep(r) == IF r.via # "share" /\ r.op # "create" THEN "check" ELSE "validate"

(* A request arrives, or a command begins. *)
Begin(w, r) ==
    /\ Idle(w)
    /\ up[Host[w]]
    /\ Overlap \/ \A v \in Workers : Idle(v)
    /\ started < MaxRequests
    /\ started' = started + 1
    /\ req' = [req EXCEPT ![w] = [r EXCEPT !.share = Typed(r)]]
    /\ audit' = [audit EXCEPT ![w] = "none"]
    /\ Goto(w, FirstStep(r))
    /\ unsure' = IF \E v \in Workers : ~Idle(v) /\ Name(v) = r.share.name
                 THEN unsure \cup {r.share.name} ELSE unsure
    /\ UNCHANGED <<procVars, diskVars, local, acked, ever>>

(* The smb and nfs handlers: the share must exist and be of their type. *)
TypeMatches(w) == \E s \in Found(w) : s.type = req[w].via

Check(w) ==
    /\ pc[w] = "check"
    /\ IF TypeMatches(w)
       THEN Goto(w, "validate") /\ UNCHANGED <<req, local, audit, acked>>
       ELSE Fail(w, "none")
    /\ UNCHANGED <<procVars, diskVars, started, unsure, ever>>

(* Manager.Create and Update validate the share, Delete only the name. *)
Validate(w) ==
    /\ pc[w] = "validate"
    /\ IF req[w].op = "delete" \/ ValidShare(req[w].share)
       THEN /\ Goto(w, IF req[w].op = "create" THEN "apply" ELSE "get")
            /\ UNCHANGED <<req, local, audit, acked>>
       ELSE Fail(w, "failure")
    /\ UNCHANGED <<procVars, diskVars, started, unsure, ever>>

(* Manager.Update and Delete keep the present share for a rollback; when     *)
(* there is none they return without an audit event.                         *)
GetPrev(w) ==
    /\ pc[w] = "get"
    /\ IF Found(w) # {}
       THEN /\ local' = [local EXCEPT ![w].prev = Found(w)]
            /\ Goto(w, "apply")
            /\ UNCHANGED <<req, audit, acked>>
       ELSE Fail(w, "none")
    /\ UNCHANGED <<procVars, diskVars, started, unsure, ever>>

(* Backend.Create, Update, Delete: one critical section of the mutex. *)
Changed(w) == IF req[w].op = "delete" THEN Without(Mine(w), Name(w))
                                      ELSE Put(Mine(w), req[w].share)
Accepted_Always(w) == TRUE
Accepted(w) == (Found(w) = {}) <=> (req[w].op = "create")

Apply(w) ==
    /\ pc[w] = "apply"
    /\ IF Accepted(w)
       THEN /\ SetMem(Host[w], Changed(w))
            /\ Goto(w, "snapshot")
            /\ UNCHANGED <<req, local, audit, acked>>
       ELSE Fail(w, "failure") /\ UNCHANGED <<mem, ever>>
    /\ UNCHANGED <<up, diskVars, started, unsure>>
-----------------------------------------------------------------------------
(* Backend.Reload.  The shares are copied under the read lock ...            *)
Snapshot_Unlocked(w) ==
    /\ pc[w] = "snapshot"
    /\ \E m \in SUBSET Mine(w) :
          local' = [local EXCEPT ![w].snap = m, ![w].at = "state"]
    /\ Goto(w, "read")
    /\ UNCHANGED <<procVars, diskVars, req, audit, started, histVars>>
Snapshot(w) ==
    /\ pc[w] = "snapshot"
    /\ local' = [local EXCEPT ![w].snap = Mine(w), ![w].at = "state"]
    /\ Goto(w, "read")
    /\ UNCHANGED <<procVars, diskVars, req, audit, started, histVars>>

(* ... the three files are read, for a rollback (one that cannot be read is  *)
(* taken as absent, so that the rollback removes it) ...                     *)
Read(w) ==
    LET f == local[w].at IN
    /\ pc[w] = "read"
    /\ \E c \in ReadOf(f) :
          local' = [local EXCEPT ![w].old[f] = c,
                                 ![w].at = IF f = "nfs" THEN "state" ELSE NextFile(f)]
    /\ Goto(w, IF f = "nfs" THEN "open" ELSE "read")
    /\ UNCHANGED <<procVars, diskVars, req, audit, started, histVars>>

(* ... and each is truncated (os.WriteFile opens it with O_TRUNC) ...        *)
Open(w) ==
    /\ pc[w] = "open"
    /\ file' = [file EXCEPT ![local[w].at] = Empty]
    /\ Goto(w, "write")
    /\ UNCHANGED <<procVars, loaded, orphan, req, local, audit, started, histVars>>

(* What the file w has open can hold after w has written c to it.  Text that *)
(* another worker wrote since may show through behind it.                    *)
Mixed(w, f, c) ==
    CASE w \in orphan \/ c = Empty -> {file[f]}
      [] file[f] \in {Empty, c}    -> {c}
      [] OTHER                     -> {c, Torn}

(* ... and written.                                                          *)
Write(w) ==
    LET f == local[w].at IN
    /\ pc[w] = "write"
    /\ \E c \in Mixed(w, f, Text(f, local[w].snap)) : file' = [file EXCEPT ![f] = c]
    /\ orphan' = orphan \ {w}
    /\ IF f = "nfs" THEN Goto(w, "command") ELSE Goto(w, "open")
    /\ local' = [local EXCEPT ![w].at = IF f = "nfs" THEN "smb" ELSE NextFile(f)]
    /\ UNCHANGED <<procVars, loaded, req, audit, started, histVars>>

(* A write that fails: the directory or the file cannot be opened, or the    *)
(* text is cut off.  Reload returns at once and leaves the files as they are.*)
Partial(w, f) == IF w \in orphan THEN {file[f]}
                 ELSE IF file[f] = Empty THEN {Empty, Torn} ELSE {Torn}

WriteFails(w) ==
    LET f == local[w].at IN
    /\ f \in FailingWrites
    /\ \/ pc[w] = "open" /\ UNCHANGED file
       \/ pc[w] = "write" /\ \E c \in Partial(w, f) : file' = [file EXCEPT ![f] = c]
    /\ orphan' = orphan \ {w}
    /\ Goto(w, "undo")
    /\ UNCHANGED <<procVars, loaded, req, local, audit, started, histVars>>

(* smbcontrol, then exportfs: each runs when a share of its type is being    *)
(* saved or was in the state file found on disk.                             *)
Affected_NewOnly(w) == TypesIn(local[w].snap)
Affected(w) == TypesIn(local[w].snap) \cup TypesIn(Parse(local[w].old["state"]))

AfterCommand(w) ==
    IF local[w].at = "smb"
    THEN /\ local' = [local EXCEPT ![w].at = "nfs"]
         /\ UNCHANGED <<pc, req, audit, acked>>
    ELSE Succeed(w)

SkipCommand(w) ==
    /\ pc[w] = "command"
    /\ local[w].at \notin Affected(w)
    /\ AfterCommand(w)
    /\ UNCHANGED <<procVars, diskVars, started, unsure, ever>>

Command(w) ==
    LET s == local[w].at IN
    /\ pc[w] = "command"
    /\ s \in Affected(w)
    /\ loaded' = [loaded EXCEPT ![s] = Served(file[s])]
    /\ AfterCommand(w)
    /\ UNCHANGED <<procVars, file, orphan, started, unsure, ever>>

(* The command fails, or is killed with the request's context; the service   *)
(* may have read the file all the same.                                      *)
CommandFails_Retry(w) ==
    /\ pc[w] = "command"
    /\ local[w].at \in Affected(w) \cap FailingCommands
    /\ Goto(w, "snapshot")
    /\ UNCHANGED <<procVars, diskVars, req, local, audit, started, histVars>>
CommandFails(w) ==
    LET s == local[w].at IN
    /\ pc[w] = "command"
    /\ s \in Affected(w) \cap FailingCommands
    /\ \E served \in {loaded[s], Served(file[s])} : loaded' = [loaded EXCEPT ![s] = served]
    /\ local' = [local EXCEPT ![w].at = "state"]
    /\ Goto(w, "restore")
    /\ UNCHANGED <<procVars, file, orphan, req, audit, started, histVars>>
-----------------------------------------------------------------------------
(* restoreDisk: file after file, a file that was absent is removed, another  *)
(* is truncated and rewritten.  Errors are logged and ignored.               *)
AfterRestore_StateOnly(w) ==
    Goto(w, "undo") /\ local' = [local EXCEPT ![w].at = NextFile(local[w].at)]
AfterRestore(w) ==
    LET f == local[w].at IN
    /\ Goto(w, IF f = "nfs" THEN "undo" ELSE "restore")
    /\ local' = [local EXCEPT ![w].at = NextFile(f)]

Remove(w) ==
    LET f == local[w].at IN
    /\ pc[w] = "restore"
    /\ local[w].old[f] = Absent
    /\ file' = [file EXCEPT ![f] = Absent]
    /\ orphan' = orphan \cup {v \in Workers : pc[v] \in {"write", "rewrite"}
                                             /\ local[v].at = f}
    /\ AfterRestore(w)
    /\ UNCHANGED <<procVars, loaded, req, audit, started, histVars>>

Reopen(w) ==
    LET f == local[w].at IN
    /\ pc[w] = "restore"
    /\ local[w].old[f] # Absent
    /\ file' = [file EXCEPT ![f] = Empty]
    /\ Goto(w, "rewrite")
    /\ UNCHANGED <<procVars, loaded, orphan, req, local, audit, started, histVars>>

Rewrite(w) ==
    LET f == local[w].at IN
    /\ pc[w] = "rewrite"
    /\ \E c \in Mixed(w, f, local[w].old[f]) : file' = [file EXCEPT ![f] = c]
    /\ orphan' = orphan \ {w}
    /\ AfterRestore(w)
    /\ UNCHANGED <<procVars, loaded, req, audit, started, histVars>>

RestoreFails(w) ==
    LET f == local[w].at IN
    /\ f \in FailingWrites
    /\ \/ pc[w] = "restore" /\ UNCHANGED file
       \/ /\ pc[w] = "rewrite"
          /\ local[w].old[f] # Empty
          /\ \E c \in Partial(w, f) : file' = [file EXCEPT ![f] = c]
    /\ orphan' = orphan \ {w}
    /\ AfterRestore(w)
    /\ UNCHANGED <<procVars, loaded, req, audit, started, histVars>>

(* The Manager undoes the change in memory: Backend.Delete after a create,   *)
(* Update after an update, Create after a delete.  Each may find that the    *)
(* share came or went meanwhile, and then changes nothing.                   *)
Undone_Not(w) == Mine(w)
Undone_Bare(w) == Without(Mine(w), Name(w))
                  \cup {[s EXCEPT !.type = "other"] : s \in local[w].prev}
Undone_WholeMap(w) == Without(local[w].snap, Name(w)) \cup local[w].prev
Undone(w) ==
    CASE req[w].op = "create" -> Without(Mine(w), Name(w))
      [] req[w].op = "update" -> IF Found(w) = {} THEN Mine(w)
                                 ELSE Without(Mine(w), Name(w)) \cup local[w].prev
      [] req[w].op = "delete" -> IF Found(w) = {} THEN Mine(w) \cup local[w].prev
                                 ELSE Mine(w)

Undo(w) ==
    /\ pc[w] = "undo"
    /\ SetMem(Host[w], Undone(w))
    /\ Fail(w, "failure")
    /\ UNCHANGED <<up, diskVars, started, unsure>>
-----------------------------------------------------------------------------
Reload(w) == \/ Snapshot(w) \/ Read(w) \/ Open(w) \/ Write(w) \/ WriteFails(w)
             \/ SkipCommand(w) \/ Command(w) \/ CommandFails(w)
             \/ Remove(w) \/ Reopen(w) \/ Rewrite(w) \/ RestoreFails(w)

Run(w) == \/ Check(w) \/ Validate(w) \/ GetPrev(w) \/ Apply(w)
          \/ Reload(w) \/ Undo(w)

Next == \/ \E w \in Workers : Run(w)
        \/ \E w \in Workers, r \in Requests : Begin(w, r)
        \/ \E p \in Procs : Start(p) \/ Stop(p) \/ Crash(p)

Spec == Init /\ [][Next]_vars

(* The Go scheduler runs every goroutine.  That every command returns is an  *)
(* assumption: the CLI gives it 15 seconds, but the agent runs it with       *)
(* r.Context(), which has no deadline and ends when the client goes away.    *)
FairSpec == Spec /\ \A w \in Workers : WF_vars(Run(w))
-----------------------------------------------------------------------------
(* Types, and what holds of every interleaving.                            *)

(* Every variable stays within its type. *)
TypeOK ==
    /\ up \in [Procs -> BOOLEAN]
    /\ mem \in [Procs -> SUBSET Shares]
    /\ file \in [File -> Content]
    /\ loaded \in [Service -> {Torn} \cup SUBSET Shares]
    /\ pc \in [Workers -> PCs]
    /\ req \in [Workers -> Request \cup {NoRequest}]
    /\ \A w \in Workers : pc[w] # "idle" => req[w] \in Request
    /\ local \in [Workers -> Locals]
    /\ orphan \subseteq Workers
    /\ audit \in [Workers -> {"none", "success", "failure"}]
    /\ started \in 0 .. MaxRequests
    /\ acked \in [Procs -> SUBSET Shares]
    /\ unsure \subseteq Names \cup {BadName}
    /\ ever \subseteq SUBSET Shares

Whole(c) == c \notin {Absent, Empty, Torn}

(* What a process can load and a service can read is never a blend: a file  *)
(* that is whole was generated from one map that some process's memory was, *)
(* whatever requests overlap, fail or die (the copy under the read lock, and*)
(* the rollback to bytes read earlier, in Reload).                          *)
ConsistentVersions ==
    /\ \A f \in File : Whole(file[f]) => \E m \in ever : file[f] = Text(f, m)
    /\ \A s \in Service : loaded[s] # Torn =>
                             \E m \in ever : loaded[s] = Served(Text(s, m))

(* No memory ever holds a share that validateShare would refuse, although   *)
(* rollbacks write shares back unvalidated and start-up loads whatever the   *)
(* state file holds.                                                        *)
MemoryWellFormed == \A m \in ever : \A s \in m : ValidShare(s)

(* A step on the memory of a running process changes the share of one       *)
(* request it is serving and no other: a rollback never takes another       *)
(* request's change away with its own.                                      *)
OtherSharesUntouched ==
    [][\A p \in Procs, n \in Names :
          up[p] /\ up'[p] /\ Named(mem'[p], n) # Named(mem[p], n) =>
             \E w \in Hosted(p) : pc[w] \in {"apply", "undo"} /\ Name(w) = n]_vars

(* The inductive invariants behind these two: where the maps and the texts  *)
(* that a worker holds come from.                                           *)
Sourced(f, c) == Whole(c) => \E m \in ever : c = Text(f, m)

VersionInv ==
    /\ {} \in ever
    /\ \A p \in Procs : mem[p] \in ever
    /\ \A w \in Workers : local[w].snap \in ever
    /\ \A w \in Workers, f \in File : Sourced(f, local[w].old[f])
    /\ ConsistentVersions

Changing == {"get", "apply", "snapshot", "read", "open", "write", "command",
             "restore", "rewrite", "undo"}

WellFormedInv ==
    /\ MemoryWellFormed
    /\ \A m \in ever : IsMap(m)
    /\ \A w \in Workers :
          /\ pc[w] \in Changing /\ req[w].op # "delete" => ValidShare(req[w].share)
          /\ \A s \in local[w].prev : s.name = Name(w) /\ ValidShare(s)
          /\ IsMap(local[w].prev)
          /\ pc[w] \notin Changing => local[w].prev = {}

Quiescent == \A w \in Workers : Idle(w)

(* When nothing is in progress, the memory of a process holds, under every   *)
(* name no two requests fought over, what it found on disk when it started   *)
(* and what its answers have made of that since: a failed request left no    *)
(* trace and a successful one its full effect.                               *)
AckedInMemory ==
    Quiescent => \A p \in Procs, n \in Names \ unsure :
                    up[p] => Named(mem[p], n) = Named(acked[p], n)

(* Every request is answered. *)
Answered == \A w \in Workers : (pc[w] # "idle") ~> (pc[w] = "idle")
-----------------------------------------------------------------------------
(* What holds when requests follow one another.                            *)

(* When nothing is in progress, shares.json holds, under every name, the    *)
(* shares the answers so far promised ("survives process restarts").        *)
AckedPersisted ==
    Quiescent => \A p \in Procs, n \in Names \ unsure :
                    Named(Parse(file["state"]), n) = Named(acked[p], n)

(* When nothing is in progress, the three files describe the same shares.   *)
FilesAgree ==
    Quiescent => \A s \in Service :
                    Served(file[s]) = Served(Text(s, Parse(file["state"])))

(* When nothing is in progress, a service whose own command never fails      *)
(* serves what its file says: the has/had test of Reload skips no reload    *)
(* that was needed, also when the last share of a type is deleted, disabled *)
(* or changes its type, and a rollback leaves no service behind.            *)
ServicesCurrent ==
    Quiescent => \A s \in Service \ FailingCommands : loaded[s] = Served(file[s])

(* What a process would load if it were killed now: the shares before or    *)
(* after the request in progress.  The state file is unreadable only        *)
(* between its truncation and its write.                                    *)
LossWindow ==
    \A w \in Workers : ~Idle(w) =>
       IF file["state"] \in {Empty, Torn}
       THEN pc[w] \in {"write", "rewrite"} /\ local[w].at = "state"
       ELSE Parse(file["state"]) \in {Mine(w), Undone(w)}

(* The shares process p has committed to: those in its memory, with the     *)
(* change of the request in progress undone; while it is down, those it     *)
(* will load.                                                               *)
Uncommitted == {"snapshot", "read", "open", "write", "command", "restore",
                "rewrite", "undo"}
Committed(p) ==
    IF ~up[p] THEN Parse(file["state"])
    ELSE IF \E w \in Hosted(p) : pc[w] \in Uncommitted
         THEN Undone(CHOOSE w \in Hosted(p) : pc[w] \in Uncommitted)
         ELSE mem[p]

(* The contract of the Backend interface, with the shares that the one      *)
(* process has committed to: requests one after another implement it.       *)
Agent == CHOOSE p \in Procs : TRUE

Contract == INSTANCE ShareStore WITH store <- Committed(Agent), task <- req
ImplementsStore == Contract!Spec
=============================================================================
