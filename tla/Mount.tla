------------------------------- MODULE Mount -------------------------------
EXTENDS Integers, Sequences

(***************************************************************************)
(* The mount service: internal/service/disk/mount.go behind the handlers   *)
(* of internal/api/disk.go and the commands of internal/cli/disk.go.       *)
(*                                                                         *)
(* A worker serves one request under the mutex of ITS OWN process: it      *)
(* compares the mount point's spelling with the text of /proc/mounts, runs *)
(* mount or umount, and for a persistent mount writes a credentials file   *)
(* and then an entry of /etc/fstab, replacing each file in one rename.     *)
(*                                                                         *)
(* As in Share, X_Something before a definition X is X with a bug.         *)
(***************************************************************************)
CONSTANTS
    Points,           \* spellings of mount points
    Dirs,             \* the directories they name
    DirOf,            \* DirOf[p]: the directory the kernel finds for p
    Shown,            \* Shown[d]: how /proc/mounts spells directory d
    Sources,          \* devices and network paths
    BadSources,       \* sources that normalizeCIFSSource refuses
    Normal,           \* Normal[s]: how it spells the others, //server/share
    Blank,            \* points and sources that contain white space
    Secrets,          \* CIFS user, password and domain
    NoSecret,         \* none of the three is given; no credentials file
    NoPoint,          \* a comment, or another line of fstab without a point
    Requests,         \* the requests clients make, a subset of Request
    Fstab,            \* the lines of fstab at the start
    Procs, Workers, Host, Nobody, NoRequest,
    Failing,          \* the operations that may fail, a subset of Operation
    Crashes,          \* may a process die
    MaxRequests       \* bound on the number of requests of a behaviour

MountRequest ==
    [op : {"mount"}, point : Points, source : Sources, cifs : BOOLEAN,
     persistent : BOOLEAN, secret : Secrets \cup {NoSecret},
     opts : {"plain", "inline", "file"}]  \* username=... or credentials=...
UmountRequest == [op : {"umount"}, point : Points]
Request == MountRequest \cup UmountRequest

Line == [point : Points \cup {NoPoint}, source : Sources, creds : BOOLEAN]
Command == [op : {"mount"}, dir : Dirs, source : Sources]
           \cup [op : {"umount"}, dir : Dirs]
Operation == {"list", "temp", "mount", "umount", "creds", "read", "write"}

VARIABLES
    table,    \* table[d]: what is mounted on d, the last one visible
    stray,    \* commands that outlived the process that started them
    temps,    \* number of credentials files in the temporary directory
    creds,    \* creds[p]: the credentials file of mount point p
    fstab,    \* the lines of /etc/fstab
    holder,   \* holder[p]: the worker that holds the mutex of process p
    pc, req,  \* as in Share
    lines,    \* lines[w]: the lines of fstab that w has read
    audit,    \* audit[w]: the result it logged for its request, or "none"
    started,  \* requests started so far
    kept,     \* history: kept[p] is the last persistent mount acknowledged
    left      \* history: left[p] is the secret that a later request for p has
              \* left in the credentials file before it failed

diskVars == <<table, stray, temps, creds, fstab>>
taskVars == <<pc, req, lines, audit>>
histVars == <<kept, left>>
vars == <<diskVars, holder, taskVars, started, histVars>>
-----------------------------------------------------------------------------
(* The entries for mount point p among the lines ls.                       *)
At(ls, p) == {i \in DOMAIN ls : ls[i].point = p}

(* Persist: the first entry with this mount point is replaced, or a new one *)
(* is added at the end.                                                    *)
WithEntry_Append(ls, e) == Append(ls, e)
WithEntry_Only(ls, e) == <<e>>
WithEntry(ls, e) ==
    IF At(ls, e.point) = {} THEN Append(ls, e)
    ELSE [ls EXCEPT ![CHOOSE i \in At(ls, e.point) :
                         \A j \in At(ls, e.point) : i <= j] = e]

(* What a command does to the mount table. *)
Effect(c, t) ==
    CASE c.op = "mount"                          -> [t EXCEPT ![c.dir] = Append(@, c.source)]
      [] c.op = "umount" /\ t[c.dir] # <<>>      -> [t EXCEPT ![c.dir] = SubSeq(@, 1, Len(@) - 1)]
      [] OTHER                                   -> t

UniquePoints(ls) == \A p \in Points : \A i, j \in At(ls, p) : i = j

ASSUME MountAssumption ==
    /\ DirOf \in [Points -> Dirs]
    /\ DOMAIN Shown = Dirs
    /\ \A d, e \in Dirs : Shown[d] = Shown[e] => d = e
    /\ Normal \in [Sources -> Sources]
    /\ NoSecret \notin Secrets
    /\ NoPoint \notin Points
    /\ Requests \subseteq Request
    /\ NoRequest \notin Request
    /\ Fstab \in Seq(Line)
    /\ UniquePoints(Fstab)
    /\ \A i \in DOMAIN Fstab : ~Fstab[i].creds
    /\ Host \in [Workers -> Procs]
    /\ Nobody \notin Workers
    /\ Failing \subseteq Operation
    /\ Crashes \in BOOLEAN
    /\ MaxRequests \in Nat
-----------------------------------------------------------------------------
PCs == {"idle", "lock", "validate", "list", "temp", "mount", "umount",
        "creds", "read", "write"}

Init ==
    /\ table = [d \in Dirs |-> <<>>]
    /\ stray = {}
    /\ temps = 0
    /\ creds = [p \in Points |-> NoSecret]
    /\ fstab = Fstab
    /\ holder = [p \in Procs |-> Nobody]
    /\ pc = [w \in Workers |-> "idle"]
    /\ req = [w \in Workers |-> NoRequest]
    /\ lines = [w \in Workers |-> <<>>]
    /\ audit = [w \in Workers |-> "none"]
    /\ started = 0
    /\ kept = [p \in Points |-> NoRequest]
    /\ left = [p \in Points |-> NoSecret]
-----------------------------------------------------------------------------
Idle(w) == pc[w] = "idle"
Point(w) == req[w].point
Goto(w, step) == pc' = [pc EXCEPT ![w] = step]

(* The source that mount and fstab get: that of a CIFS mount is normalised.  *)
Source(r) == IF r.cifs THEN Normal[r.source] ELSE r.source

(* The request is answered; the deferred Unlock runs. *)
Finish(w, result) ==
    /\ Goto(w, "idle")
    /\ req' = [req EXCEPT ![w] = NoRequest]
    /\ lines' = [lines EXCEPT ![w] = <<>>]
    /\ audit' = [audit EXCEPT ![w] = result]
    /\ holder' = [holder EXCEPT ![Host[w]] = Nobody]

Fail_Locked(w, result) ==
    /\ Goto(w, "idle")
    /\ req' = [req EXCEPT ![w] = NoRequest]
    /\ lines' = [lines EXCEPT ![w] = <<>>]
    /\ audit' = [audit EXCEPT ![w] = result]
    /\ UNCHANGED <<holder, histVars>>
Fail(w, result) == Finish(w, result) /\ UNCHANGED histVars

Succeed(w) ==
    /\ Finish(w, "success")
    /\ kept' = IF req[w].op = "mount" /\ req[w].persistent
               THEN [kept EXCEPT ![Point(w)] = req[w]] ELSE kept
    /\ left' = IF req[w].op = "mount" /\ req[w].persistent
               THEN [left EXCEPT ![Point(w)] = NoSecret] ELSE left

Continue(w, step) == Goto(w, step) /\ UNCHANGED <<holder, req, lines, audit, histVars>>
-----------------------------------------------------------------------------
(* An HTTP handler, or a CLI command, calls Mount or Umount. *)
Call(w, r) ==
    /\ Idle(w)
    /\ started < MaxRequests
    /\ started' = started + 1
    /\ req' = [req EXCEPT ![w] = r]
    /\ audit' = [audit EXCEPT ![w] = "none"]
    /\ Goto(w, "lock")
    /\ UNCHANGED <<diskVars, holder, lines, histVars>>

AfterLock_Validate(w) == "validate"
AfterLock(w) == IF req[w].op = "mount" THEN "validate" ELSE "list"

Lock_Shared(w) ==
    /\ pc[w] = "lock"
    /\ holder' = [holder EXCEPT ![Host[w]] = w]
    /\ Goto(w, AfterLock(w))
    /\ UNCHANGED <<diskVars, req, lines, audit, started, histVars>>
Lock(w) ==
    /\ pc[w] = "lock"
    /\ holder[Host[w]] = Nobody
    /\ holder' = [holder EXCEPT ![Host[w]] = w]
    /\ Goto(w, AfterLock(w))
    /\ UNCHANGED <<diskVars, req, lines, audit, started, histVars>>

(* validatePersistentMountOptions: what fstab cannot hold is refused. *)
Storable(r) ==
    r.persistent => /\ r.source \notin Blank
                    /\ r.point \notin Blank
                    /\ r.cifs => /\ r.opts # "inline"
                                 /\ r.opts = "file" => r.secret = NoSecret

Validate(w) ==
    /\ pc[w] = "validate"
    /\ IF Storable(req[w]) THEN Continue(w, "list") ELSE Fail(w, "failure")
    /\ UNCHANGED <<diskVars, started>>

(* The mount table is read and searched for the requested spelling.  A CIFS *)
(* source is normalised before anything else is done about the mount.       *)
InUse_Always(w) == TRUE
InUse(w) == \E d \in Dirs : table[d] # <<>> /\ Shown[d] = Point(w)

List(w) ==
    LET r == req[w] IN
    /\ pc[w] = "list"
    /\ CASE r.op = "umount" /\ InUse(w)  -> Continue(w, "umount")
         [] r.op = "mount" /\ ~InUse(w) /\ ~r.cifs -> Continue(w, "mount")
         [] r.op = "mount" /\ ~InUse(w) /\ r.cifs /\ r.source \notin BadSources
                                         -> Continue(w, "temp")
         [] OTHER                        -> Fail(w, "failure")
    /\ UNCHANGED <<diskVars, started>>

(* /proc/mounts cannot be read: the error is returned and not audited. *)
ListFails(w) ==
    /\ "list" \in Failing
    /\ pc[w] = "list"
    /\ Fail(w, "none")
    /\ UNCHANGED <<diskVars, started>>
-----------------------------------------------------------------------------
(* mountCIFS writes the credentials to a temporary file ...                 *)
Temp(w) ==
    /\ pc[w] = "temp"
    /\ temps' = temps + 1
    /\ Continue(w, "mount")
    /\ UNCHANGED <<table, stray, creds, fstab, started>>

TempFails(w) ==
    /\ "temp" \in Failing
    /\ pc[w] = "temp"
    /\ Fail(w, "failure")
    /\ UNCHANGED <<diskVars, started>>

CommandOf(w) == IF req[w].op = "mount"
                THEN [op |-> "mount", dir |-> DirOf[Point(w)], source |-> Source(req[w])]
                ELSE [op |-> "umount", dir |-> DirOf[Point(w)]]

(* ... and removes it when the mount command has returned.                  *)
RemoveTemp(w) == temps' = IF req[w].cifs THEN temps - 1 ELSE temps

(* The persister: credentials first, then fstab.  For a CIFS mount without  *)
(* credentials, or another one, there is no credentials file to write.      *)
NeedsCreds(w) == req[w].cifs /\ req[w].secret # NoSecret
FirstStep_Fstab(w) == "read"
FirstStep(w) == IF NeedsCreds(w) THEN "creds" ELSE "read"

RunMount(w) ==
    /\ pc[w] = "mount"
    /\ table' = Effect(CommandOf(w), table)
    /\ RemoveTemp(w)
    /\ IF req[w].persistent THEN Continue(w, FirstStep(w)) ELSE Succeed(w)
    /\ UNCHANGED <<stray, creds, fstab, started>>

(* The command fails, or is killed with its context, before or after it has *)
(* done its work.                                                          *)
MountFails(w) ==
    /\ "mount" \in Failing
    /\ pc[w] = "mount"
    /\ \E t \in {table, Effect(CommandOf(w), table)} : table' = t
    /\ RemoveTemp(w)
    /\ Fail(w, "failure")
    /\ UNCHANGED <<stray, creds, fstab, started>>

RunUmount(w) ==
    /\ pc[w] = "umount"
    /\ table' = Effect(CommandOf(w), table)
    /\ IF table[DirOf[Point(w)]] # <<>> THEN Succeed(w) ELSE Fail(w, "failure")
    /\ UNCHANGED <<stray, temps, creds, fstab, started>>

UmountFails(w) ==
    /\ "umount" \in Failing
    /\ pc[w] = "umount"
    /\ \E t \in {table, Effect(CommandOf(w), table)} : table' = t
    /\ Fail(w, "failure")
    /\ UNCHANGED <<stray, temps, creds, fstab, started>>
-----------------------------------------------------------------------------
(* fstabPersister.Persist.  The credentials file is named after the mount   *)
(* point and replaces an earlier one ...                                    *)
WriteCreds_OneFile(w) ==
    /\ pc[w] = "creds"
    /\ creds' = [p \in Points |-> req[w].secret]
    /\ Continue(w, "read")
    /\ UNCHANGED <<table, stray, temps, fstab, started>>
WriteCreds(w) ==
    /\ pc[w] = "creds"
    /\ creds' = [creds EXCEPT ![Point(w)] = req[w].secret]
    /\ Continue(w, "read")
    /\ UNCHANGED <<table, stray, temps, fstab, started>>

(* ... fstab is read ...                                                    *)
ReadFstab(w) ==
    /\ pc[w] = "read"
    /\ lines' = [lines EXCEPT ![w] = fstab]
    /\ Goto(w, "write")
    /\ UNCHANGED <<diskVars, holder, req, audit, started, histVars>>

(* ... and replaced by what was read with the new entry in it.              *)
Entry(w) == [point |-> Point(w), source |-> Source(req[w]), creds |-> NeedsCreds(w)]

WriteFstab(w) ==
    /\ pc[w] = "write"
    /\ fstab' = WithEntry(lines[w], Entry(w))
    /\ Succeed(w)
    /\ UNCHANGED <<table, stray, temps, creds, started>>

(* One of the three fails and leaves its file as it was: the mount and the   *)
(* credentials that were written stay, and the request is answered with an  *)
(* error.                                                                   *)
PersistFails(w) ==
    /\ pc[w] \in {"creds", "read", "write"} \cap Failing
    /\ Finish(w, "failure")
    /\ left' = IF pc[w] # "creds" /\ NeedsCreds(w)
               THEN [left EXCEPT ![Point(w)] = req[w].secret] ELSE left
    /\ UNCHANGED <<diskVars, started, kept>>
-----------------------------------------------------------------------------
(* A process dies.  Its temporary files stay, and a command it has started  *)
(* goes on without it.                                                      *)
Crash(p) ==
    LET dying == {w \in Workers : Host[w] = p /\ ~Idle(w)}
        clear(f, v) == [w \in Workers |-> IF w \in dying THEN v ELSE f[w]] IN
    /\ Crashes
    /\ dying # {}
    /\ stray' = stray \cup {CommandOf(w) : w \in {v \in dying : pc[v] \in {"mount", "umount"}}}
    /\ holder' = [holder EXCEPT ![p] = Nobody]
    /\ pc' = clear(pc, "idle")
    /\ req' = clear(req, NoRequest)
    /\ lines' = clear(lines, <<>>)
    /\ UNCHANGED <<table, temps, creds, fstab, audit, started, histVars>>

RunStray(c) ==
    /\ c \in stray
    /\ stray' = stray \ {c}
    /\ \E t \in {table, Effect(c, table)} : table' = t
    /\ UNCHANGED <<temps, creds, fstab, holder, taskVars, started, histVars>>
-----------------------------------------------------------------------------
Commands(w) == RunMount(w) \/ MountFails(w) \/ RunUmount(w) \/ UmountFails(w)

Steps(w) ==
    \/ Validate(w) \/ List(w) \/ ListFails(w) \/ Temp(w) \/ TempFails(w)
    \/ WriteCreds(w) \/ ReadFstab(w) \/ WriteFstab(w) \/ PersistFails(w)

Next ==
    \/ \E w \in Workers, r \in Requests : Call(w, r)
    \/ \E w \in Workers : Lock(w) \/ Commands(w) \/ Steps(w)
    \/ \E p \in Procs : Crash(p)
    \/ \E c \in stray : RunStray(c)

Spec == Init /\ [][Next]_vars

(* Goroutines run, and a sync.Mutex hands over to the one that waits longest *)
(* once it has waited a millisecond.                                        *)
Fairness == \A w \in Workers : WF_vars(Steps(w)) /\ SF_vars(Lock(w))

(* Every command returns: an assumption, since r.Context() has no deadline.  *)
FairSpec == Spec /\ Fairness /\ \A w \in Workers : WF_vars(Commands(w))
-----------------------------------------------------------------------------
(* Every variable stays within its type. *)
TypeOK ==
    /\ table \in [Dirs -> Seq(Sources)]
    /\ stray \subseteq Command
    /\ temps \in Int
    /\ creds \in [Points -> Secrets \cup {NoSecret}]
    /\ fstab \in Seq(Line)
    /\ holder \in [Procs -> Workers \cup {Nobody}]
    /\ pc \in [Workers -> PCs]
    /\ req \in [Workers -> Request \cup {NoRequest}]
    /\ \A w \in Workers :
          /\ ~Idle(w) => req[w] \in Request
          /\ pc[w] \in {"validate", "temp", "mount", "creds", "read", "write"} =>
                req[w] \in MountRequest
          /\ pc[w] = "umount" => req[w] \in UmountRequest
    /\ lines \in [Workers -> Seq(Line)]
    /\ audit \in [Workers -> {"none", "success", "failure"}]
    /\ started \in 0 .. MaxRequests
    /\ kept \in [Points -> MountRequest \cup {NoRequest}]
    /\ left \in [Points -> Secrets \cup {NoSecret}]

Quiescent == \A w \in Workers : Idle(w)

(* Whatever processes overlap, fail or die, fstab keeps at most one entry   *)
(* for a mount point (Persist replaces the entry it finds).                 *)
OneLinePerPoint == UniquePoints(fstab)

(* An entry of fstab that names a credentials file was written after that   *)
(* file was: the boot never finds the entry without its credentials.        *)
CredsBeforeEntry ==
    \A i \in DOMAIN fstab : fstab[i].creds => creds[fstab[i].point] # NoSecret

(* The inductive invariant behind these two: it holds of the lines that a   *)
(* worker has read as well.                                                 *)
Sound(ls) ==
    /\ UniquePoints(ls)
    /\ \A i \in DOMAIN ls : ls[i].creds => ls[i].point \in Points
                                           /\ creds[ls[i].point] # NoSecret
FstabInv ==
    /\ Sound(fstab)
    /\ \A w \in Workers : Sound(lines[w])
    /\ \A w \in Workers :
          /\ pc[w] = "creds" => NeedsCreds(w)
          /\ pc[w] \in {"read", "write"} /\ NeedsCreds(w) => creds[Point(w)] # NoSecret

(* A worker is past Lock exactly while it holds the mutex of its process.   *)
LockInv == \A w \in Workers : pc[w] \notin {"idle", "lock"} <=> holder[Host[w]] = w

(* At most one file system is mounted on a directory ("Returns ErrConflict  *)
(* when the mountpoint is already in use", mount.go): the mutex covers the   *)
(* check and the mount command.                                             *)
OneMountPerDir == \A d \in Dirs : Len(table[d]) <= 1

(* With one process: the check of List still holds when the command runs.   *)
TableInv ==
    /\ OneMountPerDir
    /\ stray = {}
    /\ \A w \in Workers : pc[w] \in {"temp", "mount"} => table[DirOf[Point(w)]] = <<>>

(* An answer is true when it is given: after success the requested source   *)
(* is what is mounted there, or nothing is; a conflict or a not-found error *)
(* is only given when the directory is mounted, or is not.                  *)
Answers(w, result) == pc[w] # "idle" /\ pc'[w] = "idle" /\ audit'[w] = result
AnswersTrue ==
    [][\A w \in Workers :
         LET t == table'[DirOf[Point(w)]] IN
         /\ Answers(w, "success") =>
               t = IF req[w].op = "mount" THEN <<Source(req[w])>> ELSE <<>>
         /\ Answers(w, "failure") /\ pc[w] = "list" =>
               CASE req[w].op = "umount" -> t = <<>>
                 [] req[w].op = "mount"  -> t # <<>> \/ req[w].source \in BadSources]_vars

(* A write of fstab leaves the lines for other mount points, and the        *)
(* comments, as they are and in their order.                                *)
Others(ls, p) == DOMAIN ls \ At(ls, p)
SameOthers(ls, new, p) ==
    \E at \in [Others(ls, p) -> Others(new, p)] :
       /\ \A i \in Others(ls, p) : new[at[i]] = ls[i]
       /\ \A i, j \in Others(ls, p) : i < j => at[i] < at[j]
       /\ \A j \in Others(new, p) : \E i \in Others(ls, p) : at[i] = j
OtherLinesKept ==
    [][fstab' # fstab =>
          \E w \in Workers : pc[w] = "write" /\ SameOthers(fstab, fstab', Point(w))]_vars

(* A persistent mount that was acknowledged is what the next boot mounts,   *)
(* until another one for the same mount point is acknowledged: whatever else *)
(* fails, its line stays, and so do its credentials, except that a later     *)
(* CIFS request that fails between its two files leaves its own (Persist     *)
(* writes the credentials before it reads fstab).                           *)
Boots(r) ==
    \E i \in DOMAIN fstab :
       /\ fstab[i].point = r.point
       /\ fstab[i].source = Source(r)
       /\ fstab[i].creds <=> r.cifs /\ r.secret # NoSecret
       /\ fstab[i].creds =>
             creds[r.point] = IF left[r.point] = NoSecret THEN r.secret ELSE left[r.point]
KeptAcrossBoot ==
    Quiescent => \A p \in Points : kept[p] # NoRequest => Boots(kept[p])

(* Every request is answered. *)
Answered == \A w \in Workers : (pc[w] # "idle") ~> (pc[w] = "idle")
=============================================================================
