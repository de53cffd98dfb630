# mingyue-go: a TLA+ verification project

mingyue-go is an operations agent for one Linux host. One set of services is
reached in two ways: through the HTTP API of a daemon (`mingyue agent start`)
and through CLI commands, each of which is a process of its own with its own
copy of the state. This project models the services that keep state or change
it in several steps, checks them on small instances with TLC, and proves the
most important properties with TLAPS for every value of the constants.

Modules named `X.tla` model, `MCX.tla` and `MCX_*.cfg` are their instances for
TLC, `XProofs.tla` holds theorems. `PROJECT.json` lists the runs, the source
lines of every definition, the hazards and the theorems. A definition `D_Bug`
that stands before `D` is `D` with the bug its name says; a run of the model
with it in the place of `D` must violate the property it is listed with.

## 1. The system

| Component | State | Operations | What makes it hard |
|---|---|---|---|
| share service (`service/share`, SMB, NFS and share routes and commands) | a map in memory; `shares.json`, a Samba and an NFS file; what smbd and nfsd have loaded | create, update, delete; load at start | the lock covers the map, not the files; a failed reload rolls back memory and files; agent and commands have a map each |
| mount service (`service/disk/mount.go`) | one mutex per process; the kernel's mount table; `/etc/fstab`; CIFS credentials files | mount, umount | check, mount and persist are three steps; the mutex ends at the process; commands may hang |
| API keys (`auth`) | `apikeys.json`; a map per process | load at start, keygen, revoke | read-change-rename without a lock between processes; the agent loads once |
| agent daemon (`agent/daemon.go`) | PID file, port, server goroutine | start, stop, status | the PID file is not locked and names no owner; signals race start-up and shutdown; requests may not end |
| file service (`service/file`) | the file system below a root | list, stat, read, write, mkdir, remove, move, copy | no lock: system calls of requests interleave; failures leave partial results |
| router and middleware (`api`) | none of their own | authenticate, check the role, answer, record | roles are checked by each handler; two layers of audit; clients that leave |
| audit logger (`audit`) | an append-only file under a mutex | log, close | closed while requests may still be at work; writes that fail |
| Samba users, ACL, network, power | none of their own: each operation runs a command | users, links, DHCP, ACLs, power modes | commands killed half-way or outliving their process; unaudited operations |
| process service | none: reads `/proc` | list by pages, look up, kill | processes come and go while the list is made; page arithmetic |
| discovery (`discovery`) | the agent's ticker; a browse's results | advertise, browse | lost, late and doubled packets against a timeout |
| SMART, devices, monitor | none: run a command or read `/proc` and parse what it prints | | |

How they interact: a route authenticates a request against the process's map of
keys, its handler checks role and form and calls the service, the service
records the attempt in the audit log, the handler answers, and the audit
middleware records the answer. A CLI command calls the service without role and
middleware. The processes meet only on disk, in the kernel and in the services
they reload: no lock spans two processes.

`PROJECT.json` "hazards" lists what is hard to test, with the properties that
are there for it, or why none is.

## 2. The modules

### Share, ShareStore

`Share` models a request as it goes through `manager.go` and `filebackend.go`:
`Begin`, `Check` (the type check of the SMB and NFS routes), `Validate`,
`GetPrev`, `Apply` (the map, under the mutex), `Snapshot` (the copy under the
read lock), `Read` (the old file contents, and which types they hold), then for
each file `Open` (truncation) and `Write` or `WriteFails`, then for each service
`SkipCommand`, `Command` or `CommandFails`; after a failed command `Remove`, or
`Reopen` and `Rewrite`, or `RestoreFails` for each file; at last `Undo`. `Start`
loads the state file, `Stop` and `Crash` end a process. `mem[p]` is a process's
map, `file` the three files, `loaded` what the services serve; `acked`, `unsure`
and `ever` are history. A file is the set of shares its text was made of, or
`Absent`, `Empty` or `Torn`; one of `FailingReads` may turn out to be unreadable
(`ReadOf`), which `Start` and `Read` take for a file that is absent or cut short, as
the code does, which ignores the errors of `os.ReadFile`. Overlapping workers run in any order between those
steps; `orphan` holds writers whose file was removed under them. `FairSpec` is weak
fairness of each worker's steps, so that its commands return: the CLI gives them 15
seconds, the agent only the request's context, which ends when the client goes
away; that a command does not hang under a client that waits is an assumption
about the host.

`ShareStore` is the contract of the `Backend` interface: one set of shares that
requests change all or nothing. `Contract` in `Share` maps it to what the
agent has committed to.

### Mount

A worker locks the mutex of its own process (`Lock`), validates, lists the
mount table (`List`, `ListFails`), writes temporary credentials (`Temp`), runs
the command (`RunMount`, `RunUmount` and their failures), removes the temporary
file, and for a persistent mount writes the credentials file, reads fstab and
replaces it by rename. `table[d]` is the stack of file systems mounted on a
directory; `Points`, `DirOf` and `Shown` tell the spelling a client uses from
the directory it names and from the text of `/proc/mounts`; `Normal` is the
spelling that `normalizeCIFSSource` gives a share, and `Source` what mount and fstab
get. `kept` and `left` are history: the acknowledged mount of a mount point, and the
secret a later request has left in its credentials file before it failed. A process that
crashes may leave a command that still runs (`stray`). `FairSpec` assumes weak
fairness of each worker's steps, strong fairness of `Lock` (a waiting goroutine
gets a Go mutex at last: its starvation mode), and that commands return. The
last is an assumption about the host and not about the code, which sets no
deadline for the agent's commands.

### KeyStore

`store` is the file, `mem[p]` the map of a process. keygen, revoke and agent
start are processes that read, write by rename, and answer; an agent goes on to
serve. A failed save may come before or after the rename (`AfterFailure`). An
agent without keys makes its first one and keeps it in memory when it cannot
save it (`Fallback`).

### Daemon

`pc[p]` follows `Daemon.Start`: write the PID file (truncate, then write),
start the server goroutine, `Notify`, select, `Shutdown`, and the deferred
removal. `srv[p]` is the server goroutine. Stop commands read the file and
signal in two steps; other programs may get the id of a dead agent. Fairness is
weak, of the steps of each agent, which are the scheduler's and the timer's of
30 seconds; nothing is assumed of requests, which may never end.

### Files

A request is admitted (`Admit`: authentication, role, form), its paths are
checked against the root (`Check`), and the operation runs one system call at a
time: `MkdirAll` makes one directory after another, `RemoveAll` takes one entry
after another while others make some, `CopyFile` opens, truncates, and moves
block after block, `WriteFile` truncates and then writes, and may fail when it closes
the file. `CallFails` is a call that fails though the tree allows it. Then `Record` (the
service's audit), `Answer`, and `LogRequest` (the middleware's). `node[p]` is
what is at a path, `content[i]` the blocks of a file, so that an open file
outlives its name and may be moved under its writer.

Decisions: a block is what one call of `io.Copy` moves; paths are cleaned; there
are no symbolic links; a directory is not moved while another request removes it
recursively, since entries are addressed by path; the check against the root is
one step, for nothing it reads changes without links. A request with another
method, or for another sub-path, is refused before any handler and left out, and so
are requests on the root itself (`FilesAssumption`), which the code does not refuse;
when both paths of a move are wrong, which of the two errors it reports is fixed,
where rename(2) has an order of its own.
`was[w]` is history: the tree request `w` found, given up when another request
comes to a path above, at or below one of its own, or to one that has.

### Api

The way every request goes: `Arrive` or `Invoke`, `Admit` (key, role, form),
`Start` (the service starts its command, unless the request's context has ended),
`Works` or `Fails` (which may have changed the host half-way), `Missing` (the
service returns without a record), `RecordAttempt` (the service's record),
`LogRequest` (the middleware's), `Reply`. `Services` says of each operation how
many commands it tries, whether the end of the context kills them, and whether it
records the attempt; `Needs` says which role its route asks for. Mounts, shares and
files pass through as operations with abstract services; what they do is in their
own modules. `host[t]` is the number of the request that changed target `t` last, so
that a change which comes late or was never permitted shows. `Leave` ends a
context, `ShellDies` and `Crash` end a process and leave its command running
(`stray`), `Signal`, `Return`, `Deadline`, `ServeFails`, `CloseLog` and `Exit` are
the end of the agent as `daemon.go` and `cli/agent.go` make it: the log is closed
when `Start` returns, whether or not requests are still at work.

Decisions: one life of the agent; status codes are abstracted to `ok`, `failed`,
`missing`, `refused` and `moved` (the redirect of net/http for a path that is not
clean, which no handler sees but the middleware does), so the order in which a request is refused does not show;
the routes without a key (health, version, documentation) change nothing and are
left out; the body of an answer is sent when the outermost handler returns, since
answers are smaller than the buffer of net/http.

### Processes, Discovery, Frontend

`Processes` is the list: `Ask` takes the pids and cuts the page, in integers that
wrap at `MaxInt`, then `Lookup` and `Read` go from pid to pid while the host's `Fork`
and `Exit` go on and use pids again. A client walks through the pages (`Walk`,
`Turn`, `WalkEnds`) until it has asked for as many as the last answer's total.

`Discovery` has a discrete clock. An agent sends at once and then every `Interval`
(`Send`); when its dial failed it runs and never sends. A packet arrives (`Deliver`),
leaves a copy behind, or is lost (`Lose`); `Tick` waits for what is due. A browse
collects names until its deadline; at the deadline itself, what has arrived and the
time-out race. `browse.through` and `browse.lost` are history. The version an agent
advertises is left out (that of the first packet heard is shown), and so are packets
of strangers on the port.

`Frontend` composes them as the administrator does who discovers the agents, chooses
one and looks at its processes. Nothing else passes between the two parts, so the
second starts with the first at rest.

## 3. The runs

| Run | What it shows | Bounds |
|---|---|---|
| share_sequential | disk, memory, services and answers stay in step; Share implements ShareStore; every request is answered | one worker, 4 requests from ten on two names through every route, failing Samba reloads, restarts |
| share_concurrent | acknowledged shares stay in memory; no blend of versions | two workers of one agent, 2 requests on a share left over, failing writes and reloads, a state file that may be unreadable, the agent killed at any step |
| share_overtaken (violation) | the older copy is written last | two creations |
| mount_service | mutual exclusion makes check and mount one; answers true; fstab keeps what was promised; every request is answered | two workers, 4 requests, two directories, two spellings of a source, every failure |
| mount_processes | one line per mount point, credentials before the line | agent and command, 4 requests, failures of fstab, crashes |
| keys_serve | someone can always log in; without overlap file and restarts hold the keys in force | one agent, two commands, three keys, 5 processes, failures, crashes |
| keys_revoked (violation) | a revoked key is still accepted | the same, 3 processes, no failures |
| daemon_life | status true, orderly exit leaves no file, a signalled agent ends | two process ids, two stop commands, other programs, crashes, failures |
| daemon_restart (violation) | the exit of the earlier agent removes the PID file of the next | two agents one after the other |
| files_serve | permission, audit and true answers | two workers, 3 requests out of 21, eight paths, five inodes, any call may fail |
| api_serve | only the permitted change the host; the log has every answered change, truly, also when the agent ends; replayed, it tells the host's state | two handlers, one command, 2 requests out of sixteen on two targets, every way a request or the agent can end |
| lan_session | every agent is heard in time; every page is right; a walk misses nothing | two agents, a ticker of 3, time-outs 3, 5 and 8, a delay of 1, one loss each; three pids, five processes, ints of 4 bits |

The bounds are the least at which the interesting cases happen: two requests
that overlap and a third that finds what they left; a share that changes its
type and is the last of it; a persistent mount that is replaced and one that
fails; a key made, revoked and an agent restarted; a copy of two blocks with a
write between them; an HTTP request and a command on one target while the agent
stops; a time-out that has room for a lost packet and one that has not; a page
whose bounds leave the integers. Symmetry is used of workers and keys that no property tells
apart, and never in a run with a liveness property. Deadlock is not checked:
when the bounded number of requests is used up the system has nothing to do, as
the real one has between requests.

### Disagreements met

- Two overlapping share requests: the one with the older copy may write last, so
  that an acknowledged share is missing from `shares.json` (share_overtaken).
- `mingyue auth revoke` says it removes the key from the running agent's memory;
  it removes it from its own (keys_revoked).
- An agent started after `agent stop` has answered loses its PID file to the
  exit of the earlier one (daemon_restart).

More have no run of their own. A request of the running agent writes its own map
over a share a CLI command has saved. After a failed `exportfs` the files are
restored but smbd has loaded the new ones. A copy of a file onto itself empties the
file and reports success. umount of a directory with a space in its name answers
that it is not mounted, for `/proc/mounts` is not decoded. Ending a process that is
gone answers with an internal error: `manager.go:107` promises ErrNotFound on ESRCH,
and Go reports such a process with an error of its own. `mingyue agent discover`
waits as long by default as agents take between two packets, so an agent whose
packet takes any time may be missing from a list of "all agents"
(`docs/web-integration.md:167`); `HeardAlive` holds from one delay more.

A move or a copy into a directory that is not there answers 404 and "source ... not
found", though the source is there (`service/file/manager.go:243` and `:270`; the
contract, `specs/001-linux-ops-agent/contracts/api-routes.md:785` and `:805`, has 404
for the source only), so `Missing` of Files has to allow it. A recursive removal of a
path that is not there answers 204, where the contract (`:753`) has 404:
`os.RemoveAll` finds nothing to do. The audit middleware records a redirect of
net/http as a success (`middleware/audit.go:60`), so a change that nobody made is in
the log as one; `RecordsTrue` has it as its one exception. A persistent CIFS mount
that fails while fstab is read or replaced has replaced the credentials of the line
that was there (`mount.go:394`), while its answer says only that it failed to persist
(`mount.go:157`); `KeptAcrossBoot` says of such a line that it has the credentials left
by that request. A share file that cannot be read is removed by a rollback
(`filebackend.go:169`), and a state file that cannot be read at start-up is taken as
empty. A mount when the mount table cannot be read, and a change of a share that is
not there, is recorded by the middleware only, where the contract (`:538` to `:553`)
has success and failure recorded.

### What the properties leave out

`AckedPersisted`, `FilesAgree`, `LossWindow` and `ServicesCurrent` hold of
requests one after another; with overlap the code
does not ensure them. `LossWindow` is about what a process would load, not about what
the services serve then, which start-up does not refresh. With overlap and files that
cannot be written, `ConsistentVersions` says that no file and no service has a blend of
two versions, but not that disk and memory agree; `AckedInMemory` takes what a process
loaded for what it has promised, and leaves out names two requests fought over
(`unsure`), as `OtherSharesUntouched` does a request's own name: a rollback over
another request's change is allowed by both. `ServicesCurrent` is about a service whose own command
never fails, in a run in which Samba's does. `OneMountPerDir` is about one
process and canonical spellings; `KeysKept`, `RestartEnforces`, `StatusTrue` and
`CleanExit` exclude processes that overlap (`raced`, `muddled`). `AnswersTrue` of
Files speaks of requests that met no other on their paths; those that meet are
checked for permission and audit only. Its 404 means that something is missing, not
always what the answer names. `Recorded` assumes a process that does not
die between the change and its record. The audit properties of Api leave out what
they say they do: records whose write failed, the service's record of a missing
target, the middleware's success of a redirect, Samba users on the command line, and
for `LogReplays` targets at which two requests met or something ended half-way.
`PagesRight` is about pages for which page times limit is an int (beyond, a start
below 0 makes the request panic), `WalkSees` about walks during which no process
exits: an exit moves later processes to a page already asked for.

## 4. The proofs

All theorems hold for any number of processes, workers, requests and names, from
the assumptions each module states of its constants.

- **ShareProofs**: `TypeCorrect`; `VersionsConsistent` (a whole file was made of
  one map that some memory was), by an invariant that every copy a worker holds
  and every content it is to write or restore is a version some process had;
  `MemoryStaysWellFormed`, by an invariant that every share a request has
  validated, every share on disk and every earlier share kept for a rollback is
  valid, with one share to a name; `OthersUntouched`, an action property;
  `MemoryKeepsAnswers`, by `AnswerInv`: under a name that one request only is at
  work on, memory is what was promised, or that request's change of it.
- **ShareSequentialProofs**, for `Sequential` (one process, no overlap, files that
  can be written, no kill; reload commands fail and the process restarts):
  `AnswersPersist`, `FilesInAgreement`, `LossIsBounded` and the refinement
  `Implements`, by `SeqInv`: how far `Reload` or its rollback has come says which
  files are old and which are new, and between requests memory and files are what
  was promised. So what the process has committed to is what it promised
  (`Promise`), and only the answer of a success changes it. `ServicesFollowFiles`
  adds `LoadInv`, and that exportfs does not fail: Samba is not told again when it
  does (a hazard below no property).
- **MountProofs**: `TypeCorrect`; `MutualExclusion` (past `Lock` exactly while
  holding); `OneLineEach` and `CredsFirst`, by an invariant on fstab and on the
  copies of it that workers hold, since another process may replace it in
  between; `NeverStacked`, from the mutex and from what the worker has read of
  the table since, for one process that does not crash and canonical points.
  From the same invariant, `AnswersAreTrue`, with `MountedInv`: while a worker
  persists a mount, its source is what is mounted. `BootsAcknowledged` needs no
  canonical points and allows every failure: `KeptInv` says that what a worker has
  read of fstab is what is there, and that only a worker between the credentials and
  the entry of a mount point parts the two, for good when it fails there (`left`). `OthersAreKept`
  holds also of a process that dies: `ReadInv`, that nobody writes fstab between a
  worker's read of it and its write, and `OthersStay`, that `WithEntry` changes or
  adds one line only, the least of those of its mount point (`LeastMember`).
- **KeyStoreProofs**: `TypeCorrect`; `NobodyLockedOut`, by an invariant that an
  agent that has not got a key in memory is about to make one; `FileKeepsKeys`
  and `RestartsEnforce`, by `SerialInv`: without overlap the file, the copy a
  process has read and the keys handed out agree.
- **DaemonProofs**: `TypeCorrect`; `StatusHolds` and `LeavesNoFile`, by `PidInv`:
  with one agent at a time the file holds its id from the write to the removal.
- **FilesProofs**: `TypeCorrect`; `PermittedOnly`, by `ProgressInv`: where a worker
  is says what has been checked of its request; `RecordsComplete`, by `TrailInv`:
  where a worker is says what has been recorded of it. `AnswersHold`, that what
  other requests do on other paths does not show in an answer, supposes that no file
  has two names at first (`NoHardLinks`): a write would be seen under the other one.
  `AnswersInv` says that the tree is one, with every entry below a directory and no
  file under two names (`Proper`); that requests on one path do not go unnoticed
  (`Alone`) and nobody writes to a file in the scope of a request that met no other
  (`Owner`); and, for each place in each operation, what is left of the tree that
  was found (`Stage`). A step of another request changes nothing in that scope, and
  above it makes directories only (`Frame`); the steps of the request itself go
  from stage to stage. The rest are lemmas about paths: the order of `Prefix`, and
  that `Moved` and the move back are inverse and keep it.
- **ApiProofs**: `TypeCorrect`; `AuthorizedOnly`, by `AuthInv`: a request past
  `Admit`, in a worker, in a command that outlives it, or in what has been made of it,
  was permitted; `AnswersRecorded` and `LogTrue`, by `TrailInv`: where a worker is
  says what the log has of its request, and each layer at most once; `LogTellsHost`
  (the log says who changed a target last), by `ReplayInv`: of a target at which no
  two requests met, the last success the log has is of the request that changed it
  last, or one worker owes it that record (the success of a redirect claims nothing,
  `Claims`); `StoppedClean`,
  by `CleanInv`: an agent that has not been cut short leaves `draining` with its
  handlers idle. `WorkInv` is what they share: each request in progress is one
  worker's, and its number tells it.
- **FrontendProofs**: of the discovery, `TypeCorrect` and `EveryAgentHeard`, for a
  delay below the interval: an agent that has advertised since the browse opened and
  has not been heard will send its next packet, or has the last on its way, within
  one interval of the opening and one more for each packet lost (`HearingInv`).
  `SessionHears` says so of the whole session. Of the process list, `PagesAreRight`
  and `WalksSeeAll`, from `SessionLooks`: a page under way is the slice of an
  ascending list (`PageInv`); each of its processes that has run since is still to be
  looked at or is in the answer (`Told`); a walk has seen what stood before its page
  (`WalkInv`), for a number does not move down in an ascending list when others join
  it (`NotBefore`). `PageIs` proves the arithmetic of the slice against the division
  that defines a page, for any page, limit and total whose product is an int.

Only checked by TLC: `Answered` and `SignalledEnds`, which are liveness and beyond
TLAPS, as is ENABLED.

## 5. Not modelled

Text: the wording of configuration files, mount options, audit lines, JSON and
tables. Parsing of the output of lsblk, smartctl, hdparm and getfacl. What only
reads (SMART, devices, interfaces, the monitor) and the pages of documentation.
Symbolic links: the file service resolves a path first and uses it later.
Durability below the file system: a crash is that of a process, not of the host.
`PROJECT.json` "components" gives the reason for each.

## 6. The plan

Done: Share and ShareStore, Mount, KeyStore, Daemon and Files, in the order of what
they may lose; then Api, which every request passes through, Processes and Discovery.

Left to model: symbolic links in Files; the parsers of command output as pure
operators; two lives of the agent in Api, which would join it to Daemon.

Left to prove: of the properties of the runs, only the two that are liveness. What
next holds of overlapping processes is to be stated first: Mount and KeyStore
promise less there than within one process, and their theorems assume as much.
