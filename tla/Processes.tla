----------------------------- MODULE Processes -----------------------------
EXTENDS Integers, Sequences, Functions

(***************************************************************************)
(* The process list: internal/service/process (manager.go), GET /processes *)
(* of internal/api/process.go and "mingyue process list", on a host whose  *)
(* processes come and go while the list is made, and whose pids are used   *)
(* again.  A client may also walk through the list page by page.           *)
(*                                                                         *)
(* A process is the number of its start; what the list tells of it (name,  *)
(* user, memory ...) is that number.  Ending a process is in module Api.   *)
(***************************************************************************)
CONSTANTS
    MaxPid,         \* pids are 1 .. MaxPid
    MaxProcess,     \* bound on the processes of a behaviour
    MaxInt,         \* the largest int (2^63 - 1 in the program)
    Pages, Limits,  \* the values of "page" and "limit" of requests; those below 1 and
                    \* below 0 are the command line's, the HTTP handler refuses them
    WalkLimits      \* the values of "limit" clients walk with

Pid == 1 .. MaxPid
Process == 1 .. MaxProcess
None == 0

VARIABLES
    table,   \* table[n]: the process that has pid n, or None
    born,    \* processes started so far
    list,    \* the request for a page of the list that is being served
    walk     \* the walk of a client through the list

vars == <<table, born, list, walk>>

Alive == {table[n] : n \in Pid} \ {None}
-----------------------------------------------------------------------------
(* Arithmetic on ints, which wraps. *)
Wrap(n) == ((n + MaxInt + 1) % (2 * (MaxInt + 1))) - (MaxInt + 1)

(* The bounds of the slice of total pids that a page is; a page below 1 is   *)
(* the first, a limit below 1 no limit.                                      *)
Start(page, limit) == IF page < 1 THEN 0 ELSE Wrap((page - 1) * limit)

End_Short(start, limit, total) == IF start + limit > total THEN total ELSE start + limit - 1
End(start, limit, total) == LET end == Wrap(start + limit)
                            IN  IF end > total THEN total ELSE end

Bounds(page, limit, total) ==
    LET start == Start(page, limit) IN
    CASE limit <= 0      -> [from |-> 0, to |-> total]
      [] limit > 0 /\ start >= total -> [from |-> 0, to |-> 0]
      [] limit > 0 /\ start < total  -> [from |-> start, to |-> End(start, limit, total)]

(* Go refuses a slice that starts below 0 or ends before it starts. *)
Panics(b) == b.from < 0 \/ b.to < b.from
-----------------------------------------------------------------------------
Idle == [at |-> "idle", page |-> 1, limit |-> 0, pids |-> <<>>, picked |-> <<>>,
         rest |-> <<>>, got |-> <<>>]
NoWalk == [on |-> FALSE, through |-> {}, seen |-> {}, shrunk |-> FALSE]

(* Some processes run already. *)
Running(S) == [n \in Pid |-> IF n \in S THEN n ELSE None]

Init ==
    /\ table \in {Running(S) : S \in SUBSET Pid}
    /\ born = MaxPid
    /\ list = Idle
    /\ walk = NoWalk
-----------------------------------------------------------------------------
(* The host. *)
Fork(n) ==
    /\ table[n] = None
    /\ born < MaxProcess
    /\ born' = born + 1
    /\ table' = [table EXCEPT ![n] = born + 1]
    /\ UNCHANGED <<list, walk>>

Exit(n) ==
    /\ table[n] # None
    /\ table' = [table EXCEPT ![n] = None]
    /\ walk' = [walk EXCEPT !.through = @ \ {table[n]}, !.shrunk = walk.on]
    /\ UNCHANGED <<born, list>>
-----------------------------------------------------------------------------
(* A page is asked for: the pids, in ascending order, are cut to it.  A      *)
(* panic ends the request: net/http recovers, the CLI dies.                  *)
Ascending(s) == \A i, j \in DOMAIN s : i < j => s[i] < s[j]

Pids == CHOOSE s \in UNION {[1 .. k -> Pid] : k \in 0 .. MaxPid} :
            Ascending(s) /\ Range(s) = {n \in Pid : table[n] # None}

Ask(page, limit) ==
    LET b == Bounds(page, limit, Len(Pids))
        picked == IF Panics(b) THEN <<>> ELSE SubSeq(Pids, b.from + 1, b.to)
    IN  list' = [at |-> IF Panics(b) THEN "panic" ELSE "info", page |-> page, limit |-> limit,
                 pids |-> Pids, picked |-> picked, rest |-> picked, got |-> <<>>]

List(page, limit) ==
    /\ list.at = "idle" /\ ~walk.on
    /\ Ask(page, limit)
    /\ UNCHANGED <<table, born, walk>>

(* Each pid is looked up; one whose process has exited is skipped ...        *)
Skip_Stop == list' = [list EXCEPT !.rest = <<>>]
Skip == list' = [list EXCEPT !.rest = Tail(@)]

Lookup ==
    /\ list.at = "info" /\ list.rest # <<>>
    /\ IF table[Head(list.rest)] = None THEN Skip ELSE list' = [list EXCEPT !.at = "read"]
    /\ UNCHANGED <<table, born, walk>>

(* ... then read, field by field, errors ignored: what is gone is left out,  *)
(* and a pid used again meanwhile shows its new process.                     *)
Read ==
    /\ list.at = "read"
    /\ list' = [list EXCEPT !.at = "info", !.rest = Tail(@),
                    !.got = Append(@, [pid |-> Head(list.rest), shows |-> table[Head(list.rest)]])]
    /\ UNCHANGED <<table, born, walk>>

Shown == {list.got[k].shows : k \in DOMAIN list.got}

Answer ==
    /\ list.at = "info" /\ list.rest = <<>>
    /\ list' = [list EXCEPT !.at = "answered"]
    /\ walk' = [walk EXCEPT !.seen = IF walk.on THEN @ \cup Shown ELSE @]
    /\ UNCHANGED <<table, born>>

Done ==
    /\ list.at \in {"answered", "panic"}
    /\ list.at = "answered" => ~walk.on
    /\ list' = Idle
    /\ walk' = NoWalk
    /\ UNCHANGED <<table, born>>
-----------------------------------------------------------------------------
(* A client that wants the whole list asks for page after page until it has  *)
(* asked for as many processes as the last answer's total.                   *)
Walk(limit) ==
    /\ list.at = "idle"
    /\ Ask(1, limit)
    /\ walk' = [on |-> TRUE, through |-> Alive, seen |-> {}, shrunk |-> FALSE]
    /\ UNCHANGED <<table, born>>

AtEnd == list.page * list.limit >= Len(list.pids)

Turn ==
    /\ list.at = "answered" /\ walk.on /\ ~AtEnd
    /\ Ask(list.page + 1, list.limit)
    /\ UNCHANGED <<table, born, walk>>

WalkEnds ==
    /\ list.at = "answered" /\ walk.on /\ AtEnd
    /\ list' = Idle
    /\ walk' = NoWalk
    /\ UNCHANGED <<table, born>>
-----------------------------------------------------------------------------
Next ==
    \/ \E n \in Pid : Fork(n) \/ Exit(n)
    \/ \E page \in Pages, limit \in Limits : List(page, limit)
    \/ Lookup \/ Read \/ Answer \/ Done
    \/ \E limit \in WalkLimits : Walk(limit)
    \/ Turn \/ WalkEnds

Spec == Init /\ [][Next]_vars
-----------------------------------------------------------------------------
(* Every variable stays within its type. *)
TypeOK ==
    /\ table \in [Pid -> Process \cup {None}]
    /\ born \in MaxPid .. MaxProcess
    /\ list \in [at : {"idle", "info", "read", "answered", "panic"}, page : Int, limit : Int,
                 pids : Seq(Pid), picked : Seq(Pid), rest : Seq(Pid),
                 got : Seq([pid : Pid, shows : Process \cup {None}])]
    /\ walk \in [on : BOOLEAN, through : SUBSET Process, seen : SUBSET (Process \cup {None}),
                 shrunk : BOOLEAN]

(* The page of a list by definition: the k-th of the pids is on page         *)
(* (k - 1) \div limit + 1, in the order of the list.                         *)
OnPage(page, limit, k) ==
    limit > 0 => (k - 1) \div limit + 1 = IF page < 1 THEN 1 ELSE page

(* As long as page * limit is an int, a request gets its page, no panic, and *)
(* of that page every process that has run from the start of the behaviour   *)
(* until now, in order, and none twice, whatever starts and exits meanwhile. *)
PagesRight ==
    list.at # "idle" /\ list.page * list.limit <= MaxInt =>
       /\ list.at # "panic"
       /\ \A k \in DOMAIN list.pids :
             OnPage(list.page, list.limit, k)
                <=> \E j \in DOMAIN list.picked : list.picked[j] = list.pids[k]
       /\ Ascending(list.picked)
       /\ \A n \in Range(list.picked) :
             table[n] = n /\ n \notin Range(list.rest) =>
                \E k \in DOMAIN list.got : list.got[k] = [pid |-> n, shows |-> n]

(* A client that has walked to the end of the list while processes started   *)
(* but none exited has seen every process that was there all the time: the   *)
(* pages, each cut from a new list, leave none out between them.             *)
WalkSees ==
    list.at = "answered" /\ walk.on /\ AtEnd /\ ~walk.shrunk => walk.through \subseteq walk.seen
=============================================================================
