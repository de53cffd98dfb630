------------------------------- MODULE Files -------------------------------
EXTENDS Naturals, Sequences

(***************************************************************************)
(* Files: internal/service/file/manager.go, served over HTTP (api/file.go,  *)
(* behind the middleware of api/middleware) and from the command line       *)
(* (cli/file.go).                                                          *)
(*                                                                         *)
(* No lock orders the requests: each is a goroutine, or a process, whose    *)
(* system calls interleave with those of the others.  A request is admitted *)
(* or refused, its operation runs call by call on the tree, the service     *)
(* records it, the handler answers, and the middleware records the answer.  *)
(*                                                                         *)
(* A path is the sequence of its names, already cleaned and absolute; there *)
(* are no symbolic links.  A file's content is a sequence of blocks, a      *)
(* block being what one call of io.Copy moves; os.WriteFile writes all its  *)
(* data in one call.  An entry of a directory is addressed by its path: the *)
(* move of a directory while it is being removed recursively is left out.   *)
(***************************************************************************)
CONSTANTS
    Paths,           \* the paths of the model; <<>> is the root directory
    Inodes,          \* files, named or only open
    Absent, Dir,     \* a path that does not exist; a directory
    NoFile,          \* no open file
    Data,            \* the contents requests write
    InitialNode,     \* what is at each path at first
    InitialContent,  \* and in each file
    Requests,        \* what the callers ask for
    NoRequest,
    Workers,         \* goroutines of the agent, processes of the command line
    NoTree,          \* the tree a request found is no longer known
    MayFail,         \* may a call fail though the tree allows it (a full disk,
                     \* a permission, an I/O error)
    MaxRequests      \* bound on the number of requests

VARIABLES
    node,     \* node[p]: Absent, Dir or the file at p
    content,  \* content[i]: the blocks of file i
    pc,       \* pc[w]: what worker w does next
    req,      \* req[w]: its request
    open,     \* open[w]: the files it has open and its place in its work
    code,     \* code[w]: the error of its operation, "" for success
    status,   \* status[w]: the HTTP status it has answered
    trail,    \* trail[w]: what the audit log says of its request
    asked,    \* requests begun so far
    was       \* history: was[w], the tree its request found, as long as it has
              \* met no other request

tree == <<node, content>>
vars == <<node, content, pc, req, open, code, status, trail, asked, was>>

Ops == {"list", "stat", "read", "mkdir", "remove", "move", "copy", "write"}
Reading == {"list", "stat", "read"}
RoleOrder == [none |-> 0, viewer |-> 1, operator |-> 2, admin |-> 3]
Codes == {"", "UNAUTHORIZED", "FORBIDDEN", "INVALID_INPUT", "NOT_FOUND",
          "INTERNAL"}
Hole == 0     \* a block that was never written

\* front: "http" or "cli"; role: that of the key an HTTP request brings; root:
\* the manager's root; valid: its body or its parameters are well formed.
Request == [front : {"http", "cli"}, role : DOMAIN RoleOrder, root : Paths,
            valid : BOOLEAN, op : Ops, src : Paths, dst : Paths,
            recursive : BOOLEAN, data : Data]

Parent(p) == SubSeq(p, 1, Len(p) - 1)
Prefix(p, q) == Len(p) <= Len(q) /\ SubSeq(q, 1, Len(p)) = p
Under(p) == {q \in Paths : Prefix(p, q)}
Moved(p, src, dst) == dst \o SubSeq(p, Len(src) + 1, Len(p))

ASSUME FilesAssumption ==
    /\ Paths \subseteq Seq(STRING)
    /\ <<>> \in Paths
    /\ \A p \in Paths : \A n \in 0..Len(p) : SubSeq(p, 1, n) \in Paths
    /\ Inodes \subseteq Nat
    /\ {Absent, Dir, NoFile} \cap Inodes = {}
    /\ Dir \notin {Absent, NoFile}
    /\ Data \subseteq Seq(Nat)
    /\ {Absent, Dir} \cap Seq(Nat) = {}
    /\ InitialNode \in [Paths -> Inodes \cup {Absent, Dir}]
    /\ InitialNode[<<>>] = Dir
    /\ \A p, q \in Paths :
          Prefix(q, p) /\ q # p /\ InitialNode[p] # Absent => InitialNode[q] = Dir
    /\ InitialContent \in [Inodes -> Seq(Nat)]
    /\ Requests \subseteq Request
    /\ NoRequest \notin Requests
    /\ \A r \in Requests : r.src # <<>> /\ r.dst # <<>>
    /\ \A r \in Requests : r.op = "move" =>
          \/ Prefix(r.src, r.dst)
          \/ \A p \in Under(r.src) : Moved(p, r.src, r.dst) \in Paths
    /\ MayFail \in BOOLEAN
    /\ MaxRequests \in Nat
-----------------------------------------------------------------------------
IsFile(p) == node[p] \in Inodes
Children(p) == {q \in Under(p) : q # p /\ node[q] # Absent}
Removable(p) == IsFile(p) \/ (node[p] = Dir /\ Children(p) = {})

\* What a system call says of a path that is not there: ENOENT, or ENOTDIR
\* when a name on the way is that of a file.
LookupError(p) ==
    IF \E q \in Paths : Prefix(q, p) /\ q # p /\ IsFile(q)
    THEN "INTERNAL" ELSE "NOT_FOUND"

Free(i) == /\ \A p \in Paths : node[p] # i
           /\ \A w \in Workers : i \notin {open[w].in, open[w].out}

Closed == [in |-> NoFile, out |-> NoFile, at |-> 0, todo |-> {}]

\* The blocks of d written over those of old from offset n on.
Overlay(old, n, d) ==
    [k \in 1..(IF Len(old) > n + Len(d) THEN Len(old) ELSE n + Len(d)) |->
        IF k > n /\ k <= n + Len(d) THEN d[k - n]
        ELSE IF k <= Len(old) THEN old[k] ELSE Hole]

Tree == [p \in Paths |-> IF IsFile(p) THEN content[node[p]] ELSE node[p]]

Busy(w) == pc[w] # "idle"
Touched(r) == IF r.op \in {"move", "copy"} THEN {r.src, r.dst} ELSE {r.src}

\* Request r and that of v can meet: their paths lie above or below each other,
\* or v has met another already, which may have moved the file it writes.
Rivals(r, v) ==
    \/ was[v] = NoTree
    \/ \E p \in Touched(r), q \in Touched(req[v]) : Prefix(p, q) \/ Prefix(q, p)
-----------------------------------------------------------------------------
Init ==
    /\ node = InitialNode
    /\ content = InitialContent
    /\ pc = [w \in Workers |-> "idle"]
    /\ req = [w \in Workers |-> NoRequest]
    /\ open = [w \in Workers |-> Closed]
    /\ code = [w \in Workers |-> ""]
    /\ status = [w \in Workers |-> 0]
    /\ trail = [w \in Workers |-> <<>>]
    /\ asked = 0
    /\ was = [w \in Workers |-> NoTree]

Begin(w) == \E r \in Requests :
    /\ pc[w] = "idle"
    /\ asked < MaxRequests
    /\ asked' = asked + 1
    /\ pc' = [pc EXCEPT ![w] = IF r.front = "http" THEN "admit" ELSE "check"]
    /\ req' = [req EXCEPT ![w] = r]
    /\ code' = [code EXCEPT ![w] = ""]
    /\ status' = [status EXCEPT ![w] = 0]
    /\ trail' = [trail EXCEPT ![w] = <<>>]
    /\ LET rivals == {v \in Workers \ {w} : Busy(v) /\ Rivals(r, v)}
       IN was' = [v \in Workers |->
                    IF v = w THEN IF rivals = {} THEN Tree ELSE NoTree
                    ELSE IF v \in rivals THEN NoTree ELSE was[v]]
    /\ UNCHANGED <<tree, open>>

Goto(w, label) == pc' = [pc EXCEPT ![w] = label]

\* The operation ends with error c, "" for none; reading is not recorded.
Done(w, c) ==
    /\ code' = [code EXCEPT ![w] = c]
    /\ open' = [open EXCEPT ![w] = Closed]
    /\ Goto(w, IF req[w].op \in Reading THEN "answer" ELSE "record")

HasRole(role, minimum) == RoleOrder[role] >= RoleOrder[minimum]

\* Without the check of the role.
Refusal_AnyRole(r) ==
    IF r.role = "none" THEN "UNAUTHORIZED"
    ELSE IF ~r.valid THEN "INVALID_INPUT" ELSE ""

\* Authentication first, then the role that a change needs, then the request.
Refusal(r) ==
    IF r.role = "none" THEN "UNAUTHORIZED"
    ELSE IF r.op \notin Reading /\ ~HasRole(r.role, "operator") THEN "FORBIDDEN"
    ELSE IF ~r.valid THEN "INVALID_INPUT" ELSE ""

Admit(w) ==
    /\ pc[w] = "admit"
    /\ code' = [code EXCEPT ![w] = Refusal(req[w])]
    /\ Goto(w, IF Refusal(req[w]) = "" THEN "check" ELSE "answer")
    /\ UNCHANGED <<tree, req, open, status, trail, asked, was>>

\* The paths the service checks against its root.
SafePath(w, p) == Prefix(req[w].root, p)

FirstStep(op) ==
    CASE op \in Reading -> "look"
      [] op = "mkdir" -> "lookup"
      [] op = "write" -> "create"
      [] op = "copy" -> "source"
      [] OTHER -> op

Check(w) ==
    /\ pc[w] = "check"
    /\ \/ /\ \A p \in Touched(req[w]) : SafePath(w, p)
          /\ Goto(w, FirstStep(req[w].op))
          /\ UNCHANGED <<code, open>>
       \/ /\ \E p \in Touched(req[w]) : ~SafePath(w, p)
          /\ Done(w, "FORBIDDEN")
    /\ UNCHANGED <<tree, req, status, trail, asked, was>>
-----------------------------------------------------------------------------
Look(w) ==
    LET p == req[w].src
    IN  /\ pc[w] = "look"
        /\ Done(w, IF node[p] = Absent THEN LookupError(p)
                   ELSE IF req[w].op = "list" /\ IsFile(p) THEN "INTERNAL"
                   ELSE IF req[w].op = "read" /\ node[p] = Dir THEN "INTERNAL"
                   ELSE "")
        /\ UNCHANGED <<tree, req, status, trail, asked, was>>

\* MkdirAll looks for the deepest ancestor that is there, and makes the
\* directories below it one by one.
Lookup(w) ==
    LET p == req[w].src
        there == {q \in Paths : Prefix(q, p) /\ node[q] # Absent}
    IN  /\ pc[w] = "lookup"
        /\ \E q \in there :
              /\ \A r \in there : Len(r) <= Len(q)
              /\ IF node[q] = Dir /\ q # p
                 THEN /\ open' = [open EXCEPT ![w].at = Len(q) + 1]
                      /\ Goto(w, "mkdir")
                      /\ UNCHANGED code
                 ELSE Done(w, IF node[q] = Dir THEN "" ELSE "INTERNAL")
        /\ UNCHANGED <<tree, req, status, trail, asked, was>>

Mkdir(w) ==
    LET p == req[w].src
        q == SubSeq(p, 1, open[w].at)
        fits == node[Parent(q)] = Dir /\ node[q] \in {Absent, Dir}
    IN  /\ pc[w] = "mkdir"
        /\ \/ /\ fits
              /\ node' = [node EXCEPT ![q] = Dir]
              /\ IF q = p THEN Done(w, "")
                 ELSE /\ open' = [open EXCEPT ![w].at = @ + 1]
                      /\ UNCHANGED <<pc, code>>
           \/ /\ ~fits \/ MayFail
              /\ Done(w, "INTERNAL")
              /\ UNCHANGED node
        /\ UNCHANGED <<content, req, status, trail, asked, was>>

\* os.Remove, which is also what os.RemoveAll tries first.
Remove(w) ==
    LET p == req[w].src
        swept == req[w].recursive
    IN  /\ pc[w] = "remove"
        /\ \/ /\ node[p] = Absent
              /\ Done(w, IF swept /\ LookupError(p) = "NOT_FOUND" THEN ""
                         ELSE LookupError(p))
              /\ UNCHANGED node
           \/ /\ Removable(p)
              /\ node' = [node EXCEPT ![p] = Absent]
              /\ Done(w, "")
           \/ /\ node[p] = Dir /\ ~Removable(p)
              /\ IF swept
                 THEN /\ open' = [open EXCEPT ![w].todo = Children(p)]
                      /\ Goto(w, "sweep")
                      /\ UNCHANGED code
                 ELSE Done(w, "INTERNAL")
              /\ UNCHANGED node
        /\ UNCHANGED <<content, req, status, trail, asked, was>>

\* RemoveAll takes away the entries it has read, and any it comes to see.
Sweep(w) ==
    /\ pc[w] = "sweep"
    /\ \E q \in open[w].todo \cup Children(req[w].src) :
          /\ node[q] = Absent \/ Removable(q)
          /\ node' = [node EXCEPT ![q] = Absent]
          /\ open' = [open EXCEPT ![w].todo = @ \ {q}]
    /\ UNCHANGED <<content, pc, req, code, status, trail, asked, was>>

\* At last it removes the directory, in which others may have made entries.
SweepEnds(w) ==
    LET p == req[w].src
        stuck == \E q \in open[w].todo :
                    Children(q) # {} /\ Children(q) \cap open[w].todo = {}
    IN  /\ pc[w] = "sweep"
        /\ \/ /\ open[w].todo = {} /\ (node[p] = Absent \/ Removable(p))
              /\ node' = [node EXCEPT ![p] = Absent]
              /\ Done(w, "")
           \/ /\ (open[w].todo = {} /\ Children(p) # {}) \/ stuck \/ MayFail
              /\ Done(w, "INTERNAL")
              /\ UNCHANGED node
        /\ UNCHANGED <<content, req, status, trail, asked, was>>

\* os.Rename, which does not replace a directory.
RenameError(src, dst) ==
    IF node[dst] = Dir
    THEN IF node[src] = Absent THEN LookupError(src) ELSE "INTERNAL"
    ELSE IF node[src] = Absent /\ LookupError(src) = "INTERNAL" THEN "INTERNAL"
    ELSE IF node[Parent(dst)] # Dir THEN LookupError(dst)
    ELSE IF node[src] = Absent THEN "NOT_FOUND"
    ELSE IF node[src] = Dir /\ (IsFile(dst) \/ Prefix(src, dst)) THEN "INTERNAL"
    ELSE ""

Rename(w) ==
    LET src == req[w].src
        dst == req[w].dst
    IN  /\ pc[w] = "move"
        /\ IF RenameError(src, dst) = "" /\ src # dst
           THEN node' = [q \in Paths |->
                   IF Prefix(dst, q) /\ Moved(q, dst, src) \in Paths
                   THEN node[Moved(q, dst, src)]
                   ELSE IF Prefix(src, q) THEN Absent ELSE node[q]]
           ELSE UNCHANGED node
        /\ Done(w, RenameError(src, dst))
        /\ UNCHANGED <<content, req, status, trail, asked, was>>

\* CopyFile opens its source, a directory if need be, creates the other file
\* and moves block after block until it meets the end of the source.
OpenSource(w) ==
    LET p == req[w].src
    IN  /\ pc[w] = "source"
        /\ IF node[p] = Absent THEN Done(w, LookupError(p))
           ELSE /\ open' = [open EXCEPT ![w].in = node[p]]
                /\ Goto(w, "create")
                /\ UNCHANGED code
        /\ UNCHANGED <<tree, req, status, trail, asked, was>>

\* os.Create and os.WriteFile empty a file that exists.
Create(w) ==
    LET copying == req[w].op = "copy"
        p == IF copying THEN req[w].dst ELSE req[w].src
        Opened(i) == /\ open' = [open EXCEPT ![w].out = i]
                     /\ content' = [content EXCEPT ![i] = <<>>]
                     /\ Goto(w, IF copying THEN "copy" ELSE "write")
                     /\ UNCHANGED code
    IN  /\ pc[w] = "create"
        /\ \/ /\ IsFile(p)
              /\ Opened(node[p])
              /\ UNCHANGED node
           \/ /\ node[p] = Absent /\ node[Parent(p)] = Dir
              /\ \E i \in Inodes :
                    /\ Free(i) /\ \A j \in Inodes : Free(j) => i <= j
                    /\ node' = [node EXCEPT ![p] = i]
                    /\ Opened(i)
           \/ /\ node[p] = Dir \/ node[Parent(p)] # Dir
              /\ Done(w, IF copying /\ node[p] = Absent THEN LookupError(p)
                         ELSE "INTERNAL")
              /\ UNCHANGED tree
        /\ UNCHANGED <<req, status, trail, asked, was>>

CopyBlock(w) ==
    LET in == open[w].in
        n == open[w].at
    IN  /\ pc[w] = "copy"
        /\ in # Dir /\ n < Len(content[in])
        /\ content' = [content EXCEPT ![open[w].out] =
                          Overlay(@, n, <<content[in][n + 1]>>)]
        /\ open' = [open EXCEPT ![w].at = n + 1]
        /\ UNCHANGED <<node, pc, req, code, status, trail, asked, was>>

\* The error of io.Copy is not looked at.
CopyEnds_Unchecked(w) ==
    /\ pc[w] = "copy"
    /\ \/ open[w].in = Dir \/ MayFail
       \/ open[w].at >= Len(content[open[w].in])
    /\ Done(w, "")
    /\ UNCHANGED <<tree, req, status, trail, asked, was>>

CopyEnds(w) ==
    /\ pc[w] = "copy"
    /\ \/ /\ open[w].in # Dir
          /\ open[w].at >= Len(content[open[w].in])
          /\ Done(w, "")
       \/ /\ open[w].in = Dir \/ MayFail
          /\ Done(w, "INTERNAL")
    /\ UNCHANGED <<tree, req, status, trail, asked, was>>

\* The call that writes may write a part only, and that which closes the file
\* may fail when all of it is written.
Write(w) ==
    LET d == req[w].data
    IN  /\ pc[w] = "write"
        /\ \E n \in 0..Len(d) :
              /\ content' = [content EXCEPT ![open[w].out] =
                                Overlay(@, 0, SubSeq(d, 1, n))]
              /\ \/ n = Len(d) /\ Done(w, "")
                 \/ MayFail /\ Done(w, "INTERNAL")
        /\ UNCHANGED <<node, req, status, trail, asked, was>>

\* A call that the tree would allow fails all the same, and has changed nothing.
CallFails(w) ==
    /\ MayFail
    /\ pc[w] \in {"look", "lookup", "remove", "move", "source", "create"}
    /\ Done(w, "INTERNAL")
    /\ UNCHANGED <<tree, req, status, trail, asked, was>>
-----------------------------------------------------------------------------
Event(layer, failed) == [layer |-> layer, failed |-> failed]

\* Only what succeeds is recorded.
Record_Success(w) ==
    /\ pc[w] = "record"
    /\ trail' = [trail EXCEPT ![w] =
                    IF code[w] = "" THEN Append(@, Event("service", FALSE)) ELSE @]
    /\ Goto(w, "answer")
    /\ UNCHANGED <<tree, req, open, code, status, asked, was>>

Record(w) ==
    /\ pc[w] = "record"
    /\ trail' = [trail EXCEPT ![w] = Append(@, Event("service", code[w] # ""))]
    /\ Goto(w, "answer")
    /\ UNCHANGED <<tree, req, open, code, status, asked, was>>

\* Errors of the service that are not known to be the caller's are conflicts.
StatusOf_Conflict(c) ==
    CASE c = "NOT_FOUND" -> 404
      [] c = "UNAUTHORIZED" -> 401
      [] c = "FORBIDDEN" -> 403
      [] c = "INVALID_INPUT" -> 400
      [] OTHER -> 409

StatusOf(c) ==
    CASE c = "NOT_FOUND" -> 404
      [] c = "UNAUTHORIZED" -> 401
      [] c = "FORBIDDEN" -> 403
      [] c = "INVALID_INPUT" -> 400
      [] OTHER -> 500

Success(op) ==
    CASE op \in Reading -> 200
      [] op \in {"mkdir", "write"} -> 201
      [] OTHER -> 204

\* The handler answers; a command ends with an exit status.
Answer(w) ==
    LET http == req[w].front = "http"
    IN  /\ pc[w] = "answer"
        /\ status' = [status EXCEPT ![w] =
                         IF ~http THEN 0
                         ELSE IF code[w] = "" THEN Success(req[w].op)
                         ELSE StatusOf(code[w])]
        /\ Goto(w, IF http /\ req[w].op \notin Reading THEN "log" ELSE "idle")
        /\ UNCHANGED <<tree, req, open, code, trail, asked, was>>

\* The middleware records every request that is made with a changing method.
LogRequest(w) ==
    /\ pc[w] = "log"
    /\ trail' = [trail EXCEPT ![w] = Append(@, Event("http", status[w] >= 400))]
    /\ Goto(w, "idle")
    /\ UNCHANGED <<tree, req, open, code, status, asked, was>>

Operate(w) ==
    \/ Look(w) \/ Lookup(w) \/ Mkdir(w)
    \/ Remove(w) \/ Sweep(w) \/ SweepEnds(w) \/ Rename(w)
    \/ OpenSource(w) \/ Create(w) \/ CopyBlock(w) \/ CopyEnds(w) \/ Write(w)
    \/ CallFails(w)

Run(w) == Admit(w) \/ Check(w) \/ Operate(w) \/ Record(w) \/ Answer(w)
              \/ LogRequest(w)

Next == \E w \in Workers : Begin(w) \/ Run(w)

Spec == Init /\ [][Next]_vars
-----------------------------------------------------------------------------
Labels == {"idle", "admit", "check", "look", "lookup", "mkdir", "remove",
           "sweep", "move", "source", "create", "copy", "write", "record",
           "answer", "log"}
Events == [layer : {"service", "http"}, failed : BOOLEAN]

\* The variables keep their types.
TypeOK ==
    /\ node \in [Paths -> Inodes \cup {Absent, Dir}]
    /\ content \in [Inodes -> Seq(Nat)]
    /\ pc \in [Workers -> Labels]
    /\ req \in [Workers -> Requests \cup {NoRequest}]
    /\ open \in [Workers -> [in : Inodes \cup {Dir, NoFile},
                             out : Inodes \cup {NoFile},
                             at : Nat, todo : SUBSET Paths]]
    /\ code \in [Workers -> Codes]
    /\ status \in [Workers -> {0, 200, 201, 204, 400, 401, 403, 404, 500}]
    /\ trail \in [Workers -> Seq(Events)]
    /\ asked \in Nat

Changing == {"lookup", "mkdir", "remove", "sweep", "move", "source", "create",
             "copy", "write"}

\* Whether the role and the form of a request let it reach the service.
Reached(r) == r.front = "http" => /\ r.op \notin Reading =>
                                        r.role \in {"operator", "admin"}
                                  /\ r.role # "none"
                                  /\ r.valid

\* A request reaches the calls that change the tree only with the role that the
\* contract asks of it, well formed, and with all its paths below the root of
\* its manager.
OnlyPermitted == \A w \in Workers : pc[w] \in Changing =>
    /\ Reached(req[w])
    /\ req[w].op \notin Reading
    /\ \A p \in Touched(req[w]) : Prefix(req[w].root, p)

Failed(w) == code[w] # ""
ServiceTrail(w) == IF req[w].op \notin Reading /\ Reached(req[w])
                   THEN <<Event("service", Failed(w))>> ELSE <<>>
HttpTrail(w) == IF req[w].op \notin Reading /\ req[w].front = "http"
                THEN <<Event("http", Failed(w))>> ELSE <<>>

\* Every attempt to change files leaves its records (FR-013, ADR-006), and the
\* two layers agree: the service's one when the request got as far as the
\* service, then that of the middleware when it came over HTTP, each a failure
\* exactly if the caller was told of one.  Reading leaves none.
Recorded == \A w \in Workers : pc[w] = "idle" /\ req[w] # NoRequest =>
    /\ trail[w] = ServiceTrail(w) \o HttpTrail(w)
    /\ req[w].front = "http" => (status[w] >= 400 <=> Failed(w))

Kept(w, S) == \A p \in S : Tree[p] = was[w][p]
Blocks(v) == IF v \in {Absent, Dir} THEN <<>> ELSE v
IsPart(v, d) == \E n \in 0..Len(d) : v = SubSeq(d, 1, n)

\* What a success says.  Two successes promise less than the routes document
\* says: a copy of a file onto itself empties the file, and is not meant here;
\* and a recursive removal of what is not there, which the document answers
\* with 404, succeeds, os.RemoveAll having nothing to do.
Promised(w) ==
    LET r == req[w]
        src == r.src
        dst == r.dst
        old == was[w]
    IN  CASE r.op \in Reading -> old[src] # Absent /\ Kept(w, Under(src))
          [] r.op = "mkdir" ->
                /\ \A q \in Paths : Prefix(q, src) => Tree[q] = Dir
                /\ Kept(w, Under(src) \ {src})
          [] r.op = "write" -> Tree[src] = r.data
          [] r.op = "remove" ->
                /\ \A p \in Under(src) : Tree[p] = Absent
                /\ old[src] = Absent => r.recursive
          [] r.op = "move" ->
                /\ old[src] # Absent
                /\ IF src = dst THEN Kept(w, Under(src))
                   ELSE \A p \in Under(src) :
                           /\ Tree[p] = Absent
                           /\ Tree[Moved(p, src, dst)] = old[p]
          [] r.op = "copy" ->
                /\ old[src] # Absent
                /\ src # dst => Tree[dst] = old[src] /\ Tree[src] = old[src]

\* What a failure may have done: of a write or a copy, part of the new content
\* in place of the old; of a recursive removal, part of the removal.
Damage(w) ==
    LET r == req[w]
        src == r.src
        dst == r.dst
        old == was[w]
        scope == UNION {Under(p) : p \in Touched(r)}
    IN  CASE r.op = "write" ->
                /\ Kept(w, scope \ {src})
                /\ Tree[src] = old[src] \/ IsPart(Tree[src], r.data)
          [] r.op = "copy" ->
                /\ Kept(w, scope \ {dst})
                /\ Tree[dst] = old[dst] \/ IsPart(Tree[dst], Blocks(old[src]))
          [] r.op = "remove" /\ r.recursive ->
                \A p \in scope : Tree[p] \in {old[p], Absent}
          [] OTHER -> Kept(w, scope)

\* What 404 says: the source is not there or, which the message of the error and
\* the routes document do not say, the directory that a move or a copy goes to.
Missing(w) ==
    LET r == req[w]
    IN  \/ was[w][r.src] = Absent
        \/ (r.op \in {"move", "copy"} /\ was[w][Parent(r.dst)] = Absent)

\* What overlapping requests on other paths do does not show: a success has done
\* what it says, a failure no more than its part, and 404 is answered only where
\* something is missing, if not always what the answer names (Missing).
AnswersTrue == \A w \in Workers :
    pc[w] \in {"record", "answer", "log"} /\ was[w] # NoTree =>
        IF code[w] = "" THEN Promised(w)
        ELSE Damage(w) /\ (code[w] = "NOT_FOUND" => Missing(w))
=============================================================================
