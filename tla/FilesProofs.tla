---------------------------- MODULE FilesProofs ----------------------------
(***************************************************************************)
(* Proofs about Files, for any tree, requests and workers: that only what  *)
(* is permitted is done, that all of it is recorded, and that the answers  *)
(* are true.                                                               *)
(***************************************************************************)
EXTENDS Files, SequenceTheorems, TLAPS

(* What is known of a worker by where it is: that of its request which has  *)
(* been checked, and that a copy has a source open.                        *)
Progress(w) ==
    /\ pc[w] # "idle" => req[w] \in Requests
    /\ pc[w] \notin {"idle", "admit", "answer", "log"} => Reached(req[w])
    /\ pc[w] \in Changing \cup {"record", "log"} => req[w].op \notin Reading
    /\ pc[w] \in Changing => \A p \in Touched(req[w]) : Prefix(req[w].root, p)
    /\ pc[w] = "create" /\ req[w].op = "copy" => open[w].in # NoFile
    /\ pc[w] = "copy" => open[w].in # NoFile

ProgressInv == \A w \in Workers : Progress(w)

(* Blocks written over blocks are blocks. *)
LEMMA OverlayType ==
    ASSUME NEW old \in Seq(Nat), NEW n \in Nat, NEW d \in Seq(Nat)
    PROVE  Overlay(old, n, d) \in Seq(Nat)
<1> DEFINE m == IF Len(old) > n + Len(d) THEN Len(old) ELSE n + Len(d)
<1>1. m \in Nat
  OBVIOUS
<1>2. ASSUME NEW k \in 1..m
      PROVE  (IF k > n /\ k <= n + Len(d) THEN d[k - n]
              ELSE IF k <= Len(old) THEN old[k] ELSE Hole) \in Nat
  <2>1. CASE k > n /\ k <= n + Len(d)
    <3>1. k - n \in 1..Len(d)
      BY <2>1
    <3> QED BY <2>1, <3>1
  <2>2. CASE ~(k > n /\ k <= n + Len(d)) /\ k <= Len(old)
    BY <2>2
  <2>3. CASE ~(k > n /\ k <= n + Len(d)) /\ ~(k <= Len(old))
    BY <2>3 DEF Hole
  <2> QED BY <2>1, <2>2, <2>3
<1>3. Overlay(old, n, d) \in [1..m -> Nat]
  BY <1>2 DEF Overlay
<1>4. ASSUME NEW k \in Nat, NEW s \in [1..k -> Nat]
      PROVE  s \in Seq(Nat)
  <2>1. [1..k -> Nat] \in {[1..j -> Nat] : j \in Nat}
    OBVIOUS
  <2> QED BY <2>1, SeqDef, Zenon
<1> HIDE DEF m
<1> QED BY <1>1, <1>3, <1>4

(* The service is reached exactly by the requests that are not refused.     *)
LEMMA RefusalReached ==
    ASSUME NEW r \in Request, r.front = "http"
    PROVE  /\ Refusal(r) = "" <=> Reached(r)
           /\ Refusal(r) \in {"", "UNAUTHORIZED", "FORBIDDEN", "INVALID_INPUT"}
  BY DEF Request, Refusal, Reached, HasRole, RoleOrder

(* What a request is made of. *)
LEMMA RequestType ==
    ASSUME NEW r \in Requests
    PROVE  /\ r \in Request
           /\ r # NoRequest
           /\ r.data \in Seq(Nat)
           /\ r.src \in Paths /\ r.dst \in Paths
  BY FilesAssumption DEF Request

Opens == [in : Inodes \cup {Dir, NoFile}, out : Inodes \cup {NoFile},
          at : Nat, todo : SUBSET Paths]

(* Done leads to the record or the answer with the error it is given.       *)
LEMMA DoneType ==
    ASSUME TypeOK, NEW w \in Workers, NEW c \in Codes, Done(w, c)
    PROVE  /\ pc' \in [Workers -> Labels]
           /\ open' \in [Workers -> [in : Inodes \cup {Dir, NoFile},
                                     out : Inodes \cup {NoFile},
                                     at : Nat, todo : SUBSET Paths]]
           /\ code' \in [Workers -> Codes]
  BY DEF TypeOK, Done, Goto, Closed, Labels

(* A failed lookup gives an error of the service. *)
LEMMA LookupErrorType == \A p \in Paths : LookupError(p) \in Codes
  BY DEF LookupError, Codes

-----------------------------------------------------------------------------
(* Types, action by action. *)
LEMMA BeginType ==
    ASSUME TypeOK, NEW w \in Workers, Begin(w)
    PROVE  TypeOK'
<1>1. PICK r \in Requests :
         /\ asked' = asked + 1
         /\ pc' = [pc EXCEPT ![w] = IF r.front = "http" THEN "admit" ELSE "check"]
         /\ req' = [req EXCEPT ![w] = r]
         /\ code' = [code EXCEPT ![w] = ""]
         /\ status' = [status EXCEPT ![w] = 0]
         /\ trail' = [trail EXCEPT ![w] = <<>>]
         /\ UNCHANGED <<tree, open>>
  BY DEF Begin
<1>2. trail' \in [Workers -> Seq(Events)]
  <2>1. <<>> \in Seq(Events)
    OBVIOUS
  <2> QED BY <1>1, <2>1 DEF TypeOK
<1>3. pc' \in [Workers -> Labels]
  BY <1>1 DEF TypeOK, Labels
<1>4. req' \in [Workers -> Requests \cup {NoRequest}]
  BY <1>1 DEF TypeOK
<1>6. code' \in [Workers -> Codes]
  BY <1>1 DEF TypeOK, Codes
<1>7. asked' \in Nat
  <2>1. asked \in Nat /\ asked' = asked + 1
    BY <1>1 DEF TypeOK
  <2> QED BY <2>1
<1>5. status' \in [Workers -> {0, 200, 201, 204, 400, 401, 403, 404, 500}]
  BY <1>1 DEF TypeOK
<1>8. UNCHANGED <<node, content, open>>
  BY <1>1 DEF tree
<1> QED BY <1>2, <1>3, <1>4, <1>5, <1>6, <1>7, <1>8 DEF TypeOK

(* Admitting, checking, recording, answering keep the types. *)
LEMMA PipelineType ==
    ASSUME TypeOK, ProgressInv, NEW w \in Workers,
           Admit(w) \/ Check(w) \/ Record(w) \/ Answer(w) \/ LogRequest(w)
    PROVE  TypeOK'
<1>1. CASE Admit(w)
  <2>1. Refusal(req[w]) \in Codes
    BY <1>1 DEF Admit, Refusal, Codes
  <2> QED BY <1>1, <2>1 DEF Admit, Goto, TypeOK, Labels, tree
<1>2. CASE Check(w)
  <2>1. FirstStep(req[w].op) \in Labels
    <3>1. req[w].op \in Ops
      BY <1>2, RequestType DEF Check, ProgressInv, Progress, Request
    <3> QED BY <3>1 DEF FirstStep, Labels, Ops, Reading
  <2>2. CASE Done(w, "FORBIDDEN")
    BY <1>2, <2>2, DoneType DEF Check, TypeOK, Codes, tree
  <2>3. CASE Goto(w, FirstStep(req[w].op)) /\ UNCHANGED <<code, open>>
    BY <1>2, <2>1, <2>3 DEF Check, Goto, TypeOK, tree
  <2> QED BY <1>2, <2>2, <2>3 DEF Check
<1>3. CASE Record(w)
  <2>1. Event("service", code[w] # "") \in Events
    BY DEF Event, Events
  <2>2. trail' \in [Workers -> Seq(Events)]
    <3>1. trail[w] \in Seq(Events) /\ trail \in [Workers -> Seq(Events)]
      BY DEF TypeOK
    <3>2. Append(trail[w], Event("service", code[w] # "")) \in Seq(Events)
      BY <2>1, <3>1, AppendProperties
    <3> QED BY <1>3, <3>1, <3>2 DEF Record
  <2> QED BY <1>3, <2>2 DEF Record, Goto, TypeOK, Labels, tree
<1>4. CASE Answer(w)
  <2>1. StatusOf(code[w]) \in {400, 401, 403, 404, 500}
    BY DEF StatusOf
  <2>2. Success(req[w].op) \in {200, 201, 204}
    BY DEF Success
  <2>3. status' \in [Workers -> {0, 200, 201, 204, 400, 401, 403, 404, 500}]
    <3> DEFINE s == IF ~(req[w].front = "http") THEN 0
                    ELSE IF code[w] = "" THEN Success(req[w].op)
                    ELSE StatusOf(code[w])
    <3>1. s \in {0, 200, 201, 204, 400, 401, 403, 404, 500}
      <4>1. s \in {0, Success(req[w].op), StatusOf(code[w])}
        OBVIOUS
      <4> HIDE DEF s
      <4> QED BY <2>1, <2>2, <4>1
    <3>2. status' = [status EXCEPT ![w] = s]
      BY <1>4 DEF Answer
    <3>3. status \in [Workers -> {0, 200, 201, 204, 400, 401, 403, 404, 500}]
      BY DEF TypeOK
    <3> HIDE DEF s
    <3> QED BY <3>1, <3>2, <3>3
  <2>4. pc' \in [Workers -> Labels]
    <3> DEFINE l == IF req[w].front = "http" /\ req[w].op \notin Reading
                    THEN "log" ELSE "idle"
    <3>1. l \in Labels
      BY DEF Labels
    <3>2. pc' = [pc EXCEPT ![w] = l] /\ pc \in [Workers -> Labels]
      BY <1>4 DEF Answer, Goto, TypeOK
    <3> HIDE DEF l
    <3> QED BY <3>1, <3>2
  <2>5. UNCHANGED <<node, content, req, open, code, trail, asked>>
    BY <1>4 DEF Answer, tree
  <2> QED BY <2>3, <2>4, <2>5 DEF TypeOK
<1>5. CASE LogRequest(w)
  <2>1. Event("http", status[w] >= 400) \in Events
    BY DEF Event, Events
  <2>2. trail' \in [Workers -> Seq(Events)]
    <3>1. trail[w] \in Seq(Events) /\ trail \in [Workers -> Seq(Events)]
      BY DEF TypeOK
    <3>2. Append(trail[w], Event("http", status[w] >= 400)) \in Seq(Events)
      BY <2>1, <3>1, AppendProperties
    <3> QED BY <1>5, <3>1, <3>2 DEF LogRequest
  <2> QED BY <1>5, <2>2 DEF LogRequest, Goto, TypeOK, Labels, tree
<1> QED BY <1>1, <1>2, <1>3, <1>4, <1>5

(* Each call of the operation keeps the types. *)
LEMMA OperateType ==
    ASSUME TypeOK, ProgressInv, NEW w \in Workers, Operate(w)
    PROVE  TypeOK'
<1> DEFINE r == req[w]
           Nodes == Inodes \cup {Absent, Dir}
<1>1. pc[w] # "idle"
  BY DEF Operate, Look, Lookup, Mkdir, Remove, Sweep, SweepEnds, Rename,
         OpenSource, Create, CopyBlock, CopyEnds, Write, CallFails
<1>2. /\ r \in Requests /\ r.src \in Paths /\ r.dst \in Paths
      /\ r.data \in Seq(Nat)
  BY <1>1, RequestType DEF ProgressInv, Progress
<1>3. "" \in Codes /\ "INTERNAL" \in Codes /\ LookupError(r.src) \in Codes
      /\ LookupError(r.dst) \in Codes
  BY <1>2, LookupErrorType DEF Codes
<1>4. ASSUME UNCHANGED <<req, status, trail, asked>>,
             NEW c \in Codes, Done(w, c),
             node' \in [Paths -> Nodes], content' \in [Inodes -> Seq(Nat)]
      PROVE  TypeOK'
  BY <1>4, DoneType DEF TypeOK
<1>5. node \in [Paths -> Nodes] /\ content \in [Inodes -> Seq(Nat)]
  BY DEF TypeOK
<1>18. ASSUME UNCHANGED <<req, status, trail, asked, code>>,
              pc' \in [Workers -> Labels], open' \in [Workers -> Opens],
              node' \in [Paths -> Nodes], content' \in [Inodes -> Seq(Nat)]
       PROVE  TypeOK'
  BY <1>18 DEF TypeOK, Opens
<1>19. /\ open \in [Workers -> Opens] /\ pc \in [Workers -> Labels]
       /\ \A l \in Labels : Goto(w, l) => pc' \in [Workers -> Labels]
  <2>1. open \in [Workers -> Opens] /\ pc \in [Workers -> Labels]
    BY DEF TypeOK, Opens
  <2> QED BY <2>1 DEF Goto
<1>20. /\ \A n \in Nat : [open EXCEPT ![w].at = n] \in [Workers -> Opens]
       /\ \A S \in SUBSET Paths : [open EXCEPT ![w].todo = S] \in [Workers -> Opens]
       /\ \A i \in Inodes \cup {Dir} : [open EXCEPT ![w].in = i] \in [Workers -> Opens]
       /\ \A i \in Inodes : [open EXCEPT ![w].out = i] \in [Workers -> Opens]
  BY <1>19 DEF Opens
<1>21. {"mkdir", "sweep", "create", "copy", "write"} \subseteq Labels
  BY DEF Labels
<1>6. CASE Look(w)
  <2>1. PICK c \in Codes : Done(w, c)
    BY <1>3, <1>6 DEF Look
  <2> QED BY <1>4, <1>5, <1>6, <2>1 DEF Look, tree
<1>7. CASE Lookup(w)
  <2>1. CASE \E c \in Codes : Done(w, c)
    BY <1>4, <1>5, <1>7, <2>1 DEF Lookup, tree
  <2>2. CASE ~\E c \in Codes : Done(w, c)
    <3>1. PICK q \in Paths : /\ open' = [open EXCEPT ![w].at = Len(q) + 1]
                             /\ Goto(w, "mkdir")
                             /\ UNCHANGED code
      BY <1>3, <1>7, <2>2 DEF Lookup
    <3>2. Len(q) + 1 \in Nat
      BY FilesAssumption
    <3> QED BY <1>5, <1>7, <1>18, <1>19, <1>20, <1>21, <3>1, <3>2 DEF Lookup, tree
  <2> QED BY <2>1, <2>2
<1>8. CASE Mkdir(w)
  <2>1. node' \in [Paths -> Nodes]
    BY <1>5, <1>8 DEF Mkdir
  <2>2. CASE \E c \in Codes : Done(w, c)
    BY <1>4, <1>5, <1>8, <2>1, <2>2 DEF Mkdir
  <2>3. CASE ~\E c \in Codes : Done(w, c)
    <3>1. open' = [open EXCEPT ![w].at = @ + 1] /\ UNCHANGED <<pc, code>>
      BY <1>3, <1>8, <2>3 DEF Mkdir
    <3>2. open[w].at + 1 \in Nat
      BY <1>19 DEF Opens
    <3>3. open' \in [Workers -> Opens]
      BY <1>20, <3>1, <3>2
    <3> QED BY <1>5, <1>8, <1>18, <1>19, <2>1, <3>1, <3>3 DEF Mkdir
  <2> QED BY <2>2, <2>3
<1>9. CASE Remove(w)
  <2>1. node' \in [Paths -> Nodes]
    BY <1>5, <1>9 DEF Remove
  <2>2. CASE \E c \in Codes : Done(w, c)
    BY <1>4, <1>5, <1>9, <2>1, <2>2 DEF Remove
  <2>3. CASE ~\E c \in Codes : Done(w, c)
    <3>1. /\ open' = [open EXCEPT ![w].todo = Children(r.src)]
          /\ Goto(w, "sweep") /\ UNCHANGED code
      BY <1>3, <1>9, <2>3 DEF Remove
    <3>2. Children(r.src) \subseteq Paths
      BY DEF Children, Under
    <3> QED BY <1>5, <1>9, <1>18, <1>19, <1>20, <1>21, <2>1, <3>1, <3>2 DEF Remove
  <2> QED BY <2>2, <2>3
<1>10. CASE Sweep(w)
  <2>1. PICK q : node' = [node EXCEPT ![q] = Absent]
                 /\ open' = [open EXCEPT ![w].todo = @ \ {q}]
    BY <1>10 DEF Sweep
  <2>2. open[w].todo \ {q} \in SUBSET Paths
    BY <1>19 DEF Opens
  <2>3. open' \in [Workers -> Opens]
    BY <1>20, <2>1, <2>2
  <2>4. node' \in [Paths -> Nodes]
    BY <1>5, <2>1
  <2> QED BY <1>5, <1>10, <1>18, <1>19, <2>3, <2>4 DEF Sweep
<1>11. CASE SweepEnds(w)
  <2>1. node' \in [Paths -> Nodes]
    BY <1>5, <1>11 DEF SweepEnds
  <2>2. PICK c \in Codes : Done(w, c)
    BY <1>3, <1>11 DEF SweepEnds
  <2> QED BY <1>4, <1>5, <1>11, <2>1, <2>2 DEF SweepEnds
<1>12. CASE Rename(w)
  <2>1. node' \in [Paths -> Nodes]
    BY <1>5, <1>12 DEF Rename
  <2>2. RenameError(r.src, r.dst) \in Codes
    BY <1>3 DEF RenameError, Codes
  <2>3. Done(w, RenameError(r.src, r.dst))
    BY <1>12 DEF Rename
  <2> QED BY <1>4, <1>5, <1>12, <2>1, <2>2, <2>3 DEF Rename
<1>13. CASE OpenSource(w)
  <2>1. CASE \E c \in Codes : Done(w, c)
    BY <1>4, <1>5, <1>13, <2>1 DEF OpenSource, tree
  <2>2. CASE ~\E c \in Codes : Done(w, c)
    <3>1. /\ open' = [open EXCEPT ![w].in = node[r.src]]
          /\ Goto(w, "create") /\ UNCHANGED code /\ node[r.src] # Absent
      BY <1>3, <1>13, <2>2 DEF OpenSource
    <3>2. node[r.src] \in Inodes \cup {Dir}
      BY <1>2, <1>5, <3>1
    <3> QED BY <1>5, <1>13, <1>18, <1>19, <1>20, <1>21, <3>1, <3>2 DEF OpenSource, tree
  <2> QED BY <2>1, <2>2
<1>14. CASE Create(w)
  <2>1. CASE \E c \in Codes : Done(w, c) /\ UNCHANGED tree
    BY <1>4, <1>5, <1>14, <2>1 DEF Create, tree
  <2>2. CASE ~\E c \in Codes : Done(w, c) /\ UNCHANGED tree
    <3>1. PICK i \in Inodes :
            /\ open' = [open EXCEPT ![w].out = i]
            /\ content' = [content EXCEPT ![i] = <<>>]
            /\ Goto(w, IF r.op = "copy" THEN "copy" ELSE "write")
            /\ UNCHANGED code
            /\ \/ UNCHANGED node
               \/ node' = [node EXCEPT ![IF r.op = "copy" THEN r.dst ELSE r.src] = i]
      BY <1>2, <1>3, <1>14, <2>2 DEF Create, IsFile
    <3>2. <<>> \in Seq(Nat)
      OBVIOUS
    <3>3. content' \in [Inodes -> Seq(Nat)]
      BY <1>5, <3>1, <3>2
    <3>4. node' \in [Paths -> Nodes]
      BY <1>5, <3>1
    <3>5. pc' \in [Workers -> Labels] /\ open' \in [Workers -> Opens]
      BY <1>19, <1>20, <1>21, <3>1
    <3> QED BY <1>14, <1>18, <3>1, <3>3, <3>4, <3>5 DEF Create
  <2> QED BY <2>1, <2>2
<1>15. CASE CopyBlock(w)
  <2> DEFINE in == open[w].in
             n == open[w].at
  <2>1. in \in Inodes /\ n \in Nat
    BY <1>15 DEF CopyBlock, TypeOK, ProgressInv, Progress
  <2>2. content[in] \in Seq(Nat) /\ n + 1 \in 1..Len(content[in])
    BY <1>5, <1>15, <2>1 DEF CopyBlock
  <2>3. <<content[in][n + 1]>> \in Seq(Nat)
    BY <2>2
  <2>4. ASSUME NEW i \in Inodes
        PROVE  Overlay(content[i], n, <<content[in][n + 1]>>) \in Seq(Nat)
    BY <1>5, <2>1, <2>3, OverlayType
  <2>5. content' \in [Inodes -> Seq(Nat)]
    BY <1>5, <1>15, <2>4 DEF CopyBlock
  <2>6. open' = [open EXCEPT ![w].at = n + 1] /\ n + 1 \in Nat
    BY <1>15, <2>1 DEF CopyBlock
  <2> QED BY <1>5, <1>15, <1>18, <1>19, <1>20, <2>5, <2>6 DEF CopyBlock
<1>16. CASE CopyEnds(w)
  <2>1. PICK c \in Codes : Done(w, c)
    BY <1>3, <1>16 DEF CopyEnds
  <2> QED BY <1>4, <1>5, <1>16, <2>1 DEF CopyEnds, tree
<1>17. CASE Write(w)
  <2>1. PICK n \in 0..Len(r.data) :
          /\ content' = [content EXCEPT ![open[w].out] =
                            Overlay(@, 0, SubSeq(r.data, 1, n))]
          /\ Done(w, "") \/ Done(w, "INTERNAL")
    BY <1>17 DEF Write
  <2>2. SubSeq(r.data, 1, n) \in Seq(Nat)
    BY <1>2
  <2>3. ASSUME NEW i \in Inodes
        PROVE  Overlay(content[i], 0, SubSeq(r.data, 1, n)) \in Seq(Nat)
    BY <1>5, <2>2, OverlayType
  <2>4. content' \in [Inodes -> Seq(Nat)]
    BY <1>5, <2>1, <2>3
  <2>5. PICK c \in Codes : Done(w, c)
    BY <1>3, <2>1
  <2> QED BY <1>4, <1>5, <1>17, <2>4, <2>5 DEF Write
<1>22. CASE CallFails(w)
  BY <1>3, <1>4, <1>5, <1>22 DEF CallFails, tree
<1> QED BY <1>6, <1>7, <1>8, <1>9, <1>10, <1>11, <1>12, <1>13, <1>14, <1>15,
           <1>16, <1>17, <1>22 DEF Operate

(* So does every step. *)
LEMMA TypeStep == TypeOK /\ ProgressInv /\ [Next]_vars => TypeOK'
<1> SUFFICES ASSUME TypeOK, ProgressInv, [Next]_vars
             PROVE  TypeOK'
  OBVIOUS
<1>1. CASE UNCHANGED vars
  BY <1>1 DEF vars, tree, TypeOK
<1>2. ASSUME NEW w \in Workers, Begin(w) \/ Run(w)
      PROVE  TypeOK'
  BY <1>2, BeginType, PipelineType, OperateType DEF Run
<1> QED BY <1>1, <1>2 DEF Next

-----------------------------------------------------------------------------
(* A step leaves alone all that the other workers have of their own. *)
LEMMA OthersKept ==
    ASSUME TypeOK, NEW w \in Workers, Begin(w) \/ Run(w),
           NEW v \in Workers, v # w
    PROVE  /\ pc'[v] = pc[v] /\ req'[v] = req[v] /\ open'[v] = open[v]
           /\ code'[v] = code[v] /\ status'[v] = status[v] /\ trail'[v] = trail[v]
<1>1. /\ DOMAIN pc = Workers /\ DOMAIN req = Workers /\ DOMAIN open = Workers
      /\ DOMAIN code = Workers /\ DOMAIN status = Workers /\ DOMAIN trail = Workers
  BY DEF TypeOK
<1>2. CASE Begin(w)
  <2>1. /\ \E x : pc' = [pc EXCEPT ![w] = x]
        /\ \E x : req' = [req EXCEPT ![w] = x]
        /\ open' = open
        /\ code' = [code EXCEPT ![w] = ""]
        /\ status' = [status EXCEPT ![w] = 0]
        /\ trail' = [trail EXCEPT ![w] = <<>>]
    BY <1>2 DEF Begin
  <2> QED BY <1>1, <2>1
<1>3. ASSUME NEW c, Done(w, c)
      PROVE  pc'[v] = pc[v] /\ open'[v] = open[v] /\ code'[v] = code[v]
  BY <1>1, <1>3 DEF Done, Goto
<1>4. ASSUME NEW l, Goto(w, l)
      PROVE  pc'[v] = pc[v]
  BY <1>1, <1>4 DEF Goto
<1>5. CASE Admit(w)
  BY <1>1, <1>4, <1>5 DEF Admit
<1>6. CASE Check(w)
  BY <1>1, <1>3, <1>4, <1>6 DEF Check
<1>7. CASE Record(w)
  BY <1>1, <1>4, <1>7 DEF Record
<1>8. CASE Answer(w)
  BY <1>1, <1>4, <1>8 DEF Answer
<1>9. CASE LogRequest(w)
  BY <1>1, <1>4, <1>9 DEF LogRequest
<1>10. CASE Look(w)
  BY <1>1, <1>3, <1>4, <1>10 DEF Look
<1>11. CASE Lookup(w)
  BY <1>1, <1>3, <1>4, <1>11 DEF Lookup
<1>12. CASE Mkdir(w)
  BY <1>1, <1>3, <1>4, <1>12 DEF Mkdir
<1>13. CASE Remove(w)
  BY <1>1, <1>3, <1>4, <1>13 DEF Remove
<1>14. CASE Sweep(w)
  BY <1>1, <1>3, <1>4, <1>14 DEF Sweep
<1>15. CASE SweepEnds(w)
  BY <1>1, <1>3, <1>4, <1>15 DEF SweepEnds
<1>16. CASE Rename(w)
  BY <1>1, <1>3, <1>4, <1>16 DEF Rename
<1>17. CASE OpenSource(w)
  BY <1>1, <1>3, <1>4, <1>17 DEF OpenSource
<1>18. CASE Create(w)
  BY <1>1, <1>3, <1>4, <1>18 DEF Create
<1>19. CASE CopyBlock(w)
  BY <1>1, <1>3, <1>4, <1>19 DEF CopyBlock
<1>20. CASE CopyEnds(w)
  BY <1>1, <1>3, <1>4, <1>20 DEF CopyEnds
<1>21. CASE Write(w)
  BY <1>1, <1>3, <1>4, <1>21 DEF Write
<1>22. CASE CallFails(w)
  BY <1>1, <1>3, <1>4, <1>22 DEF CallFails
<1> QED BY <1>2, <1>5, <1>6, <1>7, <1>8, <1>9, <1>10, <1>11, <1>12, <1>13, <1>14,
           <1>15, <1>16, <1>17, <1>18, <1>19, <1>20, <1>21, <1>22
       DEF Run, Operate

(* Every step keeps what is known of the workers by where they are. *)
LEMMA ProgressStep == TypeOK /\ ProgressInv /\ [Next]_vars => ProgressInv'
<1> SUFFICES ASSUME TypeOK, ProgressInv, [Next]_vars
             PROVE  ProgressInv'
  OBVIOUS
<1>1. CASE UNCHANGED vars
  BY <1>1 DEF vars, tree, ProgressInv, Progress
<1>2. ASSUME NEW w \in Workers, Begin(w) \/ Run(w)
      PROVE  ProgressInv'
  <2>1. ASSUME NEW v \in Workers, v # w
        PROVE  Progress(v)'
    <3>1. Progress(v)
      BY DEF ProgressInv
    <3>2. pc'[v] = pc[v] /\ req'[v] = req[v] /\ open'[v] = open[v]
      BY <1>2, <2>1, OthersKept
    <3> QED BY <3>1, <3>2 DEF Progress
  <2>2. Progress(w)'
    <3>1. CASE Begin(w)
      <4>1. PICK r \in Requests :
               /\ pc' = [pc EXCEPT ![w] = IF r.front = "http" THEN "admit" ELSE "check"]
               /\ req' = [req EXCEPT ![w] = r]
        BY <3>1 DEF Begin
      <4>2. req'[w] = r /\ pc'[w] \in {"admit", "check"}
            /\ (pc'[w] = "check" => r.front # "http")
        BY <4>1 DEF TypeOK
      <4> QED BY <4>2 DEF Progress, Reached, Changing
    <3>2. CASE Admit(w)
      <4>1. req[w] \in Requests /\ req'[w] = req[w]
        BY <3>2 DEF Admit, ProgressInv, Progress
      <4>2. pc'[w] \in {"check", "answer"}
            /\ (pc'[w] = "check" => Refusal(req[w]) = "")
        BY <3>2 DEF Admit, Goto, TypeOK
      <4>3. pc'[w] = "check" => Reached(req[w])
        <5>1. req[w].front = "http" => (Refusal(req[w]) = "" <=> Reached(req[w]))
          BY <4>1, RefusalReached, RequestType
        <5> QED BY <4>1, <4>2, <5>1 DEF Reached
      <4> QED BY <4>1, <4>2, <4>3 DEF Progress, Changing
    <3>3. CASE Check(w)
      <4>1. /\ req[w] \in Requests /\ req'[w] = req[w] /\ Reached(req[w])
            /\ req[w].op \in Ops
        BY <3>3, RequestType DEF Check, ProgressInv, Progress, Request
      <4>2. CASE Done(w, "FORBIDDEN")
        BY <3>3, <4>1, <4>2 DEF Done, Goto, TypeOK, Progress, Changing
      <4>3. CASE /\ \A p \in Touched(req[w]) : SafePath(w, p)
                 /\ Goto(w, FirstStep(req[w].op))
        <5>1. pc'[w] = FirstStep(req[w].op)
          BY <4>3 DEF Goto, TypeOK
        <5>2. /\ pc'[w] \in {"look", "lookup", "create", "source", "remove", "move"}
              /\ pc'[w] = "look" <=> req[w].op \in Reading
              /\ pc'[w] = "create" => req[w].op = "write"
          BY <4>1, <5>1 DEF FirstStep, Ops, Reading
        <5>3. \A p \in Touched(req[w]) : Prefix(req[w].root, p)
          BY <4>3 DEF SafePath
        <5> QED BY <4>1, <5>2, <5>3 DEF Progress, Changing
      <4> QED BY <3>3, <4>2, <4>3 DEF Check
    <3>4. CASE Record(w) \/ Answer(w) \/ LogRequest(w)
      <4>1. req'[w] = req[w] /\ pc[w] \in {"record", "answer", "log"}
        BY <3>4 DEF Record, Answer, LogRequest
      <4>2. pc \in [Workers -> Labels] /\ req[w] \in Requests
        BY <4>1 DEF TypeOK, ProgressInv, Progress
      <4>3. /\ pc'[w] \in {"idle", "answer", "log"}
            /\ pc'[w] = "log" => req[w].op \notin Reading
        <5>1. CASE Record(w)
          BY <4>2, <5>1 DEF Record, Goto
        <5>2. CASE Answer(w)
          BY <4>2, <5>2 DEF Answer, Goto
        <5>3. CASE LogRequest(w)
          BY <4>2, <5>3 DEF LogRequest, Goto
        <5> QED BY <3>4, <5>1, <5>2, <5>3
      <4> QED BY <4>1, <4>2, <4>3 DEF Progress, Changing
    <3>5. CASE Operate(w)
      <4>1. req'[w] = req[w] /\ pc[w] \in Changing \cup {"look"}
        BY <3>5 DEF Operate, Look, Lookup, Mkdir, Remove, Sweep, SweepEnds,
                    Rename, OpenSource, Create, CopyBlock, CopyEnds, Write,
                    CallFails, Changing
      <4>2. Progress(w)
        BY DEF ProgressInv
      <4>3. CASE \E c \in Codes : Done(w, c)
        BY <4>1, <4>2, <4>3 DEF Progress, Done, Goto, TypeOK, Changing
      <4>4. CASE ~\E c \in Codes : Done(w, c)
        <5>1. pc \in [Workers -> Labels] /\ DOMAIN open = Workers
              /\ {"", "INTERNAL", LookupError(req[w].src)} \subseteq Codes
              /\ LookupError(req[w].dst) \in Codes
              /\ req[w] \in Requests
          BY <4>1, <4>2, RequestType, LookupErrorType DEF TypeOK, Codes, Progress, Changing
        <5>2. ASSUME pc[w] \in Changing, pc'[w] \in Changing \ {"create", "copy"}
              PROVE  Progress(w)'
          BY <4>1, <4>2, <5>2 DEF Progress, Changing
        <5>3. CASE Lookup(w)
          BY <4>4, <5>1, <5>2, <5>3 DEF Lookup, Goto, Changing
        <5>4. CASE Mkdir(w)
          BY <4>4, <5>1, <5>2, <5>4 DEF Mkdir, Changing
        <5>5. CASE Remove(w)
          BY <4>4, <5>1, <5>2, <5>5 DEF Remove, Goto, Changing
        <5>6. CASE Sweep(w)
          BY <5>2, <5>6 DEF Sweep, Changing
        <5>7. CASE OpenSource(w)
          <6>1. /\ pc'[w] = "create" /\ open'[w].in = node[req[w].src]
                /\ node[req[w].src] # Absent /\ pc[w] = "source"
            <7>1. open[w] \in Opens
              BY DEF TypeOK, Opens
            <7> QED BY <4>4, <5>1, <5>7, <7>1 DEF OpenSource, Goto, Opens
          <6>2. node[req[w].src] # NoFile
            <7>1. req[w].src \in Paths
              BY <5>1, RequestType
            <7>2. node[req[w].src] \in Inodes \cup {Absent, Dir}
              BY <7>1 DEF TypeOK
            <7> QED BY <6>1, <7>2, FilesAssumption
          <6> QED BY <4>1, <4>2, <6>1, <6>2 DEF Progress, Changing
        <5>8. CASE Create(w)
          <6>1. /\ pc'[w] = IF req[w].op = "copy" THEN "copy" ELSE "write"
                /\ open'[w].in = open[w].in /\ pc[w] = "create"
            <7>1. open[w] \in Opens
              BY DEF TypeOK, Opens
            <7>2. PICK i \in Inodes :
                    /\ open' = [open EXCEPT ![w].out = i]
                    /\ Goto(w, IF req[w].op = "copy" THEN "copy" ELSE "write")
                    /\ pc[w] = "create"
              BY <4>4, <5>1, <5>8 DEF Create, IsFile
            <7> QED BY <5>1, <7>1, <7>2 DEF Goto, Opens
          <6> QED BY <4>1, <4>2, <6>1 DEF Progress, Changing
        <5>9. CASE CopyBlock(w)
          <6>1. /\ pc'[w] = "copy" /\ open'[w].in = open[w].in /\ pc[w] = "copy"
            <7>1. open[w] \in Opens
              BY DEF TypeOK, Opens
            <7> QED BY <5>1, <5>9, <7>1 DEF CopyBlock, Opens
          <6> QED BY <4>1, <4>2, <6>1 DEF Progress, Changing
        <5>10. ~(Look(w) \/ SweepEnds(w) \/ CopyEnds(w) \/ Write(w) \/ CallFails(w))
          BY <4>4, <5>1 DEF Look, SweepEnds, CopyEnds, Write, CallFails
        <5>11. ~Rename(w)
          <6>1. RenameError(req[w].src, req[w].dst) \in Codes
            BY <5>1 DEF RenameError, Codes
          <6> QED BY <4>4, <6>1 DEF Rename
        <5> QED BY <3>5, <5>3, <5>4, <5>5, <5>6, <5>7, <5>8, <5>9, <5>10, <5>11
                DEF Operate
      <4> QED BY <4>3, <4>4
    <3> QED BY <1>2, <3>1, <3>2, <3>3, <3>4, <3>5 DEF Run
  <2> QED BY <2>1, <2>2 DEF ProgressInv
<1> QED BY <1>1, <1>2 DEF Next

(* The two hold of every behaviour. *)
LEMMA Invariant == Spec => [](TypeOK /\ ProgressInv)
<1>1. Init => TypeOK /\ ProgressInv
  <2> SUFFICES ASSUME Init PROVE TypeOK /\ ProgressInv
    OBVIOUS
  <2>1. TypeOK
    <3>1. <<>> \in Seq(Events)
      OBVIOUS
    <3>2. trail \in [Workers -> Seq(Events)] /\ asked \in Nat
      BY <3>1 DEF Init
    <3>3. open \in [Workers -> Opens]
      BY DEF Init, Closed, Opens
    <3>4. pc \in [Workers -> Labels] /\ code \in [Workers -> Codes]
      BY DEF Init, Labels, Codes
    <3>5. /\ status \in [Workers -> {0, 200, 201, 204, 400, 401, 403, 404, 500}]
          /\ req \in [Workers -> Requests \cup {NoRequest}]
      BY DEF Init
    <3>6. /\ node \in [Paths -> Inodes \cup {Absent, Dir}]
          /\ content \in [Inodes -> Seq(Nat)]
      BY FilesAssumption DEF Init
    <3> QED BY <3>2, <3>3, <3>4, <3>5, <3>6 DEF TypeOK, Opens
  <2>2. ProgressInv
    BY DEF Init, ProgressInv, Progress, Changing
  <2> QED BY <2>1, <2>2
<1>2. TypeOK /\ ProgressInv /\ [Next]_vars => (TypeOK /\ ProgressInv)'
  BY TypeStep, ProgressStep
<1> QED BY <1>1, <1>2, PTL DEF Spec

(* The variables keep their types (TypeOK), whatever the tree, the requests
   and the number of workers. *)
THEOREM TypeCorrect == Spec => []TypeOK
BY Invariant, PTL

(* No request gets to a call that changes the tree of manager.go without the
   role api/file.go asks for, a well-formed body, and paths below its root
   (OnlyPermitted). *)
THEOREM PermittedOnly == Spec => []OnlyPermitted
<1>1. TypeOK /\ ProgressInv => OnlyPermitted
  BY DEF ProgressInv, Progress, OnlyPermitted, Changing
<1> QED BY <1>1, Invariant, PTL

-----------------------------------------------------------------------------
(* What the log says of a request by where its worker is. *)
Trail(w) ==
    /\ pc[w] = "admit" => req[w].front = "http"
    /\ pc[w] \notin {"idle", "answer", "log"} => trail[w] = <<>>
    /\ pc[w] \in {"answer", "log"} => trail[w] = ServiceTrail(w)
    /\ pc[w] = "log" => /\ req[w].front = "http"
                        /\ status[w] >= 400 <=> Failed(w)
    /\ pc[w] = "idle" /\ req[w] # NoRequest =>
          /\ trail[w] = ServiceTrail(w) \o HttpTrail(w)
          /\ req[w].front = "http" => (status[w] >= 400 <=> Failed(w))

TrailInv == \A w \in Workers : Trail(w)

(* The trails of a worker depend on its request and its error only. *)
LEMMA TrailSame ==
    ASSUME NEW w \in Workers, req'[w] = req[w], code'[w] = code[w]
    PROVE  /\ ServiceTrail(w)' = ServiceTrail(w) /\ HttpTrail(w)' = HttpTrail(w)
           /\ Failed(w)' = Failed(w)
  BY DEF ServiceTrail, HttpTrail, Failed

(* The service's records are events. *)
LEMMA ServiceTrailType ==
    ASSUME NEW w \in Workers
    PROVE  ServiceTrail(w) \in Seq(Events)
<1>1. Event("service", Failed(w)) \in Events
  BY DEF Event, Events, Failed
<1>2. <<Event("service", Failed(w))>> \in Seq(Events) /\ <<>> \in Seq(Events)
  BY <1>1
<1> QED BY <1>2 DEF ServiceTrail

(* A status is a number. *)
LEMMA StatusType ==
    ASSUME TypeOK, NEW w \in Workers
    PROVE  status[w] \in Nat
<1>1. status[w] \in {0, 200, 201, 204, 400, 401, 403, 404, 500}
  BY DEF TypeOK
<1> QED BY <1>1

(* The answer tells success from failure by being below 400. *)
LEMMA StatusTells ==
    \A c \in Codes, op \in Ops : /\ StatusOf(c) >= 400
                                /\ ~(Success(op) >= 400)
<1>1. ASSUME NEW c PROVE StatusOf(c) \in {400, 401, 403, 404, 500}
  BY DEF StatusOf
<1>2. ASSUME NEW op PROVE Success(op) \in {200, 201, 204}
  BY DEF Success
<1>3. \A n \in {400, 401, 403, 404, 500} : n >= 400
  OBVIOUS
<1>4. \A n \in {200, 201, 204} : ~(n >= 400)
  OBVIOUS
<1> QED BY <1>1, <1>2, <1>3, <1>4

(* A step of the operation leaves the log alone, and Done ends it. *)
LEMMA OperateTrail ==
    ASSUME TypeOK, ProgressInv, NEW w \in Workers, Operate(w) \/ Check(w)
    PROVE  /\ trail' = trail /\ req' = req
           /\ pc[w] \notin {"idle", "answer", "log", "admit"}
           /\ \/ \E c : Done(w, c)
              \/ pc'[w] \notin {"idle", "admit", "answer", "log"}
<1>1. pc \in [Workers -> Labels]
  BY DEF TypeOK
<1>2. CASE Check(w)
  <2>1. req[w].op \in Ops
    BY <1>2, RequestType DEF Check, ProgressInv, Progress, Request
  <2>2. FirstStep(req[w].op) \notin {"idle", "admit", "answer", "log"}
    BY <2>1 DEF FirstStep, Ops, Reading
  <2> QED BY <1>1, <1>2, <2>2 DEF Check, Goto
<1>3. CASE Look(w) \/ Lookup(w) \/ Mkdir(w) \/ Remove(w)
  BY <1>1, <1>3 DEF Look, Lookup, Mkdir, Remove, Goto
<1>4. CASE Sweep(w) \/ SweepEnds(w) \/ Rename(w) \/ OpenSource(w)
  BY <1>1, <1>4 DEF Sweep, SweepEnds, Rename, OpenSource, Goto
<1>5. CASE Create(w)
  BY <1>1, <1>5 DEF Create, Goto
<1>6. CASE CopyBlock(w) \/ CopyEnds(w) \/ Write(w) \/ CallFails(w)
  BY <1>1, <1>6 DEF CopyBlock, CopyEnds, Write, CallFails
<1> QED BY <1>2, <1>3, <1>4, <1>5, <1>6 DEF Operate

(* Every step keeps what the log says of each request. *)
LEMMA TrailStep == TypeOK /\ ProgressInv /\ TrailInv /\ [Next]_vars => TrailInv'
<1> SUFFICES ASSUME TypeOK, ProgressInv, TrailInv, [Next]_vars
             PROVE  TrailInv'
  OBVIOUS
<1>1. CASE UNCHANGED vars
  <2> SUFFICES ASSUME NEW v \in Workers
               PROVE  Trail(v)'
    BY DEF TrailInv
  <2>1. /\ pc' = pc /\ req' = req /\ status' = status /\ code' = code
        /\ trail' = trail
    BY <1>1 DEF vars
  <2>2. /\ ServiceTrail(v)' = ServiceTrail(v) /\ HttpTrail(v)' = HttpTrail(v)
        /\ Failed(v)' = Failed(v)
    BY <2>1, TrailSame
  <2>3. Trail(v)
    BY DEF TrailInv
  <2> QED BY <2>1, <2>2, <2>3 DEF Trail
<1>2. ASSUME NEW w \in Workers, Begin(w) \/ Run(w)
      PROVE  TrailInv'
  <2>1. ASSUME NEW v \in Workers, v # w
        PROVE  Trail(v)'
    <3>1. Trail(v)
      BY DEF TrailInv
    <3>2. /\ pc'[v] = pc[v] /\ req'[v] = req[v] /\ status'[v] = status[v]
          /\ code'[v] = code[v] /\ trail'[v] = trail[v]
      BY <1>2, <2>1, OthersKept
    <3>3. /\ ServiceTrail(v)' = ServiceTrail(v) /\ HttpTrail(v)' = HttpTrail(v)
          /\ Failed(v)' = Failed(v)
      BY <3>2, TrailSame
    <3> QED BY <3>1, <3>2, <3>3 DEF Trail
  <2>2. /\ DOMAIN pc = Workers /\ DOMAIN req = Workers /\ DOMAIN code = Workers
        /\ DOMAIN status = Workers /\ DOMAIN trail = Workers
    BY DEF TypeOK
  <2>3. Progress(w) /\ Trail(w)
    BY DEF ProgressInv, TrailInv
  <2>4. Trail(w)'
    <3>1. CASE Begin(w)
      <4>1. PICK r \in Requests :
              /\ pc' = [pc EXCEPT ![w] = IF r.front = "http" THEN "admit" ELSE "check"]
              /\ req' = [req EXCEPT ![w] = r]
              /\ trail' = [trail EXCEPT ![w] = <<>>]
        BY <3>1 DEF Begin
      <4> QED BY <2>2, <4>1 DEF Trail
    <3>2. CASE Admit(w)
      <4>1. /\ req'[w] = req[w] /\ trail'[w] = <<>>
            /\ pc'[w] = IF Refusal(req[w]) = "" THEN "check" ELSE "answer"
        BY <2>2, <2>3, <3>2 DEF Admit, Trail, Goto
      <4>2. Refusal(req[w]) # "" => ~Reached(req[w])
        BY <2>3, <3>2, RefusalReached, RequestType DEF Admit, Progress, Trail
      <4> QED BY <4>1, <4>2 DEF Trail, ServiceTrail
    <3>3. CASE Operate(w) \/ Check(w)
      <4>1. /\ trail' = trail /\ req' = req /\ trail[w] = <<>>
            /\ pc[w] \notin {"idle", "answer", "log", "admit"}
        BY <2>3, <3>3, OperateTrail DEF Trail
      <4>2. CASE \E c : Done(w, c)
        <5>1. pc'[w] = IF req[w].op \in Reading THEN "answer" ELSE "record"
          BY <2>2, <4>2 DEF Done, Goto
        <5> QED BY <4>1, <5>1 DEF Trail, ServiceTrail
      <4>3. CASE pc'[w] \notin {"idle", "admit", "answer", "log"}
        BY <4>1, <4>3 DEF Trail
      <4> QED BY <3>3, <4>2, <4>3, OperateTrail
    <3>4. CASE Record(w)
      <4>1. /\ req'[w] = req[w] /\ code'[w] = code[w] /\ pc'[w] = "answer"
            /\ trail'[w] = Append(<<>>, Event("service", Failed(w)))
        BY <2>2, <2>3, <3>4 DEF Record, Goto, Trail, Failed
      <4>2. ServiceTrail(w) = <<Event("service", Failed(w))>>
        BY <2>3, <3>4 DEF Record, Progress, ServiceTrail
      <4>3. trail'[w] = ServiceTrail(w)
        BY <4>1, <4>2
      <4> QED BY <4>1, <4>3, TrailSame DEF Trail
    <3>5. CASE Answer(w)
      <4> DEFINE http == req[w].front = "http"
      <4>1. /\ req'[w] = req[w] /\ code'[w] = code[w] /\ trail'[w] = trail[w]
            /\ trail[w] = ServiceTrail(w)
            /\ pc'[w] = IF http /\ req[w].op \notin Reading THEN "log" ELSE "idle"
        BY <2>2, <2>3, <3>5 DEF Answer, Goto, Trail
      <4>2. http => (status'[w] >= 400 <=> Failed(w))
        <5>1. status'[w] = IF ~http THEN 0
                           ELSE IF code[w] = "" THEN Success(req[w].op)
                           ELSE StatusOf(code[w])
          BY <2>2, <3>5 DEF Answer
        <5>2. req[w].op \in Ops /\ code[w] \in Codes
          <6>1. req[w] \in Requests
            BY <2>3, <3>5 DEF Answer, Progress
          <6>2. req[w].op \in Ops
            BY <6>1, RequestType DEF Request
          <6> QED BY <6>2 DEF TypeOK
        <5>3. http /\ Failed(w) => status'[w] = StatusOf(code[w])
          BY <5>1 DEF Failed
        <5>4. http /\ ~Failed(w) => status'[w] = Success(req[w].op)
          BY <5>1 DEF Failed
        <5> HIDE DEF http
        <5> QED BY <5>2, <5>3, <5>4, StatusTells
      <4>3. pc'[w] = "idle" => HttpTrail(w) = <<>>
        BY <4>1 DEF HttpTrail
      <4>4. ServiceTrail(w) \o <<>> = ServiceTrail(w)
        BY ServiceTrailType, ConcatEmptySeq
      <4> HIDE DEF http
      <4>5. pc'[w] = "log" => http
        BY <4>1
      <4> QED BY <4>1, <4>2, <4>3, <4>4, <4>5, TrailSame DEF Trail, http
    <3>6. CASE LogRequest(w)
      <4>1. /\ req'[w] = req[w] /\ code'[w] = code[w] /\ status'[w] = status[w]
            /\ pc'[w] = "idle"
            /\ trail'[w] = Append(trail[w], Event("http", status[w] >= 400))
        BY <2>2, <3>6 DEF LogRequest, Goto
      <4>2. /\ trail[w] = ServiceTrail(w) /\ (status[w] >= 400 <=> Failed(w))
            /\ HttpTrail(w) = <<Event("http", Failed(w))>>
        BY <2>3, <3>6 DEF LogRequest, Trail, Progress, HttpTrail
      <4>3. Event("http", status[w] >= 400) = Event("http", Failed(w))
        <5>1. status[w] \in Nat
          BY StatusType
        <5> DEFINE told == status[w] >= 400
        <5>2. told \in BOOLEAN
          BY <5>1
        <5>3. told <=> Failed(w)
          BY <4>2, Zenon
        <5>4. Failed(w) \in BOOLEAN
          BY DEF Failed
        <5> HIDE DEF told
        <5>5. told = Failed(w)
          BY <5>2, <5>3, <5>4
        <5> QED BY <5>5 DEF Event, told
      <4>4. Event("http", Failed(w)) \in Events
        BY DEF Event, Events, Failed
      <4>5. trail'[w] = ServiceTrail(w) \o HttpTrail(w)
        BY <4>1, <4>2, <4>3, <4>4, ServiceTrailType, AppendIsConcat
      <4> QED BY <4>1, <4>2, <4>5, TrailSame DEF Trail
    <3> QED BY <1>2, <3>1, <3>2, <3>3, <3>4, <3>5, <3>6 DEF Run
  <2> QED BY <2>1, <2>4 DEF TrailInv
<1> QED BY <1>1, <1>2 DEF Next

(* Every request of file.go leaves the records the audit promises, and the two
   layers agree with what the caller was told (Recorded). *)
THEOREM RecordsComplete == Spec => []Recorded
<1>1. Init => TrailInv
  BY FilesAssumption DEF Init, TrailInv, Trail
<1>2. TypeOK /\ ProgressInv /\ TrailInv /\ [Next]_vars => TrailInv'
  BY TrailStep
<1>3. TrailInv => Recorded
  BY DEF TrailInv, Trail, Recorded
<1> QED BY <1>1, <1>2, <1>3, Invariant, PTL DEF Spec
-----------------------------------------------------------------------------
(* Requests that do not meet do not disturb each other, and each finds what *)
(* it was told.  The tree is one: below the root every entry is in a        *)
(* directory, and, when no file had two names at first, none has.          *)
NoHardLinks == \A p, q \in Paths :
    InitialNode[p] = InitialNode[q] /\ InitialNode[p] \in Inodes => p = q

Proper ==
    /\ node[<<>>] = Dir
    /\ \A p, q \in Paths : Prefix(q, p) /\ q # p /\ node[p] # Absent => node[q] = Dir
    /\ \A p, q \in Paths : node[p] = node[q] /\ IsFile(p) => p = q

(* Where a worker is in its operation, and what it has open there. *)
Control(w) ==
    /\ pc[w] = "look" => req[w].op \in Reading
    /\ pc[w] \in {"lookup", "mkdir"} => req[w].op = "mkdir"
    /\ pc[w] = "mkdir" => open[w].at \in 1..Len(req[w].src)
    /\ pc[w] \in {"remove", "sweep"} => req[w].op = "remove"
    /\ pc[w] = "sweep" => req[w].recursive /\ open[w].todo \subseteq Under(req[w].src) \ {<<>>}
    /\ pc[w] = "move" => req[w].op = "move"
    /\ pc[w] \in {"source", "copy"} => req[w].op = "copy"
    /\ pc[w] = "create" => req[w].op \in {"copy", "write"} /\ open[w].at = 0
    /\ pc[w] = "write" => req[w].op = "write"
    /\ pc[w] \notin {"mkdir", "sweep", "create", "copy", "write"} => open[w] = Closed
    /\ pc[w] \in {"mkdir", "sweep", "create"} => open[w].out = NoFile

ControlInv == \A w \in Workers : Control(w)

(* The paths a request can change, and those that lead to them. *)
Scope(r) == UNION {Under(p) : p \in Touched(r)}
Above(r) == {q \in Paths : \E p \in Touched(r) : Prefix(q, p)}
Related(r, s) == \E p \in Touched(r), q \in Touched(s) : Prefix(p, q) \/ Prefix(q, p)

(* A request that has met no other. *)
Known(w) == Busy(w) /\ was[w] # NoTree
Alone == \A v, w \in Workers : v # w /\ Busy(v) /\ Known(w) => ~Related(req[w], req[v])
Owner == \A v, w \in Workers : v # w /\ Known(w) =>
            \A p \in Scope(req[w]) : IsFile(p) => open[v].out # node[p]

Untouched(w) ==
    /\ Kept(w, Scope(req[w]))
    /\ \A q \in Above(req[w]) : node[q] = Absent => was[w][q] = Absent

Making(w) == \A q \in Paths :
    Prefix(q, req[w].src) /\ Len(q) < open[w].at => node[q] = Dir

Sweeping(w) == \A p \in Under(req[w].src) : Tree[p] \in {was[w][p], Absent}

Copying(w) ==
    LET B == Blocks(was[w][req[w].src])
        dst == req[w].dst
    IN  /\ IsFile(dst) /\ open[w].out = node[dst] /\ open[w].in = node[req[w].src]
        /\ Kept(w, Scope(req[w]) \ {dst})
        /\ open[w].at \in 0..Len(B)
        /\ Tree[dst] = SubSeq(B, 1, open[w].at)
        /\ req[w].src = dst => open[w].at = 0
        /\ was[w][req[w].src] # Absent

Writing(w) ==
    LET src == req[w].src
    IN  /\ IsFile(src) /\ open[w].out = node[src]
        /\ Kept(w, Scope(req[w]) \ {src})
        /\ Tree[src] = <<>>

Outcome(w) ==
    IF code[w] = ""
    THEN /\ Promised(w)
         /\ req[w].op = "move" /\ req[w].src # req[w].dst
               => ~Prefix(req[w].src, req[w].dst)
    ELSE Damage(w) /\ (code[w] = "NOT_FOUND" => Missing(w))

(* How far the operation of a request that has met no other has changed the *)
(* tree it found.                                                          *)
Stage(w) ==
    /\ \A p \in Paths : was[w][p] \in {Absent, Dir} \/ was[w][p] \in Seq(Nat)
    /\ pc[w] \in {"admit", "check", "look", "lookup", "mkdir", "remove", "move", "source", "create"}
          => Untouched(w)
    /\ pc[w] = "mkdir" => Making(w)
    /\ pc[w] = "sweep" => Sweeping(w)
    /\ pc[w] = "create" /\ req[w].op = "copy" => open[w].in = node[req[w].src]
    /\ pc[w] = "copy" => Copying(w)
    /\ pc[w] = "write" => Writing(w)
    /\ pc[w] \in {"record", "answer", "log"} => Outcome(w)

StageInv == \A w \in Workers : Known(w) => Stage(w)

AnswersInv == Proper /\ ControlInv /\ Alone /\ Owner /\ StageInv


(* Prefix compares the names one by one. *)
LEMMA PrefixIs ==
    ASSUME NEW p \in Seq(STRING), NEW q \in Seq(STRING)
    PROVE  Prefix(p, q) <=> Len(p) <= Len(q) /\ \A i \in 1..Len(p) : p[i] = q[i]
<1>1. CASE Len(p) <= Len(q)
  <2>1. /\ SubSeq(q, 1, Len(p)) \in Seq(STRING)
        /\ Len(SubSeq(q, 1, Len(p))) = Len(p)
        /\ \A i \in 1..Len(p) : SubSeq(q, 1, Len(p))[i] = q[i]
    BY <1>1
  <2>2. SubSeq(q, 1, Len(p)) = p <=> \A i \in 1..Len(p) : p[i] = q[i]
    BY <2>1, SeqEqual
  <2> QED BY <1>1, <2>2 DEF Prefix
<1>2. CASE ~(Len(p) <= Len(q))
  BY <1>2 DEF Prefix
<1> QED BY <1>1, <1>2

(* The paths are ordered as a tree. *)
LEMMA PrefixOrder ==
    /\ \A p \in Paths : Prefix(p, p) /\ Prefix(<<>>, p)
    /\ \A p \in Paths : Prefix(p, <<>>) => p = <<>>
    /\ \A p, q \in Paths : Prefix(p, q) /\ Prefix(q, p) => p = q
    /\ \A p, q, r \in Paths : Prefix(p, q) /\ Prefix(q, r) => Prefix(p, r)
    /\ \A p, q, r \in Paths : Prefix(p, r) /\ Prefix(q, r) => Prefix(p, q) \/ Prefix(q, p)
<1>1. Paths \subseteq Seq(STRING)
  BY FilesAssumption
<1>2. \A p \in Paths : Prefix(p, p) /\ Prefix(<<>>, p)
  <2> TAKE p \in Paths
  <2>1. p \in Seq(STRING)
    BY <1>1
  <2>2. Prefix(p, p)
    BY <2>1, PrefixIs
  <2>3. SubSeq(p, 1, 0) = <<>> /\ Len(<<>>) = 0 /\ 0 <= Len(p)
    BY <2>1
  <2> QED BY <2>2, <2>3 DEF Prefix
<1>3. \A p \in Paths : Prefix(p, <<>>) => p = <<>>
  <2> TAKE p \in Paths
  <2>1. p \in Seq(STRING)
    BY <1>1
  <2> QED BY <2>1 DEF Prefix
<1>4. \A p, q \in Paths : Prefix(p, q) /\ Prefix(q, p) => p = q
  <2> TAKE p, q \in Paths
  <2>1. p \in Seq(STRING) /\ q \in Seq(STRING)
    BY <1>1
  <2>2. SUFFICES ASSUME Prefix(p, q), Prefix(q, p) PROVE p = q
    OBVIOUS
  <2>3. Len(p) = Len(q) /\ \A i \in 1..Len(p) : p[i] = q[i]
    BY <2>1, <2>2, PrefixIs
  <2> QED BY <2>1, <2>3, SeqEqual
<1>5. \A p, q, r \in Paths : Prefix(p, q) /\ Prefix(q, r) => Prefix(p, r)
  <2> TAKE p, q, r \in Paths
  <2>1. p \in Seq(STRING) /\ q \in Seq(STRING) /\ r \in Seq(STRING)
    BY <1>1
  <2>2. /\ Prefix(p, q) <=> Len(p) <= Len(q) /\ \A i \in 1..Len(p) : p[i] = q[i]
        /\ Prefix(q, r) <=> Len(q) <= Len(r) /\ \A i \in 1..Len(q) : q[i] = r[i]
        /\ Prefix(p, r) <=> Len(p) <= Len(r) /\ \A i \in 1..Len(p) : p[i] = r[i]
    BY <2>1, PrefixIs
  <2> QED BY <2>1, <2>2
<1>6. \A p, q, r \in Paths : Prefix(p, r) /\ Prefix(q, r) => Prefix(p, q) \/ Prefix(q, p)
  <2> TAKE p, q, r \in Paths
  <2>1. p \in Seq(STRING) /\ q \in Seq(STRING) /\ r \in Seq(STRING)
    BY <1>1
  <2>2. /\ Prefix(p, r) <=> Len(p) <= Len(r) /\ \A i \in 1..Len(p) : p[i] = r[i]
        /\ Prefix(q, r) <=> Len(q) <= Len(r) /\ \A i \in 1..Len(q) : q[i] = r[i]
        /\ Prefix(p, q) <=> Len(p) <= Len(q) /\ \A i \in 1..Len(p) : p[i] = q[i]
        /\ Prefix(q, p) <=> Len(q) <= Len(p) /\ \A i \in 1..Len(q) : q[i] = p[i]
    BY <2>1, PrefixIs
  <2> QED BY <2>1, <2>2
<1> QED BY <1>2, <1>3, <1>4, <1>5, <1>6

(* What is above a path is shorter, unless it is the path. *)
LEMMA PrefixLength ==
    /\ \A p \in Paths : Len(p) \in Nat
    /\ \A p, q \in Paths : Prefix(p, q) => Len(p) <= Len(q)
    /\ \A p, q \in Paths : Prefix(p, q) /\ Len(q) <= Len(p) => p = q
<1>1. Paths \subseteq Seq(STRING)
  BY FilesAssumption
<1>2. \A p \in Paths : Len(p) \in Nat
  BY <1>1
<1>3. \A p, q \in Paths : Prefix(p, q) => Len(p) <= Len(q)
  BY DEF Prefix
<1>4. ASSUME NEW p \in Paths, NEW q \in Paths, Prefix(p, q), Len(q) <= Len(p)
      PROVE  p = q
  <2>1. p \in Seq(STRING) /\ q \in Seq(STRING) /\ Len(p) = Len(q)
    BY <1>1, <1>2, <1>3, <1>4
  <2> QED BY <1>4, <2>1, PrefixIs, SeqEqual
<1> QED BY <1>2, <1>3, <1>4

(* The first names of a path are a path above it, and the only one of that length. *)
LEMMA FirstNames ==
    ASSUME NEW p \in Paths, NEW n \in 0..Len(p)
    PROVE  LET q == SubSeq(p, 1, n)
           IN  /\ q \in Paths /\ Prefix(q, p) /\ Len(q) = n
               /\ n = Len(p) <=> q = p
               /\ \A r \in Paths : Prefix(r, p) /\ Len(r) = n => r = q
               /\ \A r \in Paths : Prefix(r, p) /\ Len(r) <= n => Prefix(r, q)
<1> DEFINE q == SubSeq(p, 1, n)
<1>1. p \in Seq(STRING) /\ Paths \subseteq Seq(STRING) /\ q \in Paths
  BY FilesAssumption
<1>2. /\ q \in Seq(STRING) /\ Len(q) = n /\ \A i \in 1..n : q[i] = p[i]
  BY <1>1
<1>3. Prefix(q, p)
  <2> HIDE DEF q
  <2> QED BY <1>1, <1>2, PrefixIs
<1>4. n = Len(p) <=> q = p
  <2>1. n = Len(p) => q = p
    BY <1>1, <1>2, SeqEqual
  <2> HIDE DEF q
  <2> QED BY <1>2, <2>1
<1>5. \A r \in Paths : Prefix(r, p) /\ Len(r) = n => r = q
  BY DEF Prefix
<1>6. \A r \in Paths : Prefix(r, p) /\ Len(r) <= n => Prefix(r, q)
  <2> TAKE r \in Paths
  <2>1. r \in Seq(STRING)
    BY <1>1
  <2> HIDE DEF q
  <2>2. /\ Prefix(r, p) <=> Len(r) <= Len(p) /\ \A i \in 1..Len(r) : r[i] = p[i]
        /\ Prefix(r, q) <=> Len(r) <= Len(q) /\ \A i \in 1..Len(r) : r[i] = q[i]
    BY <1>1, <1>2, <2>1, PrefixIs
  <2> QED BY <1>2, <2>1, <2>2
<1> QED BY <1>1, <1>2, <1>3, <1>4, <1>5, <1>6

(* Every path above a path is above its parent. *)
LEMMA ParentNext ==
    ASSUME NEW p \in Paths, p # <<>>
    PROVE  /\ Parent(p) \in Paths /\ Prefix(Parent(p), p) /\ Parent(p) # p
           /\ \A q \in Paths : Prefix(q, p) /\ q # p => Prefix(q, Parent(p))
           /\ \A n \in 1..Len(p) : Parent(SubSeq(p, 1, n)) = SubSeq(p, 1, n - 1)
<1>1. p \in Seq(STRING) /\ Paths \subseteq Seq(STRING)
  BY FilesAssumption
<1>2. Len(p) \in Nat \ {0}
  BY <1>1
<1> DEFINE n == Len(p) - 1
<1>3. n \in 0..Len(p) /\ n # Len(p) /\ Parent(p) = SubSeq(p, 1, n)
  BY <1>2 DEF Parent
<1>4. /\ Parent(p) \in Paths /\ Prefix(Parent(p), p) /\ Parent(p) # p
      /\ \A r \in Paths : Prefix(r, p) /\ Len(r) <= n => Prefix(r, Parent(p))
  <2> HIDE DEF n
  <2> QED BY <1>3, FirstNames
<1>5. \A q \in Paths : Prefix(q, p) /\ q # p => Len(q) <= n
  <2> TAKE q \in Paths
  <2>1. q \in Seq(STRING)
    BY <1>1
  <2>2. Len(q) = Len(p) /\ Prefix(q, p) => q = p
    BY <1>1, <2>1, PrefixIs, SeqEqual
  <2>3. Prefix(q, p) => Len(q) <= Len(p)
    BY DEF Prefix
  <2> QED BY <1>2, <2>1, <2>2, <2>3
<1>6. ASSUME NEW k \in 1..Len(p)
      PROVE  Parent(SubSeq(p, 1, k)) = SubSeq(p, 1, k - 1)
  <2> DEFINE s == SubSeq(p, 1, k)
  <2>1. s \in Seq(STRING) /\ Len(s) = k /\ \A i \in 1..k : s[i] = p[i]
    BY <1>1
  <2>2. /\ SubSeq(p, 1, k - 1) \in Seq(STRING) /\ Len(SubSeq(p, 1, k - 1)) = k - 1
        /\ \A i \in 1..(k - 1) : SubSeq(p, 1, k - 1)[i] = p[i]
    BY <1>1
  <2> HIDE DEF s
  <2>3. /\ SubSeq(s, 1, k - 1) \in Seq(STRING) /\ Len(SubSeq(s, 1, k - 1)) = k - 1
        /\ \A i \in 1..(k - 1) : SubSeq(s, 1, k - 1)[i] = s[i]
    BY <2>1
  <2>4. SubSeq(s, 1, k - 1) = SubSeq(p, 1, k - 1)
    BY <2>1, <2>2, <2>3, SeqEqual
  <2> QED BY <2>1, <2>4 DEF Parent, s
<1> QED BY <1>4, <1>5, <1>6

(* The names of a moved path: those of its new place, then its own. *)
LEMMA MovedNames ==
    ASSUME NEW a \in Seq(STRING), NEW b \in Seq(STRING), NEW x \in Seq(STRING),
           Len(a) <= Len(x)
    PROVE  /\ Moved(x, a, b) \in Seq(STRING)
           /\ Len(Moved(x, a, b)) = Len(b) + Len(x) - Len(a)
           /\ \A i \in 1..Len(b) : Moved(x, a, b)[i] = b[i]
           /\ \A i \in (Len(a) + 1)..Len(x) :
                 Moved(x, a, b)[Len(b) + i - Len(a)] = x[i]
<1> DEFINE t == SubSeq(x, Len(a) + 1, Len(x))
<1>1. /\ t \in Seq(STRING) /\ Len(t) = Len(x) - Len(a)
      /\ \A i \in 1..(Len(x) - Len(a)) : t[i] = x[Len(a) + i]
  OBVIOUS
<1> HIDE DEF t
<1>2. /\ b \o t \in Seq(STRING) /\ Len(b \o t) = Len(b) + Len(t)
      /\ \A i \in 1..Len(b) : (b \o t)[i] = b[i]
      /\ \A i \in 1..Len(t) : (b \o t)[Len(b) + i] = t[i]
  <2>1. /\ b \o t \in Seq(STRING) /\ Len(b \o t) = Len(b) + Len(t)
        /\ \A i \in 1..(Len(b) + Len(t)) :
              (b \o t)[i] = IF i <= Len(b) THEN b[i] ELSE t[i - Len(b)]
    BY <1>1, ConcatProperties, Zenon
  <2> QED BY <1>1, <2>1
<1>3. ASSUME NEW i \in (Len(a) + 1)..Len(x)
      PROVE  (b \o t)[Len(b) + i - Len(a)] = x[i]
  <2>1. /\ i - Len(a) \in 1..Len(t) /\ Len(a) + (i - Len(a)) = i
        /\ Len(b) + (i - Len(a)) = Len(b) + i - Len(a)
    BY <1>1
  <2> QED BY <1>1, <1>2, <2>1
<1> QED BY <1>1, <1>2, <1>3 DEF Moved, t

(* What a move makes of the paths below its source, and back. *)
LEMMA MovedBack ==
    ASSUME NEW src \in Paths, NEW dst \in Paths, NEW p \in Paths, Prefix(src, p)
    PROVE  /\ Moved(p, src, dst) \in Seq(STRING)
           /\ Moved(p, src, dst) \in Paths => Prefix(dst, Moved(p, src, dst))
           /\ Moved(Moved(p, src, dst), dst, src) = p
           /\ Moved(src, src, dst) = dst
<1> DEFINE n == Len(src)
           m == Len(dst)
           s == Moved(p, src, dst)
<1>1. /\ p \in Seq(STRING) /\ src \in Seq(STRING) /\ dst \in Seq(STRING)
      /\ Paths \subseteq Seq(STRING) /\ n <= Len(p) /\ n \in Nat /\ m \in Nat
      /\ \A i \in 1..n : p[i] = src[i]
  <2>1. p \in Seq(STRING) /\ src \in Seq(STRING) /\ dst \in Seq(STRING)
      /\ Paths \subseteq Seq(STRING)
    BY FilesAssumption
  <2> QED BY <2>1, PrefixIs
<1>3. /\ s \in Seq(STRING) /\ Len(s) = m + Len(p) - n
      /\ \A i \in 1..m : s[i] = dst[i]
      /\ \A i \in (n + 1)..Len(p) : s[m + i - n] = p[i]
  BY <1>1, MovedNames
<1>4. s \in Paths => Prefix(dst, s)
  <2> HIDE DEF s
  <2> QED BY <1>1, <1>3, PrefixIs
<1>5. Moved(s, dst, src) = p
  <2> DEFINE t == Moved(s, dst, src)
  <2> HIDE DEF s
  <2>1. m <= Len(s)
    BY <1>1, <1>3
  <2>2. /\ t \in Seq(STRING) /\ Len(t) = n + Len(s) - m
        /\ \A i \in 1..n : t[i] = src[i]
        /\ \A i \in (m + 1)..Len(s) : t[n + i - m] = s[i]
    BY <1>1, <1>3, <2>1, MovedNames
  <2> HIDE DEF t
  <2>3. Len(t) = Len(p)
    BY <1>1, <1>3, <2>2
  <2>4. ASSUME NEW i \in 1..Len(p)
        PROVE  t[i] = p[i]
    <3>1. CASE i <= n
      BY <1>1, <2>2, <3>1
    <3>2. CASE i > n
      <4>1. /\ i \in (n + 1)..Len(p) /\ m + i - n \in (m + 1)..Len(s)
            /\ n + (m + i - n) - m = i
        BY <1>1, <1>3, <3>2
      <4> QED BY <1>3, <2>2, <4>1
    <3> QED BY <1>1, <3>1, <3>2
  <2>5. t = p
    BY <1>1, <2>2, <2>3, <2>4, SeqEqual
  <2> QED BY <2>5 DEF t
<1>6. Moved(src, src, dst) = dst
  <2> DEFINE t == Moved(src, src, dst)
  <2>1. /\ t \in Seq(STRING) /\ Len(t) = m + n - n
        /\ \A i \in 1..m : t[i] = dst[i]
    <3>1. n <= n
      BY <1>1
    <3> QED BY <1>1, <3>1, MovedNames, Zenon
  <2> HIDE DEF t
  <2>2. t = dst
    BY <1>1, <2>1, SeqEqual
  <2> QED BY <2>2 DEF t
<1> QED BY <1>3, <1>4, <1>5, <1>6

(* A move and the move back. *)
LEMMA MovedInverse ==
    \A src, dst, p \in Paths :
        Prefix(src, p) => Moved(Moved(p, src, dst), dst, src) = p
BY MovedBack

(* A move keeps the order of the paths below its source. *)
LEMMA MovedOrder ==
    ASSUME NEW src \in Paths, NEW dst \in Paths, NEW p \in Paths, NEW q \in Paths,
           Prefix(src, q), Prefix(q, p),
           Moved(p, src, dst) \in Paths, Moved(q, src, dst) \in Paths
    PROVE  Prefix(Moved(q, src, dst), Moved(p, src, dst))
<1> DEFINE n == Len(src)
           m == Len(dst)
           s == Moved(p, src, dst)
           t == Moved(q, src, dst)
<1>1. /\ p \in Seq(STRING) /\ src \in Seq(STRING) /\ dst \in Seq(STRING)
      /\ Paths \subseteq Seq(STRING) /\ n <= Len(p) /\ n \in Nat /\ m \in Nat
  <2>1. p \in Seq(STRING) /\ src \in Seq(STRING) /\ dst \in Seq(STRING)
      /\ Paths \subseteq Seq(STRING)
    BY FilesAssumption
  <2> QED BY <2>1, PrefixIs, PrefixOrder
<1>2. /\ s \in Seq(STRING) /\ Len(s) = m + Len(p) - n
      /\ \A i \in 1..m : s[i] = dst[i]
      /\ \A i \in (n + 1)..Len(p) : s[m + i - n] = p[i]
  BY <1>1, MovedNames
<1>3. /\ q \in Seq(STRING) /\ n <= Len(q) /\ Len(q) <= Len(p)
      /\ \A i \in 1..Len(q) : q[i] = p[i]
  BY <1>1, PrefixIs
<1>4. /\ t \in Seq(STRING) /\ Len(t) = m + Len(q) - n
      /\ \A i \in 1..m : t[i] = dst[i]
      /\ \A i \in (n + 1)..Len(q) : t[m + i - n] = q[i]
  BY <1>1, <1>3, MovedNames
<1> HIDE DEF t, s
<1>5. ASSUME NEW i \in 1..Len(t)
      PROVE  t[i] = s[i]
  <2>1. CASE i <= m
    BY <1>1, <1>2, <1>4, <2>1
  <2>2. CASE i > m
    <3> DEFINE j == i + n - m
    <3>1. /\ j \in (n + 1)..Len(q) /\ j \in (n + 1)..Len(p) /\ j \in 1..Len(q)
          /\ m + j - n = i
      BY <1>1, <1>3, <1>4, <2>2
    <3> HIDE DEF j
    <3>2. t[i] = q[j] /\ s[i] = p[j]
      BY <1>2, <1>4, <3>1
    <3> QED BY <1>3, <3>1, <3>2
  <2> QED BY <1>1, <1>4, <2>1, <2>2
<1>6. Len(t) <= Len(s)
  BY <1>1, <1>2, <1>3, <1>4
<1>7. Prefix(t, s)
  BY <1>2, <1>4, <1>5, <1>6, PrefixIs
<1> QED BY <1>7 DEF s, t

(* Writing over nothing gives what is written; one block more at the end of   *)
(* a part gives the next part.                                              *)
LEMMA OverlayWhole ==
    ASSUME NEW d \in Seq(Nat)
    PROVE  Overlay(<<>>, 0, d) = d
<1> DEFINE o == Overlay(<<>>, 0, d)
<1>1. o \in Seq(Nat) /\ Len(o) = Len(d) /\ \A k \in 1..Len(d) : o[k] = d[k]
  <2>1. <<>> \in Seq(Nat) /\ Len(<<>>) = 0 /\ 0 \in Nat
    OBVIOUS
  <2>2. o \in Seq(Nat)
    BY <2>1, OverlayType
  <2>3. o = [k \in 1..Len(d) |-> d[k]]
    BY DEF Overlay
  <2> HIDE DEF o
  <2> QED BY <2>2, <2>3
<1> HIDE DEF o
<1>2. o = d
  BY <1>1, SeqEqual
<1> QED BY <1>2 DEF o

(* One block more at the end of a part gives the next part. *)
LEMMA OverlayNext ==
    ASSUME NEW b \in Seq(Nat), NEW n \in Nat, n < Len(b)
    PROVE  Overlay(SubSeq(b, 1, n), n, <<b[n + 1]>>) = SubSeq(b, 1, n + 1)
<1> DEFINE s == SubSeq(b, 1, n)
           e == <<b[n + 1]>>
           o == Overlay(s, n, e)
           t == SubSeq(b, 1, n + 1)
<1>1. s \in Seq(Nat) /\ Len(s) = n /\ \A k \in 1..n : s[k] = b[k]
  OBVIOUS
<1>2. t \in Seq(Nat) /\ Len(t) = n + 1 /\ \A k \in 1..(n + 1) : t[k] = b[k]
  OBVIOUS
<1>3. e \in Seq(Nat) /\ Len(e) = 1 /\ e[1] = b[n + 1]
  OBVIOUS
<1> HIDE DEF s, e, t
<1>4. o \in Seq(Nat)
  BY <1>1, <1>3, OverlayType
<1>5. o = [k \in 1..(n + 1) |-> IF k > n /\ k <= n + 1 THEN e[k - n]
                               ELSE IF k <= n THEN s[k] ELSE Hole]
  BY <1>1, <1>3 DEF Overlay
<1> HIDE DEF o
<1>6. Len(o) = n + 1 /\ \A k \in 1..(n + 1) : o[k] = b[k]
  <2>1. DOMAIN o = 1..(n + 1)
    BY <1>5
  <2>2. Len(o) = n + 1
    BY <1>4, <2>1
  <2>3. ASSUME NEW k \in 1..(n + 1)
        PROVE  o[k] = b[k]
    <3>1. CASE k <= n
      BY <1>1, <1>5, <3>1
    <3>2. CASE k = n + 1
      BY <1>3, <1>5, <3>2
    <3> QED BY <3>1, <3>2
  <2> QED BY <2>2, <2>3
<1>7. o = t
  BY <1>2, <1>4, <1>6, SeqEqual
<1> QED BY <1>7 DEF o, s, e, t

(* What each path holds. *)
LEMMA TreeType ==
    ASSUME TypeOK, NEW p \in Paths
    PROVE  /\ node[p] \in Inodes \cup {Absent, Dir}
           /\ Tree[p] \in {Absent, Dir} \/ Tree[p] \in Seq(Nat)
           /\ IsFile(p) => Tree[p] = content[node[p]] /\ Tree[p] \in Seq(Nat)
           /\ ~IsFile(p) => Tree[p] = node[p]
           /\ Tree[p] = Absent <=> node[p] = Absent
           /\ Tree[p] = Dir <=> node[p] = Dir
<1>1. /\ node[p] \in Inodes \cup {Absent, Dir}
      /\ Tree[p] = IF IsFile(p) THEN content[node[p]] ELSE node[p]
  BY DEF TypeOK, Tree
<1>2. IsFile(p) => content[node[p]] \in Seq(Nat)
  BY DEF TypeOK, IsFile
<1>3. {Absent, Dir} \cap Seq(Nat) = {} /\ {Absent, Dir, NoFile} \cap Inodes = {}
  BY FilesAssumption
<1> QED BY <1>1, <1>2, <1>3 DEF IsFile

(* It depends on the node and on the content of its file. *)
LEMMA TreeSame ==
    ASSUME NEW p \in Paths, node'[p] = node[p],
           IsFile(p) => content'[node[p]] = content[node[p]]
    PROVE  Tree'[p] = Tree[p] /\ (IsFile(p)' <=> IsFile(p))
<1>1. IsFile(p)' <=> IsFile(p)
  BY DEF IsFile
<1>2. /\ Tree[p] = IF IsFile(p) THEN content[node[p]] ELSE node[p]
      /\ Tree'[p] = IF IsFile(p)' THEN content'[node'[p]] ELSE node'[p]
  BY DEF Tree
<1> QED BY <1>1, <1>2

(* The scope of a request, in the words of Prefix. *)
LEMMA InScope ==
    ASSUME NEW r \in Requests
    PROVE  /\ Touched(r) \subseteq Paths /\ Touched(r) \subseteq Scope(r)
           /\ Scope(r) \subseteq Paths
           /\ \A p \in Paths : p \in Scope(r) <=> \E t \in Touched(r) : Prefix(t, p)
           /\ Under(r.src) \subseteq Scope(r) /\ r.src \in Under(r.src)
           /\ r.src \in Touched(r)
           /\ r.op \in {"move", "copy"} => r.dst \in Touched(r)
           /\ Touched(r) \subseteq Above(r)
           /\ <<>> \notin Scope(r)
<1>1. r.src \in Paths /\ r.dst \in Paths /\ r.src # <<>> /\ r.dst # <<>>
  BY RequestType, FilesAssumption
<1>2. Touched(r) \subseteq {r.src, r.dst} /\ r.src \in Touched(r)
  BY DEF Touched
<1>3. r.op \in {"move", "copy"} => r.dst \in Touched(r)
  BY DEF Touched
<1>4. \A p \in Paths : p \in Scope(r) <=> \E t \in Touched(r) : Prefix(t, p)
  BY DEF Scope, Under
<1>5. Scope(r) \subseteq Paths
  BY DEF Scope, Under
<1>6. Under(r.src) \subseteq Scope(r) /\ r.src \in Under(r.src)
  BY <1>1, <1>2, <1>4, PrefixOrder DEF Under
<1>7. Touched(r) \subseteq Scope(r) /\ Touched(r) \subseteq Above(r)
  BY <1>1, <1>2, <1>4, PrefixOrder DEF Above
<1>8. <<>> \notin Scope(r)
  <2>1. <<>> \in Paths
    BY FilesAssumption
  <2> QED BY <1>1, <1>2, <1>4, <2>1, PrefixOrder
<1> QED BY <1>1, <1>2, <1>3, <1>4, <1>5, <1>6, <1>7, <1>8

(* What is above an entry is a directory, and what is below one that is not  *)
(* there, or is a file, or has no children, is not there.                   *)
LEMMA ProperUse ==
    ASSUME TypeOK, Proper
    PROVE  /\ node[<<>>] = Dir
           /\ \A p, q \in Paths : Prefix(q, p) /\ q # p /\ node[p] # Absent => node[q] = Dir
           /\ \A p, q \in Paths : Prefix(q, p) /\ q # p /\ node[q] # Dir => node[p] = Absent
           /\ \A p, q \in Paths : node[p] = node[q] /\ IsFile(p) => p = q
           /\ \A p, q \in Paths : (Removable(q) \/ node[q] = Absent) /\ Prefix(q, p) /\ p # q
                 => node[p] = Absent
           /\ \A p \in Paths : Parent(p) \in Paths /\ node[Parent(p)] = Dir =>
                 \A q \in Paths : Prefix(q, Parent(p)) => node[q] = Dir
<1>1. Dir # Absent /\ Dir \notin Inodes
  BY FilesAssumption
<1> QED BY <1>1 DEF Proper, Removable, IsFile, Children, Under

(* A name that is not found is not there, and no file is on its way. *)
LEMMA LookupErrorIs ==
    ASSUME TypeOK, NEW p \in Paths, p # <<>>
    PROVE  /\ LookupError(p) \in {"INTERNAL", "NOT_FOUND"}
           /\ LookupError(p) = "NOT_FOUND" /\ node[Parent(p)] # Dir
                 => node[Parent(p)] = Absent
<1>1. Parent(p) \in Paths /\ Prefix(Parent(p), p) /\ Parent(p) # p
  BY ParentNext
<1> QED BY <1>1 DEF LookupError, IsFile, TypeOK

(* What a step of a worker can change: the entries of its scope, directories  *)
(* it makes above it, and files it has open or opens now.                   *)
Reach(v, i) == Free(i) \/ \E p \in Touched(req[v]) : node[p] = i

Effect(v) ==
    /\ \A q \in Paths : node'[q] # node[q] =>
          \/ q \in Scope(req[v])
          \/ q \in Above(req[v]) /\ node[q] = Absent /\ node'[q] = Dir
    /\ \A i \in Inodes : content'[i] # content[i] => i = open[v].out \/ Reach(v, i)
    /\ open'[v].out # open[v].out =>
          open'[v].out = NoFile \/ Reach(v, open'[v].out)

(* What the operations do to the tree is in their scope. *)
LEMMA StepEffect ==
    ASSUME TypeOK, ProgressInv, NEW v \in Workers, Control(v), Run(v)
    PROVE  Effect(v)
<1> DEFINE r == req[v]
           src == r.src
           dst == r.dst
           Tidy == open'[v].out = open[v].out \/ open'[v].out = NoFile
<1>1. pc[v] # "idle"
  BY DEF Run, Admit, Check, Record, Answer, LogRequest,
         Operate, Look, Lookup, Mkdir, Remove, Sweep, SweepEnds, Rename,
         OpenSource, Create, CopyBlock, CopyEnds, Write, CallFails
<1>2. /\ r \in Requests /\ src \in Paths /\ dst \in Paths
  BY <1>1, RequestType DEF ProgressInv, Progress
<1>3. /\ Scope(r) \subseteq Paths /\ src \in Touched(r)
      /\ \A p \in Paths : p \in Scope(r) <=> \E t \in Touched(r) : Prefix(t, p)
      /\ r.op \in {"move", "copy"} => dst \in Touched(r)
      /\ Touched(r) \subseteq Scope(r) /\ Under(src) \subseteq Scope(r)
  BY <1>2, InScope
<1>4. open \in [Workers -> Opens] /\ DOMAIN open = Workers
      /\ node \in [Paths -> Inodes \cup {Absent, Dir}]
      /\ content \in [Inodes -> Seq(Nat)]
  BY DEF TypeOK, Opens
<1>5. \A c : Done(v, c) => Tidy
  BY <1>4 DEF Done, Closed
<1>6. ASSUME node' = node, content' = content, Tidy
      PROVE  Effect(v)
  BY <1>6 DEF Effect
<1>7. ASSUME NEW q \in Scope(r), NEW x, node' = [node EXCEPT ![q] = x],
             content' = content, Tidy
      PROVE  Effect(v)
  BY <1>3, <1>4, <1>7 DEF Effect
<1>8. CASE Admit(v) \/ Record(v) \/ Answer(v) \/ LogRequest(v)
  BY <1>6, <1>8 DEF Admit, Record, Answer, LogRequest, tree
<1>9. CASE Check(v)
  BY <1>5, <1>6, <1>9 DEF Check, tree
<1>10. CASE Look(v) \/ CopyEnds(v) \/ CallFails(v)
  BY <1>5, <1>6, <1>10 DEF Look, CopyEnds, CallFails, tree
<1>11. CASE Lookup(v)
  <2>1. node' = node /\ content' = content
    BY <1>11 DEF Lookup, tree
  <2>2. (\E c : Done(v, c)) \/ (\E q \in Paths : open' = [open EXCEPT ![v].at = Len(q) + 1])
    BY <1>11 DEF Lookup
  <2>3. Tidy
    BY <1>4, <1>5, <2>2 DEF Opens
  <2> QED BY <1>6, <2>1, <2>3
<1>12. CASE Mkdir(v)
  <2> DEFINE q == SubSeq(src, 1, open[v].at)
  <2>1. q \in Paths /\ Prefix(q, src)
    <3>1. open[v].at \in 0..Len(src)
      <4>1. open[v].at \in 1..Len(src)
        BY <1>12 DEF Mkdir, Control
      <4> QED BY <4>1
    <3> QED BY <1>2, <3>1, FirstNames
  <2>2. Tidy
    <3>1. (\E c : Done(v, c)) \/ open' = [open EXCEPT ![v].at = @ + 1]
      BY <1>12 DEF Mkdir
    <3> QED BY <1>4, <1>5, <3>1 DEF Opens
  <2>3. CASE node' = node
    BY <1>6, <1>12, <2>2, <2>3 DEF Mkdir
  <2>4. CASE node' = [node EXCEPT ![q] = Dir] /\ node[q] \in {Absent, Dir}
    <3>1. content' = content
      BY <1>12 DEF Mkdir
    <3>2. q \in Above(r)
      BY <1>3, <2>1 DEF Above
    <3> HIDE DEF q
    <3>3. \A p \in Paths : node'[p] # node[p] => p = q /\ node[p] = Absent /\ node'[p] = Dir
      BY <1>4, <2>4
    <3> QED BY <2>2, <3>1, <3>2, <3>3 DEF Effect
  <2> QED BY <1>12, <2>3, <2>4 DEF Mkdir
<1>13. CASE Remove(v)
  <2>1. Tidy
    <3>1. (\E c : Done(v, c)) \/ open' = [open EXCEPT ![v].todo = Children(src)]
      BY <1>13 DEF Remove
    <3> QED BY <1>4, <1>5, <3>1 DEF Opens
  <2>2. content' = content /\ (node' = node \/ node' = [node EXCEPT ![src] = Absent])
    BY <1>13 DEF Remove
  <2>3. src \in Scope(r)
    BY <1>3
  <2> QED BY <1>6, <1>7, <2>1, <2>2, <2>3
<1>14. CASE Sweep(v)
  <2>1. PICK q \in open[v].todo \cup Children(src) :
           /\ node' = [node EXCEPT ![q] = Absent]
           /\ open' = [open EXCEPT ![v].todo = @ \ {q}]
    BY <1>14 DEF Sweep
  <2>2. q \in Scope(r)
    BY <1>3, <1>14 DEF Sweep, Control, Children
  <2>3. Tidy
    BY <1>4, <2>1 DEF Opens
  <2> QED BY <1>7, <1>14, <2>1, <2>2, <2>3 DEF Sweep
<1>15. CASE SweepEnds(v)
  <2>1. Tidy
    BY <1>5, <1>15 DEF SweepEnds
  <2>2. content' = content /\ (node' = node \/ node' = [node EXCEPT ![src] = Absent])
    BY <1>15 DEF SweepEnds
  <2>3. src \in Scope(r)
    BY <1>3
  <2> QED BY <1>6, <1>7, <2>1, <2>2, <2>3
<1>16. CASE Rename(v)
  <2>1. Tidy /\ content' = content
    BY <1>5, <1>16 DEF Rename
  <2>2. dst \in Touched(r)
    BY <1>3, <1>16 DEF Rename, Control
  <2>3. ASSUME NEW q \in Paths, node'[q] # node[q]
        PROVE  q \in Scope(r)
    <3>1. Prefix(dst, q) \/ Prefix(src, q)
      BY <1>16, <2>3 DEF Rename
    <3> QED BY <1>3, <2>2, <3>1
  <2> QED BY <2>1, <2>3 DEF Effect
<1>17. CASE OpenSource(v)
  <2>1. (\E c : Done(v, c)) \/ open' = [open EXCEPT ![v].in = node[src]]
    BY <1>17 DEF OpenSource
  <2>2. Tidy
    BY <1>4, <1>5, <2>1 DEF Opens
  <2> QED BY <1>6, <1>17, <2>2 DEF OpenSource, tree
<1>18. CASE Create(v)
  <2> DEFINE p == IF r.op = "copy" THEN dst ELSE src
  <2>1. p \in Touched(r)
    BY <1>3
  <2>2. CASE \E c : Done(v, c) /\ UNCHANGED tree
    BY <1>5, <1>6, <2>2 DEF tree
  <2>3. CASE ~\E c : Done(v, c) /\ UNCHANGED tree
    <3>1. PICK i \in Inodes :
            /\ open' = [open EXCEPT ![v].out = i]
            /\ content' = [content EXCEPT ![i] = <<>>]
            /\ \/ i = node[p] /\ node' = node
               \/ Free(i) /\ node' = [node EXCEPT ![p] = i]
      BY <1>18, <2>3 DEF Create, IsFile
    <3>2. open'[v].out = i
      BY <1>4, <3>1 DEF Opens
    <3> HIDE DEF p
    <3>3. Reach(v, i)
      BY <2>1, <3>1 DEF Reach
    <3>4. \A j \in Inodes : content'[j] # content[j] => j = i
      BY <1>4, <3>1
    <3>5. \A q \in Paths : node'[q] # node[q] => q \in Scope(r)
      BY <1>3, <1>4, <2>1, <3>1
    <3> QED BY <3>2, <3>3, <3>4, <3>5 DEF Effect
  <2> QED BY <2>2, <2>3
<1>19. CASE CopyBlock(v)
  <2>1. /\ node' = node /\ open' = [open EXCEPT ![v].at = open[v].at + 1]
        /\ \E x : content' = [content EXCEPT ![open[v].out] = x]
    BY <1>19 DEF CopyBlock
  <2>2. Tidy
    BY <1>4, <2>1 DEF Opens
  <2> QED BY <1>4, <2>1, <2>2 DEF Effect
<1>20. CASE Write(v)
  <2>1. node' = node /\ \E x : content' = [content EXCEPT ![open[v].out] = x]
    BY <1>20 DEF Write
  <2>2. Tidy
    BY <1>5, <1>20 DEF Write
  <2> QED BY <1>4, <2>1, <2>2 DEF Effect
<1> QED BY <1>8, <1>9, <1>10, <1>11, <1>12, <1>13, <1>14, <1>15, <1>16, <1>17,
           <1>18, <1>19, <1>20 DEF Run, Operate

(* Related requests are so both ways. *)
LEMMA RelatedBoth ==
    ASSUME NEW r, NEW s, Related(r, s)
    PROVE  Related(s, r)
  BY DEF Related

(* A step of another request leaves the scope of a request that has met none. *)
LEMMA Frame ==
    ASSUME TypeOK, ProgressInv, Proper, ControlInv, Alone, Owner,
           NEW w \in Workers, Known(w), NEW v \in Workers, v # w, Run(v)
    PROVE  /\ \A p \in Scope(req[w]) :
                 node'[p] = node[p] /\ Tree'[p] = Tree[p] /\ (IsFile(p)' <=> IsFile(p))
           /\ \A q \in Above(req[w]) :
                 node'[q] = node[q] \/ (node[q] = Absent /\ node'[q] = Dir)
<1> DEFINE r == req[w]
           s == req[v]
<1>1. pc[v] # "idle" /\ pc[w] # "idle"
  BY DEF Run, Admit, Check, Record, Answer, LogRequest, Known, Busy,
         Operate, Look, Lookup, Mkdir, Remove, Sweep, SweepEnds, Rename,
         OpenSource, Create, CopyBlock, CopyEnds, Write, CallFails
<1>2. r \in Requests /\ s \in Requests
  BY <1>1 DEF ProgressInv, Progress
<1>3. ~Related(r, s)
  BY <1>1 DEF Alone, Busy
<1>4. Effect(v)
  BY StepEffect DEF ControlInv
<1>5. /\ Scope(r) \subseteq Paths /\ Scope(s) \subseteq Paths
      /\ Touched(r) \subseteq Paths /\ Touched(s) \subseteq Paths
      /\ \A p \in Paths : p \in Scope(r) <=> \E t \in Touched(r) : Prefix(t, p)
      /\ \A p \in Paths : p \in Scope(s) <=> \E t \in Touched(s) : Prefix(t, p)
  BY <1>2, InScope
<1>6. \A p \in Touched(r), q \in Touched(s) : ~Prefix(p, q) /\ ~Prefix(q, p)
  BY <1>3 DEF Related
<1>7. ASSUME NEW p \in Scope(r)
      PROVE  p \notin Scope(s) /\ p \notin Above(s)
  <2>1. PICK t \in Touched(r) : Prefix(t, p)
    BY <1>5
  <2>2. \A x \in Touched(s) : ~Prefix(x, p) /\ ~Prefix(p, x)
    BY <1>5, <1>6, <2>1, PrefixOrder
  <2> QED BY <1>5, <2>2 DEF Above
<1>8. ASSUME NEW p \in Scope(r)
      PROVE  node'[p] = node[p] /\ Tree'[p] = Tree[p] /\ (IsFile(p)' <=> IsFile(p))
  <2>1. p \in Paths /\ node'[p] = node[p]
    BY <1>4, <1>5, <1>7 DEF Effect
  <2>2. ASSUME IsFile(p), content'[node[p]] # content[node[p]]
        PROVE  FALSE
    <3>1. node[p] \in Inodes
      BY <2>2 DEF IsFile
    <3>2. open[v].out # node[p]
      BY <2>2 DEF Owner
    <3>3. ~Free(node[p])
      BY <2>1 DEF Free
    <3>4. ~\E q \in Touched(s) : node[q] = node[p]
      <4>1. ASSUME NEW q \in Touched(s), node[q] = node[p]
            PROVE  q = p
        <5>1. q \in Paths /\ IsFile(q)
          BY <1>5, <2>2, <4>1 DEF IsFile
        <5> QED BY <2>1, <4>1, <5>1 DEF Proper
      <4>2. Touched(s) \subseteq Scope(s)
        BY <1>2, InScope
      <4> QED BY <1>7, <4>1, <4>2
    <3> QED BY <1>4, <2>2, <3>1, <3>2, <3>3, <3>4 DEF Effect, Reach
  <2> QED BY <2>1, <2>2, TreeSame
<1>9. ASSUME NEW q \in Above(r)
      PROVE  node'[q] = node[q] \/ (node[q] = Absent /\ node'[q] = Dir)
  <2>1. PICK t \in Touched(r) : Prefix(q, t)
    BY DEF Above
  <2>2. q \in Paths
    BY DEF Above
  <2>3. q \notin Scope(s)
    <3>1. ASSUME NEW x \in Touched(s), Prefix(x, q) PROVE FALSE
      <4>1. Prefix(x, t)
        BY <1>5, <2>1, <2>2, <3>1, PrefixOrder
      <4> QED BY <1>6, <4>1
    <3> QED BY <1>5, <2>2, <3>1
  <2> QED BY <1>4, <2>2, <2>3 DEF Effect
<1> QED BY <1>8, <1>9

(* Taking away an entry that has none below it keeps the tree. *)
LEMMA TakeOne ==
    ASSUME TypeOK, Proper, NEW q \in Paths, q # <<>>,
           node[q] = Absent \/ Removable(q), node' = [node EXCEPT ![q] = Absent]
    PROVE  Proper'
<1>1. /\ node[<<>>] = Dir /\ <<>> \in Paths
      /\ \A p, s \in Paths : Prefix(s, p) /\ s # p /\ node[p] # Absent => node[s] = Dir
      /\ \A p, s \in Paths : node[p] = node[s] /\ IsFile(p) => p = s
      /\ \A p \in Paths : Prefix(q, p) /\ p # q => node[p] = Absent
  BY ProperUse, FilesAssumption
<1>2. /\ node'[q] = Absent /\ \A p \in Paths \ {q} : node'[p] = node[p]
  BY DEF TypeOK
<1>3. Absent \notin Inodes
  BY FilesAssumption
<1>4. node'[<<>>] = Dir
  BY <1>1, <1>2
<1>5. ASSUME NEW p \in Paths, NEW s \in Paths, Prefix(s, p), s # p, node'[p] # Absent
      PROVE  node'[s] = Dir
  <2>1. p # q /\ node[p] # Absent
    BY <1>2, <1>5
  <2> QED BY <1>1, <1>2, <1>5, <2>1
<1>6. ASSUME NEW p \in Paths, NEW s \in Paths, node'[p] = node'[s], IsFile(p)'
      PROVE  p = s
  BY <1>1, <1>2, <1>3, <1>6 DEF IsFile
<1> QED BY <1>4, <1>5, <1>6 DEF Proper

(* So does making a directory or a new file in a directory. *)
LEMMA MakeOne ==
    ASSUME TypeOK, Proper, NEW q \in Paths, q # <<>>,
           node[q] = Absent, node[Parent(q)] = Dir,
           NEW x, x = Dir \/ (x \in Inodes /\ \A p \in Paths : node[p] # x),
           node' = [node EXCEPT ![q] = x]
    PROVE  Proper'
<1>1. /\ node[<<>>] = Dir /\ <<>> \in Paths
      /\ \A p, s \in Paths : Prefix(s, p) /\ s # p /\ node[p] # Absent => node[s] = Dir
      /\ \A p, s \in Paths : node[p] = node[s] /\ IsFile(p) => p = s
      /\ \A p \in Paths : Prefix(p, Parent(q)) => node[p] = Dir
      /\ \A p \in Paths : Prefix(q, p) /\ p # q => node[p] = Absent
      /\ \A p \in Paths : Prefix(p, q) /\ p # q => Prefix(p, Parent(q))
  BY ProperUse, ParentNext, FilesAssumption
<1>2. /\ node'[q] = x /\ \A p \in Paths \ {q} : node'[p] = node[p]
  BY DEF TypeOK
<1>3. Absent \notin Inodes /\ Dir \notin Inodes
  BY FilesAssumption
<1>4. node'[<<>>] = Dir
  BY <1>1, <1>2
<1>5. ASSUME NEW p \in Paths, NEW s \in Paths, Prefix(s, p), s # p, node'[p] # Absent
      PROVE  node'[s] = Dir
  <2>1. CASE p = q
    BY <1>1, <1>2, <1>5, <2>1
  <2>2. CASE p # q
    BY <1>1, <1>2, <1>5, <2>2
  <2> QED BY <2>1, <2>2
<1>6. ASSUME NEW p \in Paths, NEW s \in Paths, node'[p] = node'[s], IsFile(p)'
      PROVE  p = s
  BY <1>1, <1>2, <1>3, <1>6 DEF IsFile
<1> QED BY <1>4, <1>5, <1>6 DEF Proper

(* What lies between is moved along. *)
LEMMA MovedAbove ==
    ASSUME NEW src \in Paths, NEW dst \in Paths, NEW p \in Paths, NEW s \in Paths,
           Prefix(dst, s), Prefix(s, p), Moved(p, dst, src) \in Paths
    PROVE  Moved(s, dst, src) \in Paths
<1> DEFINE a == Moved(p, dst, src)
           b == Moved(s, dst, src)
           n == Len(src) + Len(s) - Len(dst)
<1>1. /\ p \in Seq(STRING) /\ s \in Seq(STRING) /\ src \in Seq(STRING)
      /\ dst \in Seq(STRING)
  BY FilesAssumption
<1>2. /\ Len(dst) <= Len(s) /\ Len(s) <= Len(p)
      /\ \A i \in 1..Len(s) : s[i] = p[i]
  BY <1>1, PrefixIs
<1>3. /\ b \in Seq(STRING) /\ Len(b) = n
      /\ \A i \in 1..Len(src) : b[i] = src[i]
      /\ \A i \in (Len(dst) + 1)..Len(s) : b[Len(src) + i - Len(dst)] = s[i]
  BY <1>1, <1>2, MovedNames
<1>4. /\ a \in Seq(STRING) /\ Len(a) = Len(src) + Len(p) - Len(dst)
      /\ \A i \in 1..Len(src) : a[i] = src[i]
      /\ \A i \in (Len(dst) + 1)..Len(p) : a[Len(src) + i - Len(dst)] = p[i]
  <2>1. Len(dst) <= Len(p)
    BY <1>1, <1>2
  <2> QED BY <1>1, <2>1, MovedNames
<1> HIDE DEF a, b
<1>5. ASSUME NEW i \in 1..n
      PROVE  b[i] = a[i]
  <2>1. CASE i <= Len(src)
    <3>1. i \in 1..Len(src)
      BY <1>1, <2>1
    <3> QED BY <1>3, <1>4, <3>1
  <2>2. CASE i > Len(src)
    <3> DEFINE j == i + Len(dst) - Len(src)
    <3>1. /\ j \in (Len(dst) + 1)..Len(s) /\ j \in (Len(dst) + 1)..Len(p)
          /\ j \in 1..Len(s) /\ Len(src) + j - Len(dst) = i
      BY <1>1, <1>2, <2>2
    <3> HIDE DEF j
    <3> QED BY <1>2, <1>3, <1>4, <3>1
  <2> QED BY <1>1, <2>1, <2>2
<1>6. n \in 0..Len(a)
  BY <1>1, <1>2, <1>4
<1> HIDE DEF n
<1>7. /\ SubSeq(a, 1, n) \in Seq(STRING) /\ Len(SubSeq(a, 1, n)) = n
      /\ \A i \in 1..n : SubSeq(a, 1, n)[i] = a[i]
  BY <1>4, <1>6
<1>8. b = SubSeq(a, 1, n)
  BY <1>3, <1>5, <1>7, SeqEqual
<1>9. SubSeq(a, 1, n) \in Paths
  BY <1>6, FirstNames DEF a
<1> QED BY <1>8, <1>9 DEF b

(* What os.Rename has found when it succeeds. *)
LEMMA RenameFinds ==
    ASSUME TypeOK, Proper, NEW src \in Paths, NEW dst \in Paths,
           src # <<>>, dst # <<>>, src # dst, RenameError(src, dst) = ""
    PROVE  /\ ~Prefix(src, dst) /\ ~Prefix(dst, src)
           /\ \A q \in Paths : ~(Prefix(src, q) /\ Prefix(dst, q))
           /\ node[src] # Absent /\ node[dst] # Dir
           /\ \A q \in Paths : Prefix(q, dst) /\ q # dst => node[q] = Dir
           /\ \A q \in Paths : Prefix(dst, q) /\ q # dst => node[q] = Absent
<1>1. LookupError(src) # "" /\ LookupError(dst) # ""
  BY LookupErrorIs
<1>2. /\ node[src] # Absent /\ node[dst] # Dir /\ node[Parent(dst)] = Dir
      /\ ~(node[src] = Dir /\ (IsFile(dst) \/ Prefix(src, dst)))
  BY <1>1 DEF RenameError
<1>3. \A q \in Paths : Prefix(q, dst) /\ q # dst => node[q] = Dir
  BY <1>2, ProperUse, ParentNext
<1>4. ~Prefix(src, dst)
  BY <1>2, <1>3
<1>5. ~Prefix(dst, src)
  BY <1>2, ProperUse
<1>6. \A q \in Paths : Prefix(dst, q) /\ q # dst => node[q] = Absent
  BY <1>2, ProperUse
<1> QED BY <1>2, <1>3, <1>4, <1>5, <1>6, PrefixOrder

(* The change of the tree, and that the paths it needs are there. *)
Renames(src, dst) ==
    node' = [q \in Paths |->
                IF Prefix(dst, q) /\ Moved(q, dst, src) \in Paths
                THEN node[Moved(q, dst, src)]
                ELSE IF Prefix(src, q) THEN Absent ELSE node[q]]
Fits(src, dst) == \A p \in Under(src) : Moved(p, src, dst) \in Paths

(* Where each entry comes from when os.Rename succeeds. *)
LEMMA RenameMoves ==
    ASSUME TypeOK, Proper, NEW src \in Paths, NEW dst \in Paths,
           src # <<>>, dst # <<>>, src # dst, RenameError(src, dst) = "",
           Fits(src, dst), Renames(src, dst)
    PROVE  /\ \A p \in Under(src) : /\ node'[p] = Absent
                                    /\ node'[Moved(p, src, dst)] = node[p]
                                    /\ Prefix(dst, Moved(p, src, dst))
           /\ \A q \in Paths : Prefix(dst, q) =>
                 \/ node'[q] = Absent
                 \/ \E p \in Under(src) : q = Moved(p, src, dst)
           /\ \A q \in Paths : ~Prefix(dst, q) /\ ~Prefix(src, q) => node'[q] = node[q]
<1>1. /\ \A q \in Paths : ~(Prefix(src, q) /\ Prefix(dst, q))
      /\ \A q \in Paths : Prefix(dst, q) /\ q # dst => node[q] = Absent
  BY RenameFinds
<1>2. ASSUME NEW p \in Under(src)
      PROVE  /\ node'[p] = Absent
             /\ node'[Moved(p, src, dst)] = node[p]
             /\ Prefix(dst, Moved(p, src, dst))
  <2>1. p \in Paths /\ Prefix(src, p) /\ Moved(p, src, dst) \in Paths
    BY DEF Under, Fits
  <2>2. Moved(Moved(p, src, dst), dst, src) = p
    BY <2>1, MovedInverse
  <2>3. Prefix(dst, Moved(p, src, dst))
    BY <2>1, MovedBack
  <2> QED BY <1>1, <2>1, <2>2, <2>3 DEF Renames
<1>3. ASSUME NEW q \in Paths, Prefix(dst, q), node'[q] # Absent
      PROVE  \E p \in Under(src) : q = Moved(p, src, dst)
  <2>1. CASE Moved(q, dst, src) \in Paths
    <3> DEFINE p == Moved(q, dst, src)
    <3>1. Prefix(src, p)
      BY <1>3, <2>1, MovedBack
    <3>2. p \in Under(src)
      BY <2>1, <3>1 DEF Under
    <3>3. Moved(p, src, dst) = q
      BY <1>3, MovedInverse
    <3> QED BY <3>2, <3>3
  <2>2. CASE Moved(q, dst, src) \notin Paths
    <3>1. Moved(dst, dst, src) = src
      BY PrefixOrder, MovedBack
    <3>2. q # dst /\ ~Prefix(src, q)
      BY <1>1, <1>3, <2>2, <3>1
    <3> QED BY <1>1, <1>3, <2>2, <3>2 DEF Renames
  <2> QED BY <2>1, <2>2
<1>4. \A q \in Paths : ~Prefix(dst, q) /\ ~Prefix(src, q) => node'[q] = node[q]
  BY DEF Renames
<1> QED BY <1>2, <1>3, <1>4

(* And the tree stays one. *)
LEMMA RenameProper ==
    ASSUME TypeOK, Proper, NEW src \in Paths, NEW dst \in Paths,
           src # <<>>, dst # <<>>, src # dst, RenameError(src, dst) = "",
           Fits(src, dst), Renames(src, dst)
    PROVE  Proper'
<1>1. /\ ~Prefix(src, dst) /\ ~Prefix(dst, src)
      /\ \A q \in Paths : Prefix(q, dst) /\ q # dst => node[q] = Dir
  BY RenameFinds
<1>2. /\ \A p \in Paths : Prefix(src, p) =>
            /\ node'[p] = Absent
            /\ Moved(p, src, dst) \in Paths
            /\ node'[Moved(p, src, dst)] = node[p]
            /\ Prefix(dst, Moved(p, src, dst))
      /\ \A q \in Paths : Prefix(dst, q) =>
            \/ node'[q] = Absent
            \/ \E p \in Paths : Prefix(src, p) /\ q = Moved(p, src, dst)
      /\ \A q \in Paths : ~Prefix(dst, q) /\ ~Prefix(src, q) => node'[q] = node[q]
  <2>1. /\ \A p \in Under(src) : /\ node'[p] = Absent
                                 /\ node'[Moved(p, src, dst)] = node[p]
                                 /\ Prefix(dst, Moved(p, src, dst))
        /\ \A q \in Paths : Prefix(dst, q) =>
              \/ node'[q] = Absent
              \/ \E p \in Under(src) : q = Moved(p, src, dst)
        /\ \A q \in Paths : ~Prefix(dst, q) /\ ~Prefix(src, q) => node'[q] = node[q]
    BY RenameMoves
  <2>2. /\ \A p : p \in Under(src) <=> p \in Paths /\ Prefix(src, p)
        /\ \A p \in Paths : Prefix(src, p) => Moved(p, src, dst) \in Paths
    BY DEF Under, Fits
  <2> QED BY <2>1, <2>2
<1>3. /\ node[<<>>] = Dir /\ <<>> \in Paths
      /\ \A p, s \in Paths : Prefix(s, p) /\ s # p /\ node[p] # Absent => node[s] = Dir
      /\ \A p, s \in Paths : node[p] = node[s] /\ IsFile(p) => p = s
  BY ProperUse, FilesAssumption
<1>4. Absent \notin Inodes
  BY FilesAssumption
<1>5. node'[<<>>] = Dir
  BY <1>2, <1>3, PrefixOrder
<1>6. ASSUME NEW p \in Paths, NEW s \in Paths, Prefix(s, p), s # p, node'[p] # Absent
      PROVE  node'[s] = Dir
  <2>1. CASE Prefix(dst, p)
    <3>1. PICK a \in Paths : Prefix(src, a) /\ p = Moved(a, src, dst)
      BY <1>2, <1>6, <2>1
    <3>2. node[a] # Absent
      BY <1>2, <1>6, <3>1
    <3>3. CASE Prefix(dst, s)
      <4> DEFINE b == Moved(s, dst, src)
      <4>1. Moved(p, dst, src) = a
        BY <3>1, MovedInverse
      <4>2. Moved(b, src, dst) = s
        BY <3>3, MovedInverse
      <4>3. b \in Paths
        BY <1>6, <2>1, <3>3, <4>1, MovedAbove
      <4>4. Prefix(src, b) /\ Prefix(b, a)
        <5>1. Prefix(src, b)
          BY <3>3, <4>3, MovedBack
        <5> QED BY <1>6, <3>3, <4>1, <4>3, <5>1, MovedOrder
      <4>5. b # a
        BY <1>6, <3>1, <4>2
      <4>6. node[b] = Dir
        BY <1>3, <3>2, <4>3, <4>4, <4>5
      <4> QED BY <1>2, <4>2, <4>3, <4>4, <4>6
    <3>4. CASE ~Prefix(dst, s)
      <4>1. Prefix(s, dst) /\ s # dst
        BY <1>6, <2>1, <3>4, PrefixOrder
      <4>2. ~Prefix(src, s)
        BY <1>1, <4>1, PrefixOrder
      <4> QED BY <1>1, <1>2, <3>4, <4>1, <4>2
    <3> QED BY <3>3, <3>4
  <2>2. CASE ~Prefix(dst, p)
    <3>1. ~Prefix(src, p) /\ ~Prefix(src, s) /\ ~Prefix(dst, s)
      BY <1>2, <1>6, <2>2, PrefixOrder
    <3> QED BY <1>2, <1>3, <1>6, <2>2, <3>1
  <2> QED BY <2>1, <2>2
<1>7. ASSUME NEW p \in Paths, IsFile(p)'
      PROVE  \E a \in Paths :
                /\ node'[p] = node[a] /\ IsFile(a)
                /\ \/ Prefix(src, a) /\ p = Moved(a, src, dst)
                   \/ ~Prefix(src, a) /\ p = a
  <2>1. node'[p] # Absent /\ node'[p] \in Inodes
    BY <1>4, <1>7 DEF IsFile
  <2>2. CASE Prefix(dst, p)
    BY <1>2, <2>1, <2>2 DEF IsFile
  <2>3. CASE ~Prefix(dst, p)
    BY <1>2, <2>1, <2>3 DEF IsFile
  <2> QED BY <2>2, <2>3
<1>8. ASSUME NEW p \in Paths, NEW s \in Paths, node'[p] = node'[s], IsFile(p)'
      PROVE  p = s
  <2>1. IsFile(s)'
    BY <1>8 DEF IsFile
  <2>2. PICK a \in Paths :
           /\ node'[p] = node[a] /\ IsFile(a)
           /\ \/ Prefix(src, a) /\ p = Moved(a, src, dst)
              \/ ~Prefix(src, a) /\ p = a
    BY <1>7, <1>8
  <2>3. PICK b \in Paths :
           /\ node'[s] = node[b] /\ IsFile(b)
           /\ \/ Prefix(src, b) /\ s = Moved(b, src, dst)
              \/ ~Prefix(src, b) /\ s = b
    BY <1>7, <2>1
  <2>4. a = b
    BY <1>3, <1>8, <2>2, <2>3
  <2> QED BY <2>2, <2>3, <2>4
<1> QED BY <1>5, <1>6, <1>8 DEF Proper

(* Every operation keeps the tree. *)
LEMMA ProperStep ==
    ASSUME TypeOK, ProgressInv, Proper, NEW v \in Workers, Control(v), Run(v)
    PROVE  Proper'
<1> DEFINE r == req[v]
           src == r.src
           dst == r.dst
<1>1. pc[v] # "idle"
  BY DEF Run, Admit, Check, Record, Answer, LogRequest,
         Operate, Look, Lookup, Mkdir, Remove, Sweep, SweepEnds, Rename,
         OpenSource, Create, CopyBlock, CopyEnds, Write, CallFails
<1>2. /\ r \in Requests /\ src \in Paths /\ dst \in Paths /\ src # <<>> /\ dst # <<>>
  BY <1>1, RequestType, FilesAssumption DEF ProgressInv, Progress
<1>3. ASSUME node' = node
      PROVE  Proper'
  BY <1>3 DEF Proper, IsFile
<1>4. CASE Admit(v) \/ Check(v) \/ Record(v) \/ Answer(v) \/ LogRequest(v)
  BY <1>3, <1>4 DEF Admit, Check, Record, Answer, LogRequest, tree
<1>5. CASE \/ Look(v) \/ Lookup(v) \/ OpenSource(v) \/ CopyBlock(v)
          \/ CopyEnds(v) \/ Write(v) \/ CallFails(v)
  BY <1>3, <1>5
  DEF Look, Lookup, OpenSource, CopyBlock, CopyEnds, Write,
     CallFails, tree
<1>6. CASE Mkdir(v)
  <2> DEFINE q == SubSeq(src, 1, open[v].at)
  <2>1. CASE node' = node
    BY <1>3, <2>1
  <2>2. CASE node' # node
    <3>1. open[v].at \in 1..Len(src)
      BY <1>6 DEF Mkdir, Control
    <3>2. open[v].at \in 0..Len(src) /\ open[v].at # 0
      BY <3>1
    <3>3. q \in Paths /\ Len(q) # 0
      BY <1>2, <3>2, FirstNames
    <3>4. q # <<>>
      <4>1. Len(<<>>) = 0
        OBVIOUS
      <4> HIDE DEF q
      <4> QED BY <3>3, <4>1
    <3>5. node[Parent(q)] = Dir /\ node[q] \in {Absent, Dir} /\ node' = [node EXCEPT ![q] = Dir]
      BY <1>6, <2>2 DEF Mkdir
    <3> HIDE DEF q
    <3>6. node[q] = Absent
      BY <2>2, <3>5 DEF TypeOK
    <3> QED BY <3>3, <3>4, <3>5, <3>6, MakeOne
  <2> QED BY <2>1, <2>2
<1>7. CASE Remove(v)
  BY <1>2, <1>3, <1>7, TakeOne DEF Remove
<1>8. CASE Sweep(v)
  <2>1. PICK q \in open[v].todo \cup Children(src) :
           /\ node[q] = Absent \/ Removable(q)
           /\ node' = [node EXCEPT ![q] = Absent]
    BY <1>8 DEF Sweep
  <2>2. q \in Under(src)
    BY <1>8 DEF Sweep, Control, Children
  <2>3. q \in Paths /\ q # <<>>
    BY <1>2, <2>2, PrefixOrder DEF Under
  <2> QED BY <2>1, <2>3, TakeOne
<1>9. CASE SweepEnds(v)
  BY <1>2, <1>3, <1>9, TakeOne DEF SweepEnds
<1>10. CASE Rename(v)
  <2>1. CASE RenameError(src, dst) = "" /\ src # dst
    <3>1. Renames(src, dst)
      BY <1>10, <2>1 DEF Rename, Renames
    <3>2. ~Prefix(src, dst)
      BY <1>2, <2>1, RenameFinds
    <3>3. Fits(src, dst)
      BY <1>2, <1>10, <3>2, FilesAssumption DEF Rename, Control, Fits
    <3> QED BY <1>2, <2>1, <3>1, <3>3, RenameProper
  <2>2. CASE ~(RenameError(src, dst) = "" /\ src # dst)
    BY <1>3, <1>10, <2>2 DEF Rename
  <2> QED BY <2>1, <2>2
<1>11. CASE Create(v)
  <2> DEFINE p == IF r.op = "copy" THEN dst ELSE src
  <2>1. p \in Paths /\ p # <<>>
    BY <1>2
  <2>2. CASE node' = node
    BY <1>3, <2>2
  <2>3. CASE node' # node
    <3>1. PICK i \in Inodes : /\ node[p] = Absent /\ node[Parent(p)] = Dir /\ Free(i)
                              /\ node' = [node EXCEPT ![p] = i]
      BY <1>11, <2>3 DEF Create, tree
    <3>2. \A q \in Paths : node[q] # i
      BY <3>1 DEF Free
    <3> HIDE DEF p
    <3> QED BY <2>1, <3>1, <3>2, MakeOne
  <2> QED BY <2>2, <2>3
<1> QED BY <1>4, <1>5, <1>6, <1>7, <1>8, <1>9, <1>10, <1>11 DEF Run, Operate

(* The end of an operation leaves nothing open. *)
LEMMA DoneControl ==
    ASSUME TypeOK, NEW w \in Workers, NEW c, Done(w, c)
    PROVE  /\ Control(w)' /\ open'[w] = Closed /\ code'[w] = c
           /\ pc'[w] \in {"answer", "record"}
<1>1. DOMAIN pc = Workers /\ DOMAIN open = Workers /\ DOMAIN code = Workers
  BY DEF TypeOK
<1>2. /\ pc'[w] \in {"answer", "record"} /\ open'[w] = Closed /\ code'[w] = c
  BY <1>1 DEF Done, Goto
<1> QED BY <1>2 DEF Control

(* Every step keeps the workers where their operations say. *)
LEMMA ControlStep ==
    ASSUME TypeOK, ProgressInv, ControlInv, NEW w \in Workers, Begin(w) \/ Run(w)
    PROVE  ControlInv'
<1> DEFINE r == req[w]
           src == r.src
<1>1. ASSUME NEW v \in Workers, v # w
      PROVE  Control(v)'
  <2>1. pc'[v] = pc[v] /\ req'[v] = req[v] /\ open'[v] = open[v]
    BY <1>1, OthersKept
  <2>2. Control(v)
    BY DEF ControlInv
  <2> QED BY <2>1, <2>2 DEF Control
<1>2. Control(w)
  BY DEF ControlInv
<1>3. /\ DOMAIN pc = Workers /\ DOMAIN open = Workers /\ DOMAIN req = Workers
      /\ open[w] \in Opens /\ open \in [Workers -> Opens]
  BY DEF TypeOK, Opens
<1>4. pc[w] # "idle" => r \in Requests /\ src \in Paths /\ src # <<>> /\ r.op \in Ops
  BY RequestType, FilesAssumption DEF ProgressInv, Progress, Request
<1> SUFFICES Control(w)'
  BY <1>1 DEF ControlInv
<1>5. CASE Begin(w)
  <2>1. open' = open /\ pc[w] = "idle" /\ pc'[w] \in {"admit", "check"}
    BY <1>3, <1>5 DEF Begin
  <2> QED BY <1>2, <2>1 DEF Control
<1>6. CASE Admit(w) \/ Record(w) \/ Answer(w) \/ LogRequest(w)
  <2>1. /\ open' = open /\ req' = req
        /\ pc[w] \in {"admit", "record", "answer", "log"}
        /\ pc'[w] \in {"check", "answer", "log", "idle"}
    BY <1>3, <1>6 DEF Admit, Record, Answer, LogRequest, Goto
  <2> QED BY <1>2, <2>1 DEF Control
<1>7. CASE Check(w)
  <2>1. CASE Done(w, "FORBIDDEN")
    BY <2>1, DoneControl
  <2>2. CASE Goto(w, FirstStep(r.op)) /\ UNCHANGED open
    <3>1. /\ pc'[w] = FirstStep(r.op) /\ open' = open /\ req' = req /\ pc[w] = "check"
      BY <1>3, <1>7, <2>2 DEF Check, Goto
    <3>2. open[w] = Closed
      BY <1>2, <3>1 DEF Control
    <3>3. r.op \in Ops
      BY <1>4, <3>1
    <3> QED BY <3>1, <3>2, <3>3 DEF Control, FirstStep, Ops, Reading, Closed
  <2> QED BY <1>7, <2>1, <2>2 DEF Check
<1>8. CASE \/ Look(w) \/ SweepEnds(w) \/ Rename(w) \/ CopyEnds(w) \/ Write(w)
           \/ CallFails(w)
  <2>1. \E c : Done(w, c)
    BY <1>8 DEF Look, SweepEnds, Rename, CopyEnds, Write, CallFails
  <2> QED BY <2>1, DoneControl
<1>9. CASE Lookup(w) /\ ~\E c : Done(w, c)
  <2>1. PICK q \in Paths :
           /\ Prefix(q, src) /\ q # src
           /\ open' = [open EXCEPT ![w].at = Len(q) + 1]
           /\ Goto(w, "mkdir")
           /\ req' = req /\ pc[w] = "lookup"
    BY <1>9 DEF Lookup
  <2>2. /\ pc'[w] = "mkdir" /\ open'[w] = [open[w] EXCEPT !.at = Len(q) + 1]
    BY <1>3, <2>1 DEF Goto
  <2>3. Len(q) + 1 \in 1..Len(src)
    <3>1. src \in Paths /\ q \in Seq(STRING) /\ src \in Seq(STRING)
      BY <1>4, <2>1, FilesAssumption
    <3>2. Len(q) <= Len(src) /\ Len(q) # Len(src)
      BY <2>1, <3>1, PrefixIs, SeqEqual
    <3> QED BY <3>1, <3>2
  <2>4. open[w].out = NoFile /\ r.op = "mkdir"
    BY <1>2, <2>1 DEF Control, Closed
  <2>5. open'[w].at = Len(q) + 1 /\ open'[w].out = NoFile
    BY <1>3, <2>2, <2>4 DEF Opens
  <2> QED BY <2>1, <2>2, <2>3, <2>4, <2>5 DEF Control
<1>10. CASE Mkdir(w) /\ ~\E c : Done(w, c)
  <2>1. /\ open' = [open EXCEPT ![w].at = @ + 1] /\ pc' = pc /\ req' = req
        /\ pc[w] = "mkdir" /\ SubSeq(src, 1, open[w].at) # src
    BY <1>10 DEF Mkdir
  <2>2. open'[w].at = open[w].at + 1 /\ open'[w].out = open[w].out
    BY <1>3, <2>1 DEF Opens
  <2>3. open[w].at \in 1..Len(src)
    BY <1>2, <2>1 DEF Control
  <2>4. open[w].at # Len(src)
    <3>1. src \in Seq(STRING)
      BY <1>4, <2>1, FilesAssumption
    <3> QED BY <1>4, <2>1, <2>3, <3>1, FirstNames
  <2>5. open[w].at + 1 \in 1..Len(src)
    <3>1. src \in Seq(STRING)
      BY <1>4, <2>1, FilesAssumption
    <3> QED BY <2>3, <2>4, <3>1
  <2> QED BY <1>2, <2>1, <2>2, <2>5 DEF Control
<1>11. CASE Remove(w) /\ ~\E c : Done(w, c)
  <2>1. /\ open' = [open EXCEPT ![w].todo = Children(src)] /\ Goto(w, "sweep")
        /\ req' = req /\ pc[w] = "remove" /\ r.recursive
    BY <1>11 DEF Remove
  <2>2. pc'[w] = "sweep" /\ open'[w].out = open[w].out /\ open'[w].todo = Children(src)
    BY <1>3, <2>1 DEF Opens, Goto
  <2>3. Children(src) \subseteq Under(src) \ {<<>>}
    BY <1>4, <2>1, PrefixOrder DEF Children, Under
  <2>4. open[w].out = NoFile /\ r.op = "remove"
    BY <1>2, <2>1 DEF Control, Closed
  <2> QED BY <2>1, <2>2, <2>3, <2>4 DEF Control
<1>12. CASE Sweep(w)
  <2>1. PICK q : open' = [open EXCEPT ![w].todo = @ \ {q}]
    BY <1>12 DEF Sweep
  <2>2. /\ pc' = pc /\ req' = req /\ pc[w] = "sweep"
    BY <1>12 DEF Sweep
  <2>3. open'[w].out = open[w].out /\ open'[w].todo \subseteq open[w].todo
    BY <1>3, <2>1 DEF Opens
  <2> QED BY <1>2, <2>2, <2>3 DEF Control
<1>13. CASE OpenSource(w) /\ ~\E c : Done(w, c)
  <2>1. /\ open' = [open EXCEPT ![w].in = node[src]] /\ Goto(w, "create")
        /\ req' = req /\ pc[w] = "source"
    BY <1>13 DEF OpenSource
  <2>2. /\ pc'[w] = "create" /\ open'[w].out = open[w].out
        /\ open'[w].at = open[w].at
    BY <1>3, <2>1 DEF Opens, Goto
  <2>3. open[w].out = NoFile /\ open[w].at = 0 /\ r.op = "copy"
    BY <1>2, <2>1 DEF Control, Closed
  <2> QED BY <2>1, <2>2, <2>3 DEF Control
<1>14. CASE Create(w) /\ ~\E c : Done(w, c)
  <2>1. /\ Goto(w, IF r.op = "copy" THEN "copy" ELSE "write") /\ req' = req
        /\ pc[w] = "create"
    BY <1>14 DEF Create
  <2>2. /\ pc'[w] = IF r.op = "copy" THEN "copy" ELSE "write"
        /\ r.op \in {"copy", "write"}
    BY <1>2, <1>3, <2>1 DEF Goto, Control
  <2> QED BY <2>1, <2>2 DEF Control
<1>15. CASE CopyBlock(w)
  <2>1. pc' = pc /\ req' = req /\ pc[w] = "copy"
    BY <1>15 DEF CopyBlock
  <2> QED BY <1>2, <2>1 DEF Control
<1>16. CASE \E c : Done(w, c)
  BY <1>16, DoneControl
<1> QED BY <1>5, <1>6, <1>7, <1>8, <1>9, <1>10, <1>11, <1>12, <1>13, <1>14, <1>15,
           <1>16 DEF Run, Operate

(* What a step leaves of the tree of a request. *)
Spared(w) ==
    /\ \A p \in Scope(req[w]) :
          node'[p] = node[p] /\ Tree'[p] = Tree[p] /\ (IsFile(p)' <=> IsFile(p))
    /\ \A q \in Above(req[w]) :
          node'[q] = node[q] \/ (node[q] = Absent /\ node'[q] = Dir)

(* What is spared is there before a step and after it. *)
LEMMA SparedSame ==
    ASSUME node' = node, content' = content, NEW w \in Workers
    PROVE  Spared(w)
  BY DEF Spared, Tree, IsFile

(* What is known of the outcome of a request stays so. *)
LEMMA OutcomeKept ==
    ASSUME TypeOK, NEW w \in Workers, req[w] \in Requests, Outcome(w), Spared(w),
           req'[w] = req[w], was'[w] = was[w], code'[w] = code[w]
    PROVE  Outcome(w)'
<1> DEFINE r == req[w]
           src == r.src
           dst == r.dst
<1>1. /\ Scope(r) \subseteq Paths /\ Touched(r) \subseteq Scope(r)
      /\ Touched(r) \subseteq Paths
      /\ Under(src) \subseteq Scope(r) /\ src \in Under(src) /\ src \in Scope(r)
      /\ r.op \in {"move", "copy"} => dst \in Scope(r)
      /\ \A p \in Paths : p \in Scope(r) <=> \E t \in Touched(r) : Prefix(t, p)
      /\ src \in Paths /\ dst \in Paths /\ r.op \in Ops
  BY InScope, RequestType DEF Request
<1>2. \A p \in Scope(r) : Tree'[p] = Tree[p]
  BY DEF Spared
<1>3. ASSUME NEW S, S \subseteq Scope(r), Kept(w, S)
      PROVE  Kept(w, S)'
  BY <1>2, <1>3 DEF Kept
<1>4. CASE code[w] = ""
  <2>1. /\ Promised(w)
        /\ r.op = "move" /\ src # dst => ~Prefix(src, dst)
    BY <1>4 DEF Outcome
  <2>2. CASE r.op \in Reading
    <3>1. was[w][src] # Absent /\ Kept(w, Under(src))
      BY <2>1, <2>2 DEF Promised, Reading
    <3>2. Kept(w, Under(src))'
      BY <1>1, <1>3, <3>1
    <3>3. Promised(w)'
      BY <2>2, <3>1, <3>2 DEF Promised, Reading
    <3> QED BY <1>4, <2>1, <3>3 DEF Outcome
  <2>3. CASE r.op = "mkdir"
    <3>1. /\ \A q \in Paths : Prefix(q, src) => Tree[q] = Dir
          /\ Kept(w, Under(src) \ {src})
      BY <2>1, <2>3 DEF Promised, Reading
    <3>2. Kept(w, Under(src) \ {src})'
      BY <1>1, <1>3, <3>1
    <3>3. ASSUME NEW q \in Paths, Prefix(q, src)
          PROVE  Tree'[q] = Dir
      <4>1. q \in Above(r)
        BY <1>1, <3>3 DEF Above, Touched
      <4>2. Tree[q] = Dir
        BY <3>1, <3>3
      <4>3. node[q] = Dir
        BY <4>2, TreeType
      <4>4. node'[q] = Dir
        BY <4>1, <4>3 DEF Spared
      <4> QED BY <4>4, FilesAssumption DEF Tree, IsFile
    <3>4. Promised(w)'
      BY <2>3, <3>2, <3>3 DEF Promised, Reading
    <3> QED BY <1>4, <2>1, <3>4 DEF Outcome
  <2>4. CASE r.op = "write"
    <3>1. Promised(w)'
      BY <1>1, <1>2, <2>1, <2>4 DEF Promised, Reading
    <3> QED BY <1>4, <2>1, <3>1 DEF Outcome
  <2>5. CASE r.op = "remove"
    <3>1. Promised(w)'
      BY <1>1, <1>2, <2>1, <2>5 DEF Promised, Reading
    <3> QED BY <1>4, <2>1, <3>1 DEF Outcome
  <2>6. CASE r.op = "move"
    <3>1. CASE src = dst
      <4>1. was[w][src] # Absent /\ Kept(w, Under(src))
        BY <2>1, <2>6, <3>1 DEF Promised, Reading
      <4>2. Kept(w, Under(src))'
        BY <1>1, <1>3, <4>1
      <4>3. Promised(w)'
        BY <2>6, <3>1, <4>1, <4>2 DEF Promised, Reading
      <4> QED BY <1>4, <2>1, <4>3 DEF Outcome
    <3>2. CASE src # dst
      <4>1. /\ was[w][src] # Absent
            /\ \A p \in Under(src) :
                  Tree[p] = Absent /\ Tree[Moved(p, src, dst)] = was[w][p]
        BY <2>1, <2>6, <3>2 DEF Promised, Reading
      <4>2. ASSUME NEW p \in Under(src)
            PROVE  Tree'[p] = Tree[p] /\ Tree'[Moved(p, src, dst)] = Tree[Moved(p, src, dst)]
        <5>1. p \in Paths /\ Prefix(src, p) /\ Moved(p, src, dst) \in Paths
          BY <2>1, <2>6, <3>2, FilesAssumption DEF Under
        <5>2. Prefix(dst, Moved(p, src, dst))
          BY <1>1, <5>1, MovedBack
        <5>3. dst \in Touched(r)
          BY <2>6 DEF Touched
        <5>4. Moved(p, src, dst) \in Scope(r) /\ p \in Scope(r)
          BY <1>1, <5>1, <5>2, <5>3
        <5> QED BY <1>2, <5>4
      <4>3. Promised(w)'
        BY <2>6, <3>2, <4>1, <4>2 DEF Promised, Reading
      <4> QED BY <1>4, <2>1, <4>3 DEF Outcome
    <3> QED BY <3>1, <3>2
  <2>7. CASE r.op = "copy"
    <3>1. Promised(w)'
      BY <1>1, <1>2, <2>1, <2>7 DEF Promised, Reading
    <3> QED BY <1>4, <2>1, <3>1 DEF Outcome
  <2> QED BY <1>1, <2>2, <2>3, <2>4, <2>5, <2>6, <2>7 DEF Ops, Reading
<1>5. CASE code[w] # ""
  <2>1. Damage(w) /\ (code[w] = "NOT_FOUND" => Missing(w))
    BY <1>5 DEF Outcome
  <2>2. Missing(w)' <=> Missing(w)
    BY DEF Missing
  <2>3. Damage(w)'
    <3>1. CASE r.op = "write"
      <4>1. Kept(w, Scope(r) \ {src})
        BY <2>1, <3>1 DEF Damage, Scope
      <4>2. Kept(w, Scope(r) \ {src})'
        BY <1>3, <4>1
      <4> QED BY <1>1, <1>2, <2>1, <3>1, <4>2 DEF Damage, Scope
    <3>2. CASE r.op = "copy"
      <4>1. Kept(w, Scope(r) \ {dst})
        BY <2>1, <3>2 DEF Damage, Scope
      <4>2. Kept(w, Scope(r) \ {dst})'
        BY <1>3, <4>1
      <4> QED BY <1>1, <1>2, <2>1, <3>2, <4>2 DEF Damage, Scope
    <3>3. CASE r.op = "remove" /\ r.recursive
      <4>1. \A p \in Scope(r) : Tree[p] \in {was[w][p], Absent}
        BY <2>1, <3>3 DEF Damage, Scope
      <4>2. \A p \in Scope(r) : Tree'[p] \in {was'[w][p], Absent}
        BY <1>2, <4>1
      <4> QED BY <3>3, <4>2 DEF Damage, Scope
    <3>4. CASE r.op \notin {"write", "copy"} /\ ~(r.op = "remove" /\ r.recursive)
      <4>1. Kept(w, Scope(r))
        BY <2>1, <3>4 DEF Damage, Scope
      <4>2. Kept(w, Scope(r))'
        BY <1>3, <4>1
      <4> QED BY <3>4, <4>2 DEF Damage, Scope
    <3> QED BY <3>1, <3>2, <3>3, <3>4
  <2> QED BY <1>5, <2>1, <2>2, <2>3 DEF Outcome
<1> QED BY <1>4, <1>5

(* What is known of an operation under way stays so. *)
LEMMA StageKept ==
    ASSUME TypeOK, ProgressInv, NEW w \in Workers, Known(w), Control(w), Stage(w), Spared(w),
           req'[w] = req[w], was'[w] = was[w], code'[w] = code[w],
           open'[w] = open[w], pc'[w] = pc[w]
    PROVE  Stage(w)'
<1> DEFINE r == req[w]
           src == r.src
           dst == r.dst
<1>1. r \in Requests
  BY DEF Known, Busy, ProgressInv, Progress
<1>2. /\ Scope(r) \subseteq Paths /\ Touched(r) \subseteq Scope(r)
      /\ Under(src) \subseteq Scope(r) /\ src \in Scope(r) /\ src \in Touched(r)
      /\ r.op \in {"move", "copy"} => dst \in Scope(r)
  BY <1>1, InScope
<1>3. /\ \A p \in Scope(r) : /\ Tree'[p] = Tree[p] /\ node'[p] = node[p]
                             /\ IsFile(p)' <=> IsFile(p)
      /\ \A q \in Above(r) : node'[q] = node[q] \/ (node[q] = Absent /\ node'[q] = Dir)
  BY DEF Spared
<1>4. ASSUME NEW S, S \subseteq Scope(r), Kept(w, S)
      PROVE  Kept(w, S)'
  BY <1>3, <1>4 DEF Kept
<1>5. Untouched(w) => Untouched(w)'
  <2> SUFFICES ASSUME Untouched(w) PROVE Untouched(w)'
    OBVIOUS
  <2>1. Kept(w, Scope(r))'
    BY <1>4 DEF Untouched
  <2>2. \A q \in Above(r) : node'[q] = Absent => was'[w][q] = Absent
    BY <1>3, FilesAssumption DEF Untouched
  <2> QED BY <2>1, <2>2 DEF Untouched
<1>6. Making(w) => Making(w)'
  <2> SUFFICES ASSUME Making(w), NEW q \in Paths, Prefix(q, src), Len(q) < open[w].at
               PROVE  node'[q] = Dir
    BY DEF Making
  <2>1. q \in Above(r) /\ node[q] = Dir
    BY <1>2 DEF Above, Making
  <2> QED BY <1>3, <2>1
<1>7. Sweeping(w) => Sweeping(w)'
  BY <1>2, <1>3 DEF Sweeping
<1>8. r.op = "copy" /\ Copying(w) => Copying(w)'
  <2> SUFFICES ASSUME r.op = "copy", Copying(w) PROVE Copying(w)'
    OBVIOUS
  <2>1. Kept(w, Scope(r) \ {dst})'
    BY <1>4 DEF Copying
  <2> QED BY <1>2, <1>3, <2>1 DEF Copying
<1>9. Writing(w) => Writing(w)'
  <2> SUFFICES ASSUME Writing(w) PROVE Writing(w)'
    OBVIOUS
  <2>1. Kept(w, Scope(r) \ {src})'
    BY <1>4 DEF Writing
  <2> QED BY <1>2, <1>3, <2>1 DEF Writing
<1>10. Outcome(w) => Outcome(w)'
  BY <1>1, OutcomeKept
<1> QED BY <1>2, <1>3, <1>5, <1>6, <1>7, <1>8, <1>9, <1>10 DEF Stage, Control

(* What is known of a worker whose request has met no other. *)
LEMMA KnownIs ==
    ASSUME TypeOK, ProgressInv, NEW w \in Workers, Known(w)
    PROVE  LET r == req[w]
           IN  /\ r \in Requests /\ r.op \in Ops /\ pc[w] # "idle"
               /\ r.src \in Paths /\ r.dst \in Paths /\ r.src # <<>> /\ r.dst # <<>>
               /\ r.data \in Seq(Nat)
               /\ DOMAIN pc = Workers /\ DOMAIN open = Workers /\ DOMAIN code = Workers
               /\ open[w] \in Opens
               /\ Dir # Absent /\ Dir \notin Inodes /\ Absent \notin Inodes
  BY RequestType, FilesAssumption
     DEF Known, Busy, ProgressInv, Progress, Request, TypeOK, Opens

(* An untouched scope is no damage, and what is not there was not. *)
LEMMA UntouchedIs ==
    ASSUME TypeOK, NEW w \in Workers, req[w] \in Requests, Untouched(w)
    PROVE  /\ Damage(w) /\ Kept(w, Scope(req[w])) /\ Kept(w, Under(req[w].src))
           /\ Tree[req[w].src] = was[w][req[w].src]
           /\ node[req[w].src] = Absent => Missing(w)
           /\ req[w].op \in {"move", "copy"} =>
                 /\ Tree[req[w].dst] = was[w][req[w].dst]
                 /\ node[Parent(req[w].dst)] = Absent => Missing(w)
                 /\ LookupError(req[w].dst) = "NOT_FOUND" /\ node[Parent(req[w].dst)] # Dir
                       => Missing(w)
<1> DEFINE r == req[w]
<1>1. /\ Touched(r) \subseteq Scope(r) /\ Under(r.src) \subseteq Scope(r)
      /\ r.src \in Touched(r) /\ Touched(r) \subseteq Above(r)
      /\ r.op \in {"move", "copy"} => r.dst \in Touched(r)
      /\ r.dst \in Paths /\ r.dst # <<>> /\ r.src \in Paths
  BY InScope, RequestType, FilesAssumption
<1>2. \A p \in Scope(r) : Tree[p] = was[w][p]
  BY DEF Untouched, Kept
<1>3. \A q \in Above(r) : node[q] = Absent => was[w][q] = Absent
  BY DEF Untouched
<1>4. Kept(w, Under(r.src))
  BY <1>1, <1>2 DEF Kept
<1>5. Damage(w)
  <2>1. Kept(w, Scope(r)) /\ Kept(w, Scope(r) \ {r.src}) /\ Kept(w, Scope(r) \ {r.dst})
    BY <1>2 DEF Kept
  <2>2. r.op = "write" => Damage(w)
    BY <1>1, <1>2, <2>1 DEF Damage, Scope
  <2>3. r.op = "copy" => Damage(w)
    BY <1>1, <1>2, <2>1 DEF Damage, Scope
  <2>4. r.op = "remove" /\ r.recursive => Damage(w)
    BY <1>2 DEF Damage, Scope
  <2>5. r.op \notin {"write", "copy"} /\ ~(r.op = "remove" /\ r.recursive) => Damage(w)
    BY <2>1 DEF Damage, Scope
  <2> QED BY <2>2, <2>3, <2>4, <2>5
<1>6. r.op \in {"move", "copy"} => Parent(r.dst) \in Above(r)
  BY <1>1, ParentNext DEF Above
<1>7. node[r.src] = Absent => Missing(w)
  BY <1>1, <1>3 DEF Missing
<1>8. r.op \in {"move", "copy"} /\ node[Parent(r.dst)] = Absent => Missing(w)
  BY <1>3, <1>6 DEF Missing
<1>9. ASSUME r.op \in {"move", "copy"}, node[Parent(r.dst)] # Dir,
             LookupError(r.dst) = "NOT_FOUND"
      PROVE  Missing(w)
  <2>1. node[Parent(r.dst)] = Absent
    BY <1>1, <1>9, LookupErrorIs
  <2> QED BY <1>8, <1>9, <2>1
<1> QED BY <1>1, <1>2, <1>4, <1>5, <1>7, <1>8, <1>9 DEF Untouched

(* An untouched scope stays so. *)
LEMMA UntouchedKept ==
    ASSUME NEW w \in Workers, Untouched(w), Spared(w),
           req'[w] = req[w], was'[w] = was[w]
    PROVE  Untouched(w)'
<1>1. Kept(w, Scope(req[w]))'
  BY DEF Untouched, Kept, Spared
<1>2. \A q \in Above(req[w]) : node'[q] = Absent => was'[w][q] = Absent
  BY FilesAssumption DEF Untouched, Spared
<1> QED BY <1>1, <1>2 DEF Untouched

(* Where an operation ends. *)
LEMMA Ends ==
    ASSUME TypeOK, NEW w \in Workers, NEW c, Done(w, c), Stage(w),
           req'[w] = req[w], was'[w] = was[w],
           c = "" => /\ Promised(w)'
                     /\ req[w].op = "move" /\ req[w].src # req[w].dst
                           => ~Prefix(req[w].src, req[w].dst),
           c # "" => Damage(w)' /\ (c = "NOT_FOUND" => Missing(w))
    PROVE  Stage(w)'
<1>1. pc'[w] \in {"answer", "record"} /\ code'[w] = c
  BY DoneControl
<1>2. Missing(w)' <=> Missing(w)
  BY DEF Missing
<1>3. Outcome(w)'
  BY <1>1, <1>2 DEF Outcome
<1> QED BY <1>1, <1>3 DEF Stage

(* An operation that fails before it has done anything. *)
LEMMA Fails ==
    ASSUME TypeOK, NEW w \in Workers, NEW c, Done(w, c), Stage(w), req[w] \in Requests,
           req' = req, was' = was, node' = node, content' = content, Untouched(w),
           c # "", c = "NOT_FOUND" => Missing(w)
    PROVE  Stage(w)'
<1>1. Damage(w)
  BY UntouchedIs
<1>2. Damage(w)'
  BY <1>1 DEF Damage, Kept, Tree, IsFile
<1> QED BY <1>2, Ends

(* Admitting and checking change nothing, and refuse for other reasons than  *)
(* that something is missing.                                              *)
LEMMA AdmitStage ==
    ASSUME TypeOK, ProgressInv, NEW w \in Workers, Known(w), Control(w), Stage(w),
           Admit(w) \/ Check(w)
    PROVE  Stage(w)'
<1> DEFINE r == req[w]
<1>1. /\ r \in Requests /\ r.op \in Ops /\ DOMAIN pc = Workers /\ DOMAIN code = Workers
  BY KnownIs
<1>2. /\ req' = req /\ was' = was /\ node' = node /\ content' = content
      /\ pc[w] \in {"admit", "check"}
  BY DEF Admit, Check, tree
<1>3. Untouched(w) /\ Spared(w)
  BY <1>2, SparedSame DEF Stage
<1>4. Untouched(w)'
  BY <1>2, <1>3, UntouchedKept
<1>5. CASE Admit(w) /\ Refusal(r) # ""
  <2>1. /\ pc'[w] = "answer" /\ code'[w] = Refusal(r)
    BY <1>1, <1>5 DEF Admit, Goto
  <2>2. Refusal(r) # "NOT_FOUND"
    BY DEF Refusal
  <2>3. Damage(w)'
    <3>1. Damage(w)
      BY <1>1, <1>3, UntouchedIs
    <3> QED BY <1>2, <3>1 DEF Damage, Kept, Tree, IsFile
  <2>4. Outcome(w)'
    BY <1>5, <2>1, <2>2, <2>3 DEF Outcome
  <2> QED BY <1>2, <2>1, <2>4 DEF Stage
<1>6. CASE Admit(w) /\ Refusal(r) = ""
  <2>1. pc'[w] = "check"
    BY <1>1, <1>6 DEF Admit, Goto
  <2> QED BY <1>2, <1>4, <2>1 DEF Stage
<1>7. CASE Check(w) /\ Done(w, "FORBIDDEN")
  BY <1>1, <1>2, <1>3, <1>7, Fails
<1>8. CASE Check(w) /\ Goto(w, FirstStep(r.op))
  <2>1. pc'[w] = FirstStep(r.op) /\ req'[w].op = r.op
    BY <1>1, <1>2, <1>8 DEF Goto
  <2>2. /\ FirstStep(r.op) \in {"look", "lookup", "remove", "move", "source", "create"}
        /\ FirstStep(r.op) = "create" => r.op # "copy"
    BY <1>1 DEF FirstStep, Ops, Reading
  <2> QED BY <1>2, <1>4, <2>1, <2>2 DEF Stage
<1> QED BY <1>5, <1>6, <1>7, <1>8 DEF Check

(* Looking finds what was there. *)
LEMMA LookStage ==
    ASSUME TypeOK, ProgressInv, NEW w \in Workers, Known(w), Control(w), Stage(w), Look(w)
    PROVE  Stage(w)'
<1> DEFINE r == req[w]
           src == r.src
           c == IF node[src] = Absent THEN LookupError(src)
                ELSE IF r.op = "list" /\ IsFile(src) THEN "INTERNAL"
                ELSE IF r.op = "read" /\ node[src] = Dir THEN "INTERNAL"
                ELSE ""
<1>1. r \in Requests /\ src \in Paths /\ src # <<>>
  BY KnownIs
<1>2. /\ req' = req /\ was' = was /\ node' = node /\ content' = content
      /\ pc[w] = "look" /\ Done(w, c)
  BY DEF Look, tree
<1>3. Untouched(w) /\ r.op \in Reading
  BY <1>2 DEF Stage, Control
<1>4. LookupError(src) \in {"INTERNAL", "NOT_FOUND"}
  BY <1>1, LookupErrorIs
<1>5. CASE c = ""
  <2>1. node[src] # Absent
    BY <1>4, <1>5
  <2>2. was[w][src] # Absent
    BY <1>1, <1>3, <2>1, TreeType, UntouchedIs
  <2>3. Kept(w, Under(src))
    BY <1>1, <1>3, UntouchedIs
  <2>4. Promised(w)'
    <3>1. Kept(w, Under(src))'
      BY <1>2, <2>3 DEF Kept, Tree, IsFile
    <3> QED BY <1>2, <1>3, <2>2, <3>1 DEF Promised, Reading
  <2> HIDE DEF c
  <2> QED BY <1>2, <1>3, <1>5, <2>4, Ends DEF Reading
<1>6. CASE c # ""
  <2>1. c = "NOT_FOUND" => Missing(w)
    BY <1>1, <1>3, UntouchedIs
  <2> HIDE DEF c
  <2> QED BY <1>1, <1>2, <1>3, <1>6, <2>1, Fails
<1> QED BY <1>5, <1>6

(* The record and the answer come after. *)
LEMMA AnswerStage ==
    ASSUME TypeOK, ProgressInv, NEW w \in Workers, Known(w), Stage(w),
           Record(w) \/ Answer(w) \/ LogRequest(w)
    PROVE  Stage(w)'
<1>1. req[w] \in Requests /\ DOMAIN pc = Workers
  BY KnownIs
<1>2. /\ req' = req /\ was' = was /\ node' = node /\ content' = content /\ code' = code
      /\ pc[w] \in {"record", "answer", "log"} /\ pc'[w] \in {"answer", "log", "idle"}
  BY <1>1 DEF Record, Answer, LogRequest, tree, Goto
<1>3. Outcome(w)'
  BY <1>1, <1>2, OutcomeKept, SparedSame DEF Stage
<1> QED BY <1>2, <1>3 DEF Stage

(* MkdirAll finds what is there, *)
LEMMA LookupStage ==
    ASSUME TypeOK, ProgressInv, Proper, NEW w \in Workers, Known(w), Control(w),
           Stage(w), Lookup(w)
    PROVE  Stage(w)'
<1> DEFINE r == req[w]
           src == r.src
<1>1. /\ r \in Requests /\ src \in Paths /\ src # <<>>
      /\ DOMAIN pc = Workers /\ DOMAIN open = Workers /\ open[w] \in Opens
  BY KnownIs
<1>2. /\ req' = req /\ was' = was /\ node' = node /\ content' = content
      /\ pc[w] = "lookup"
  BY DEF Lookup, tree
<1>3. Untouched(w) /\ r.op = "mkdir" /\ Spared(w)
  BY <1>2, SparedSame DEF Stage, Control
<1>4. PICK q \in Paths :
         /\ Prefix(q, src) /\ node[q] # Absent
         /\ IF node[q] = Dir /\ q # src
            THEN /\ open' = [open EXCEPT ![w].at = Len(q) + 1]
                 /\ Goto(w, "mkdir")
            ELSE Done(w, IF node[q] = Dir THEN "" ELSE "INTERNAL")
  BY DEF Lookup
<1>5. \A p \in Paths : Prefix(p, q) /\ node[q] = Dir => node[p] = Dir
  BY <1>1, <1>4, ProperUse
<1>6. CASE node[q] = Dir /\ q # src
  <2>1. pc'[w] = "mkdir" /\ open'[w].at = Len(q) + 1
    BY <1>1, <1>4, <1>6 DEF Goto, Opens
  <2>2. Making(w)'
    <3> SUFFICES ASSUME NEW p \in Paths, Prefix(p, src), Len(p) < Len(q) + 1
                 PROVE  node[p] = Dir
      BY <1>2, <2>1 DEF Making
    <3>1. /\ Len(p) \in Nat /\ Len(q) \in Nat
          /\ Prefix(q, p) => Len(q) <= Len(p)
          /\ Prefix(q, p) /\ Len(p) <= Len(q) => q = p
      BY <1>4, PrefixLength
    <3>2. Len(p) <= Len(q)
      BY <3>1
    <3>3. Prefix(p, q)
      BY <1>1, <1>4, <3>1, <3>2, PrefixOrder
    <3> QED BY <1>5, <1>6, <3>3
  <2>3. Untouched(w)'
    BY <1>2, <1>3, UntouchedKept
  <2> QED BY <1>2, <2>1, <2>2, <2>3 DEF Stage
<1>7. CASE node[q] = Dir /\ q = src
  <2>1. Done(w, "")
    BY <1>4, <1>7
  <2>2. Promised(w)'
    <3>1. \A p \in Paths : Prefix(p, src) => Tree'[p] = Dir
      BY <1>2, <1>5, <1>7, FilesAssumption DEF Tree, IsFile
    <3>2. Kept(w, Under(src) \ {src})'
      <4>1. Kept(w, Under(src))
        BY <1>1, <1>3, UntouchedIs
      <4> QED BY <1>2, <4>1 DEF Kept, Tree, IsFile
    <3> QED BY <1>2, <1>3, <3>1, <3>2 DEF Promised, Reading
  <2> QED BY <1>2, <1>3, <2>1, <2>2, Ends
<1>8. CASE node[q] # Dir
  <2>1. Done(w, "INTERNAL")
    BY <1>4, <1>8
  <2> QED BY <1>1, <1>2, <1>3, <2>1, Fails
<1> QED BY <1>6, <1>7, <1>8

(* and makes the directories that are missing, the last one as promised.   *)
LEMMA MkdirStage ==
    ASSUME TypeOK, ProgressInv, Proper, NEW w \in Workers, Known(w), Control(w),
           Stage(w), Mkdir(w)
    PROVE  Stage(w)'
<1> DEFINE r == req[w]
           src == r.src
           n == open[w].at
           q == SubSeq(src, 1, n)
<1>1. /\ r \in Requests /\ src \in Paths /\ src # <<>>
      /\ DOMAIN pc = Workers /\ DOMAIN open = Workers /\ open[w] \in Opens
      /\ Dir # Absent /\ Dir \notin Inodes
  BY KnownIs
<1>2. req' = req /\ was' = was /\ content' = content /\ pc[w] = "mkdir"
  BY DEF Mkdir
<1>3. /\ Untouched(w) /\ Making(w) /\ r.op = "mkdir" /\ n \in 1..Len(src)
      /\ Touched(r) = {src}
  BY <1>2 DEF Stage, Control, Touched
<1>4. /\ q \in Paths /\ Prefix(q, src) /\ Len(q) = n
      /\ n = Len(src) <=> q = src
      /\ \A p \in Paths : Prefix(p, src) /\ Len(p) = n => p = q
  <2>1. n \in 0..Len(src)
    BY <1>3
  <2> QED BY <1>1, <2>1, FirstNames
<1>5. CASE Done(w, "INTERNAL") /\ node' = node
  BY <1>1, <1>2, <1>3, <1>5, Fails
<1>6. CASE ~(Done(w, "INTERNAL") /\ node' = node)
  <2>1. /\ node' = [node EXCEPT ![q] = Dir] /\ node[q] \in {Absent, Dir}
        /\ IF q = src THEN Done(w, "")
           ELSE open' = [open EXCEPT ![w].at = @ + 1] /\ pc' = pc
    BY <1>6 DEF Mkdir
  <2> HIDE DEF q
  <2>2. /\ node'[q] = Dir /\ \A p \in Paths \ {q} : node'[p] = node[p]
    <3>1. node \in [Paths -> Inodes \cup {Absent, Dir}]
      BY DEF TypeOK
    <3>2. q \in Paths
      BY <1>4 DEF q
    <3> QED BY <2>1, <3>1, <3>2
  <2>3. /\ Tree'[q] = Dir
        /\ \A p \in Paths \ {q} : Tree'[p] = Tree[p] /\ (IsFile(p)' <=> IsFile(p))
    BY <1>1, <1>2, <1>4, <2>2 DEF Tree, IsFile
  <2>4. \A p \in Paths : Prefix(p, src) /\ Len(p) < n => p # q /\ node'[p] = Dir
    <3> TAKE p \in Paths
    <3>1. Prefix(p, src) /\ Len(p) < n => node[p] = Dir
      BY <1>3 DEF Making
    <3> QED BY <1>4, <2>2, <3>1
  <2>5. \A p \in Paths : Len(p) \in Nat /\ (Prefix(p, src) => Len(p) <= Len(src))
    BY <1>1, PrefixLength
  <2>6. \A p \in Paths : Prefix(p, src) /\ Len(p) < n + 1 => node'[p] = Dir
    <3> SUFFICES ASSUME NEW p \in Paths, Prefix(p, src), Len(p) < n + 1
                 PROVE  node'[p] = Dir
      OBVIOUS
    <3>1. Len(p) < n \/ Len(p) = n
      BY <1>3, <2>5
    <3> QED BY <1>4, <2>2, <2>4, <3>1
  <2>7. CASE q = src
    <3>1. Done(w, "")
      BY <2>1, <2>7
    <3>2. \A p \in Paths : Prefix(p, src) => node'[p] = Dir
      BY <1>3, <1>4, <2>5, <2>6, <2>7
    <3>3. Promised(w)'
      <4>1. \A p \in Paths : Prefix(p, src) => Tree'[p] = Dir
        BY <1>1, <3>2 DEF Tree, IsFile
      <4>2. Kept(w, Under(src) \ {src})'
        <5>1. Kept(w, Under(src))
          BY <1>1, <1>3, UntouchedIs
        <5> QED BY <1>2, <2>3, <2>7, <5>1 DEF Kept, Under
      <4> QED BY <1>2, <1>3, <4>1, <4>2 DEF Promised, Reading
    <3> QED BY <1>2, <1>3, <3>1, <3>3, Ends
  <2>8. CASE q # src
    <3>1. pc' = pc /\ open'[w].at = n + 1
      BY <1>1, <2>1, <2>8 DEF Opens
    <3>2. Making(w)'
      BY <1>2, <2>6, <3>1 DEF Making
    <3>3. q \notin Scope(r)
      BY <1>1, <1>3, <1>4, <2>8, InScope, PrefixOrder
    <3>4. Spared(w)
      <4>1. Scope(r) \subseteq Paths /\ Above(r) \subseteq Paths
        BY <1>1, InScope DEF Above
      <4>2. node[q] = Dir => node'[q] = node[q]
        BY <2>2
      <4> QED BY <2>1, <2>2, <2>3, <3>3, <4>1, <4>2 DEF Spared
    <3>5. Untouched(w)'
      BY <1>2, <1>3, <3>4, UntouchedKept
    <3> QED BY <1>2, <3>1, <3>2, <3>5 DEF Stage
  <2> QED BY <2>7, <2>8
<1> QED BY <1>5, <1>6

(* What is left when an entry is taken away. *)
LEMMA TakenTree ==
    ASSUME TypeOK, NEW q \in Paths, node' = [node EXCEPT ![q] = Absent],
           content' = content
    PROVE  /\ Tree'[q] = Absent
           /\ \A p \in Paths \ {q} : Tree'[p] = Tree[p]
<1>1. node'[q] = Absent /\ \A p \in Paths \ {q} : node'[p] = node[p]
  BY DEF TypeOK
<1> QED BY <1>1, FilesAssumption DEF Tree, IsFile

(* A removal that ends well leaves nothing. *)
LEMMA Removed ==
    ASSUME TypeOK, ProgressInv, Proper, NEW w \in Workers, Known(w), Stage(w),
           req' = req, was' = was, content' = content, req[w].op = "remove",
           Done(w, ""),
           \/ node[req[w].src] = Absent /\ node' = node
           \/ /\ node[req[w].src] = Absent \/ Removable(req[w].src)
              /\ node' = [node EXCEPT ![req[w].src] = Absent],
           was[w][req[w].src] = Absent => req[w].recursive
    PROVE  Stage(w)'
<1> DEFINE src == req[w].src
<1>1. src \in Paths /\ src # <<>>
  BY KnownIs
<1>2. \A p \in Under(src) : node'[p] = Absent
  <2>1. \A p \in Paths : Prefix(src, p) /\ p # src => node[p] = Absent
    BY <1>1, ProperUse
  <2>2. node'[src] = Absent /\ \A p \in Paths \ {src} : node'[p] = node[p]
    <3>1. DOMAIN node = Paths
      BY DEF TypeOK
    <3> QED BY <1>1, <3>1
  <2> QED BY <2>1, <2>2 DEF Under
<1>3. \A p \in Under(src) : Tree'[p] = Absent
  BY <1>2, FilesAssumption DEF Tree, IsFile, Under
<1>4. Promised(w)'
  BY <1>3 DEF Promised, Reading
<1> QED BY <1>4, Ends

(* Removing a file or an empty directory takes it away at once; a directory *)
(* with something in it is left, or swept.                                 *)
LEMMA RemoveStage ==
    ASSUME TypeOK, ProgressInv, Proper, NEW w \in Workers, Known(w), Control(w),
           Stage(w), Remove(w)
    PROVE  Stage(w)'
<1> DEFINE r == req[w]
           src == r.src
<1>1. /\ r \in Requests /\ src \in Paths /\ src # <<>>
      /\ DOMAIN pc = Workers /\ DOMAIN open = Workers /\ open[w] \in Opens
      /\ Dir # Absent /\ Absent \notin Inodes
  BY KnownIs
<1>2. req' = req /\ was' = was /\ content' = content /\ pc[w] = "remove"
  BY DEF Remove
<1>3. Untouched(w) /\ r.op = "remove"
  BY <1>2 DEF Stage, Control
<1>4. LookupError(src) \in {"INTERNAL", "NOT_FOUND"}
  BY <1>1, LookupErrorIs
<1>5. /\ Tree[src] = was[w][src]
      /\ node[src] = Absent => Missing(w)
      /\ was[w][src] = Absent <=> node[src] = Absent
  BY <1>1, <1>3, UntouchedIs, TreeType
<1>6. CASE node[src] = Absent /\ Done(w, "") /\ r.recursive /\ node' = node
  BY <1>2, <1>3, <1>6, Removed
<1>7. CASE node[src] = Absent /\ Done(w, LookupError(src)) /\ node' = node
  BY <1>1, <1>2, <1>3, <1>4, <1>5, <1>7, Fails
<1>8. CASE Removable(src) /\ node' = [node EXCEPT ![src] = Absent] /\ Done(w, "")
  <2>1. node[src] # Absent
    BY <1>1, <1>8 DEF Removable, IsFile
  <2> QED BY <1>2, <1>3, <1>5, <1>8, <2>1, Removed
<1>9. CASE Goto(w, "sweep") /\ node' = node
  <2>1. pc'[w] = "sweep"
    BY <1>1, <1>9 DEF Goto
  <2>2. Kept(w, Under(src))
    BY <1>1, <1>3, UntouchedIs
  <2>3. Sweeping(w)'
    BY <1>2, <1>9, <2>2 DEF Sweeping, Kept, Tree, IsFile
  <2> QED BY <1>2, <2>1, <2>3 DEF Stage
<1>10. CASE Done(w, "INTERNAL") /\ node' = node
  BY <1>1, <1>2, <1>3, <1>10, Fails
<1> QED BY <1>6, <1>7, <1>8, <1>9, <1>10 DEF Remove

(* RemoveAll on its way. *)
LEMMA SweepStage ==
    ASSUME TypeOK, ProgressInv, Proper, NEW w \in Workers, Known(w), Control(w),
           Stage(w), Sweep(w) \/ SweepEnds(w)
    PROVE  Stage(w)'
<1> DEFINE r == req[w]
           src == r.src
<1>1. /\ r \in Requests /\ src \in Paths /\ src # <<>>
  BY KnownIs
<1>2. req' = req /\ was' = was /\ content' = content /\ pc[w] = "sweep"
  BY DEF Sweep, SweepEnds
<1>3. Sweeping(w) /\ r.op = "remove" /\ r.recursive
      /\ open[w].todo \subseteq Under(src) \ {<<>>} /\ Touched(r) = {src}
  BY <1>2 DEF Stage, Control, Touched
<1>4. CASE Sweep(w)
  <2>1. PICK q \in open[w].todo \cup Children(src) : node' = [node EXCEPT ![q] = Absent]
    BY <1>4 DEF Sweep
  <2>2. q \in Paths /\ Under(src) \subseteq Paths
    BY <1>3 DEF Children, Under
  <2>3. /\ Tree'[q] = Absent
        /\ \A p \in Paths \ {q} : Tree'[p] = Tree[p]
    BY <1>2, <2>1, <2>2, TakenTree
  <2>4. Sweeping(w)'
    BY <1>2, <1>3, <2>2, <2>3 DEF Sweeping
  <2> QED BY <1>2, <1>4, <2>4 DEF Stage, Sweep
<1>5. CASE SweepEnds(w) /\ Done(w, "INTERNAL") /\ node' = node
  <2>1. Sweeping(w)'
    BY <1>2, <1>3, <1>5 DEF Sweeping, Tree, IsFile
  <2>2. Scope(r) = Under(src)
    BY <1>3 DEF Scope
  <2>3. Damage(w)'
    BY <1>2, <1>3, <2>1, <2>2 DEF Damage, Sweeping, Scope
  <2> QED BY <1>2, <1>5, <2>3, Ends
<1>6. CASE /\ SweepEnds(w) /\ Done(w, "")
           /\ node[src] = Absent \/ Removable(src)
           /\ node' = [node EXCEPT ![src] = Absent]
  BY <1>2, <1>3, <1>6, Removed
<1> QED BY <1>4, <1>5, <1>6 DEF SweepEnds

(* A move that succeeds has moved all that was there. *)
LEMMA RenameStage ==
    ASSUME TypeOK, ProgressInv, Proper, NEW w \in Workers, Known(w), Control(w),
           Stage(w), Rename(w)
    PROVE  Stage(w)'
<1> DEFINE r == req[w]
           src == r.src
           dst == r.dst
           c == RenameError(src, dst)
<1>1. /\ r \in Requests /\ src \in Paths /\ dst \in Paths /\ src # <<>> /\ dst # <<>>
  BY KnownIs
<1>2. /\ req' = req /\ was' = was /\ content' = content /\ pc[w] = "move"
      /\ Done(w, c)
  BY DEF Rename
<1>3. Untouched(w) /\ r.op = "move"
  BY <1>2 DEF Stage, Control
<1>7. c = "" => was[w][src] # Absent
  <2>1. c = "" => node[src] # Absent
    BY <1>1, LookupErrorIs DEF RenameError
  <2>2. node[src] # Absent => Tree[src] # Absent
    BY <1>1, TreeType
  <2>3. Tree[src] = was[w][src]
    BY <1>1, <1>3, UntouchedIs
  <2> HIDE DEF c
  <2> QED BY <2>1, <2>2, <2>3
<1>4. CASE c = "" /\ src # dst
  <2>1. Renames(src, dst)
    BY <1>4 DEF Rename, Renames
  <2>2. ~Prefix(src, dst)
    BY <1>1, <1>4, RenameFinds
  <2>3. Fits(src, dst)
    BY <1>1, <1>3, <2>2, FilesAssumption DEF Fits
  <2>4. \A p \in Under(src) : node'[p] = Absent /\ node'[Moved(p, src, dst)] = node[p]
    BY <1>1, <1>4, <2>1, <2>3, RenameMoves
  <2>5. \A p \in Under(src) : Tree[p] = was[w][p]
    BY <1>1, <1>3, UntouchedIs DEF Kept
  <2>6. ASSUME NEW p \in Under(src)
        PROVE  Tree'[p] = Absent /\ Tree'[Moved(p, src, dst)] = was[w][p]
    <3>1. p \in Paths /\ Moved(p, src, dst) \in Paths
      BY <2>3 DEF Under, Fits
    <3>2. Tree'[p] = Absent
      BY <2>4, <3>1, FilesAssumption DEF Tree, IsFile
    <3>3. Tree'[Moved(p, src, dst)] = Tree[p]
      BY <1>2, <2>4, <3>1 DEF Tree, IsFile
    <3> QED BY <2>5, <3>2, <3>3
  <2>7. Promised(w)'
    BY <1>2, <1>3, <1>4, <1>7, <2>6 DEF Promised, Reading
  <2> HIDE DEF c
  <2> QED BY <1>2, <1>3, <1>4, <2>2, <2>7, Ends
<1>5. CASE c = "" /\ src = dst
  <2>1. node' = node
    BY <1>5 DEF Rename
  <2>2. Kept(w, Under(src))
    BY <1>1, <1>3, UntouchedIs
  <2>3. Kept(w, Under(src))'
    BY <1>2, <2>1, <2>2 DEF Kept, Tree, IsFile
  <2>4. Promised(w)'
    BY <1>2, <1>3, <1>5, <1>7, <2>3 DEF Promised, Reading
  <2> HIDE DEF c
  <2> QED BY <1>2, <1>3, <1>5, <2>4, Ends
<1>6. CASE c # ""
  <2>1. node' = node
    BY <1>6 DEF Rename
  <2>2. c = "NOT_FOUND" => Missing(w)
    <3> SUFFICES ASSUME c = "NOT_FOUND" PROVE Missing(w)
      OBVIOUS
    <3>1. CASE node[src] = Absent
      BY <1>1, <1>3, <3>1, UntouchedIs
    <3>2. CASE node[src] # Absent
      <4>1. node[Parent(dst)] # Dir /\ LookupError(dst) = "NOT_FOUND"
        BY <3>2 DEF RenameError
      <4> QED BY <1>1, <1>3, <4>1, UntouchedIs
    <3> QED BY <3>1, <3>2
  <2> HIDE DEF c
  <2> QED BY <1>1, <1>2, <1>3, <1>6, <2>1, <2>2, Fails
<1> QED BY <1>4, <1>5, <1>6

(* A copy opens what it copies. *)
LEMMA OpenSourceStage ==
    ASSUME TypeOK, ProgressInv, NEW w \in Workers, Known(w), Control(w), Stage(w),
           OpenSource(w)
    PROVE  Stage(w)'
<1> DEFINE r == req[w]
           src == r.src
<1>1. /\ r \in Requests /\ src \in Paths /\ src # <<>>
      /\ DOMAIN pc = Workers /\ DOMAIN open = Workers /\ open[w] \in Opens
  BY KnownIs
<1>2. /\ req' = req /\ was' = was /\ node' = node /\ content' = content
      /\ pc[w] = "source"
  BY DEF OpenSource, tree
<1>3. Untouched(w) /\ Spared(w)
  BY <1>2, SparedSame DEF Stage
<1>4. CASE node[src] = Absent /\ Done(w, LookupError(src))
  <2>1. LookupError(src) \in {"INTERNAL", "NOT_FOUND"} /\ Missing(w)
    BY <1>1, <1>3, <1>4, LookupErrorIs, UntouchedIs
  <2> QED BY <1>1, <1>2, <1>3, <1>4, <2>1, Fails
<1>5. CASE open' = [open EXCEPT ![w].in = node[src]] /\ Goto(w, "create")
  <2>1. pc'[w] = "create" /\ open'[w].in = node[src]
    BY <1>1, <1>5 DEF Goto, Opens
  <2>2. Untouched(w)'
    BY <1>2, <1>3, UntouchedKept
  <2> QED BY <1>2, <2>1, <2>2 DEF Stage
<1> QED BY <1>4, <1>5 DEF OpenSource

(* Opening a file for writing empties it, and no other. *)
LEMMA EmptiedTree ==
    ASSUME TypeOK, Proper, NEW p \in Paths, NEW i \in Inodes,
           content' = [content EXCEPT ![i] = <<>>],
           \/ node[p] = i /\ node' = node
           \/ node[p] = Absent /\ (\A q \in Paths : node[q] # i)
              /\ node' = [node EXCEPT ![p] = i]
    PROVE  /\ node'[p] = i /\ Tree'[p] = <<>>
           /\ \A q \in Paths \ {p} : Tree'[q] = Tree[q] /\ node'[q] = node[q]
<1>1. /\ node \in [Paths -> Inodes \cup {Absent, Dir}]
      /\ content \in [Inodes -> Seq(Nat)]
  BY DEF TypeOK
<1>2. /\ node'[p] = i /\ \A q \in Paths \ {p} : node'[q] = node[q]
  BY <1>1
<1>3. content'[i] = <<>> /\ \A j \in Inodes \ {i} : content'[j] = content[j]
  BY <1>1
<1>4. ASSUME NEW q \in Paths \ {p}
      PROVE  node[q] # i
  BY <1>4 DEF Proper, IsFile
<1>5. Tree'[p] = <<>>
  BY <1>2, <1>3 DEF Tree, IsFile
<1>6. ASSUME NEW q \in Paths \ {p}
      PROVE  Tree'[q] = Tree[q]
  <2>1. IsFile(q) => content'[node[q]] = content[node[q]]
    BY <1>3, <1>4 DEF IsFile
  <2> QED BY <1>2, <2>1, TreeSame
<1> QED BY <1>2, <1>5, <1>6

(* The content that was found is one. *)
LEMMA BlocksType ==
    ASSUME NEW w \in Workers, Stage(w), NEW p \in Paths
    PROVE  Blocks(was[w][p]) \in Seq(Nat)
<1>1. <<>> \in Seq(Nat)
  OBVIOUS
<1> QED BY <1>1 DEF Stage, Blocks

(* What a write or a copy has made of its target when it has opened it. *)
LEMMA CreateStage ==
    ASSUME TypeOK, ProgressInv, Proper, NEW w \in Workers, Known(w), Control(w),
           Stage(w), Create(w)
    PROVE  Stage(w)'
<1> DEFINE r == req[w]
           src == r.src
           dst == r.dst
           copying == r.op = "copy"
           p == IF copying THEN dst ELSE src
           c == IF copying /\ node[p] = Absent THEN LookupError(p) ELSE "INTERNAL"
<1>1. /\ r \in Requests /\ src \in Paths /\ dst \in Paths /\ dst # <<>>
      /\ DOMAIN pc = Workers /\ DOMAIN open = Workers /\ open[w] \in Opens
  BY KnownIs
<1>2. /\ req' = req /\ was' = was /\ pc[w] = "create"
  BY DEF Create
<1>3. /\ Untouched(w) /\ r.op \in {"copy", "write"} /\ open[w].at = 0
      /\ copying => open[w].in = node[src]
  BY <1>2 DEF Stage, Control
<1>4. p \in Paths /\ p # <<>> /\ (copying => p = dst) /\ (~copying => p = src)
      /\ p \in Scope(r) /\ (~copying => r.op = "write")
  BY <1>1, <1>3, KnownIs, InScope
<1>5. CASE Done(w, c) /\ UNCHANGED tree
           /\ (node[p] = Dir \/ node[Parent(p)] # Dir)
  <2>1. node' = node /\ content' = content
    BY <1>5 DEF tree
  <2>2. c # "" /\ (c = "NOT_FOUND" => Missing(w))
    <3>1. CASE copying /\ node[dst] = Absent
      <4>1. node[Parent(dst)] # Dir
        BY <1>5, <3>1, FilesAssumption
      <4>2. c = LookupError(dst)
        BY <3>1
      <4>3. LookupError(dst) \in {"INTERNAL", "NOT_FOUND"}
        BY <1>1, LookupErrorIs
      <4>4. LookupError(dst) = "NOT_FOUND" => Missing(w)
        BY <1>1, <1>3, <3>1, <4>1, UntouchedIs
      <4> HIDE DEF c
      <4> QED BY <4>2, <4>3, <4>4
    <3>2. CASE ~(copying /\ node[dst] = Absent)
      BY <1>4, <3>2
    <3> QED BY <3>1, <3>2
  <2> HIDE DEF c
  <2> QED BY <1>1, <1>2, <1>3, <1>5, <2>1, <2>2, Fails
<1>6. ASSUME NEW i \in Inodes,
             open' = [open EXCEPT ![w].out = i], content' = [content EXCEPT ![i] = <<>>],
             Goto(w, IF copying THEN "copy" ELSE "write"),
             \/ node[p] = i /\ node' = node
             \/ node[p] = Absent /\ Free(i) /\ node' = [node EXCEPT ![p] = i]
      PROVE  Stage(w)'
  <2> HIDE DEF p, c
  <2>1. /\ pc'[w] = IF copying THEN "copy" ELSE "write"
        /\ open'[w].out = i /\ open'[w].in = open[w].in /\ open'[w].at = open[w].at
    BY <1>1, <1>6 DEF Goto, Opens
  <2>2. /\ node'[p] = i /\ Tree'[p] = <<>>
        /\ \A q \in Paths \ {p} : Tree'[q] = Tree[q] /\ node'[q] = node[q]
    <3>1. \/ node[p] = i /\ node' = node
          \/ node[p] = Absent /\ (\A q \in Paths : node[q] # i)
             /\ node' = [node EXCEPT ![p] = i]
      BY <1>6 DEF Free
    <3>2. content' = [content EXCEPT ![i] = <<>>] /\ p \in Paths
      BY <1>4, <1>6
    <3> QED BY <3>1, <3>2, EmptiedTree
  <2>3. \A q \in Scope(r) \ {p} : Tree'[q] = was[w][q]
    <3>1. Scope(r) \subseteq Paths
      BY <1>1, InScope
    <3>2. Kept(w, Scope(r))
      BY <1>3 DEF Untouched
    <3> QED BY <1>2, <2>2, <3>1, <3>2 DEF Kept
  <2>4. CASE ~copying
    <3>1. Kept(w, Scope(r) \ {src})'
      BY <1>2, <1>4, <2>3, <2>4 DEF Kept
    <3>2. Writing(w)'
      BY <1>2, <1>4, <2>1, <2>2, <2>4, <3>1 DEF Writing, IsFile
    <3> QED BY <1>2, <2>1, <2>4, <3>2 DEF Stage
  <2>5. CASE copying
    <3> DEFINE B == Blocks(was[w][src])
    <3>1. B \in Seq(Nat)
      BY <1>1, BlocksType
    <3> HIDE DEF B
    <3>2. SubSeq(B, 1, 0) = <<>> /\ 0 \in 0..Len(B)
      BY <3>1
    <3>3. open[w].in = node'[src]
      <4>1. open[w].in = node[src] /\ open[w].in # NoFile
        BY <1>2, <1>3, <2>5 DEF ProgressInv, Progress
      <4>2. node[src] # Absent
        BY <1>1, <4>1, FilesAssumption DEF Opens
      <4>3. CASE src = p
        BY <1>6, <4>1, <4>2, <4>3
      <4>4. CASE src # p
        BY <1>1, <2>2, <4>1, <4>4
      <4> QED BY <4>3, <4>4
    <3>4. Kept(w, Scope(r) \ {dst})'
      BY <1>2, <1>4, <2>3, <2>5 DEF Kept
    <3>6. was[w][src] # Absent
      <4>1. node[src] # Absent
        <5>1. open[w].in = node[src] /\ open[w].in # NoFile
          BY <1>2, <1>3, <2>5 DEF ProgressInv, Progress
        <5> QED BY <1>1, <5>1, FilesAssumption DEF Opens
      <4>2. Tree[src] # Absent
        BY <1>1, <4>1, TreeType
      <4> QED BY <1>1, <1>3, <4>2, UntouchedIs
    <3>5. Copying(w)'
      BY <1>2, <1>3, <1>4, <2>1, <2>2, <2>5, <3>2, <3>3, <3>4, <3>6 DEF Copying, B, IsFile
    <3> QED BY <1>2, <2>1, <2>5, <3>5 DEF Stage
  <2> QED BY <2>4, <2>5
<1> QED BY <1>5, <1>6 DEF Create, IsFile

(* Writing to the file of a path changes what is there, and no other path.  *)
LEMMA WrittenTree ==
    ASSUME TypeOK, Proper, NEW p \in Paths, IsFile(p), node' = node,
           NEW x, content' = [content EXCEPT ![node[p]] = x]
    PROVE  /\ Tree'[p] = x /\ IsFile(p)'
           /\ \A q \in Paths \ {p} : Tree'[q] = Tree[q]
<1>1. content \in [Inodes -> Seq(Nat)] /\ node[p] \in Inodes
  BY DEF TypeOK, IsFile
<1>2. content'[node[p]] = x /\ \A j \in Inodes \ {node[p]} : content'[j] = content[j]
  BY <1>1
<1>3. IsFile(p)' /\ Tree'[p] = x
  BY <1>2 DEF Tree, IsFile
<1>4. ASSUME NEW q \in Paths \ {p}
      PROVE  Tree'[q] = Tree[q]
  <2>1. node[q] # node[p]
    BY <1>4 DEF Proper
  <2>2. IsFile(q) => content'[node[q]] = content[node[q]]
    BY <1>2, <2>1 DEF IsFile
  <2> QED BY <2>2, TreeSame
<1> QED BY <1>3, <1>4

(* What a copy is of: the content of the source that the request found. *)
LEMMA CopySource ==
    ASSUME TypeOK, ProgressInv, NEW w \in Workers, Known(w), Copying(w),
           pc[w] = "copy", req[w].op = "copy", open[w].in # Dir
    PROVE  LET src == req[w].src
               dst == req[w].dst
               B == Blocks(was[w][src])
           IN  /\ open[w].in \in Inodes /\ IsFile(src)
               /\ src # dst => was[w][src] = B /\ Tree[src] = B /\ content[open[w].in] = B
               /\ src = dst => content[open[w].in] = <<>>
<1> DEFINE src == req[w].src
           dst == req[w].dst
           B == Blocks(was[w][src])
<1>1. /\ req[w] \in Requests /\ src \in Paths /\ dst \in Paths
      /\ open[w] \in Opens
  BY KnownIs
<1>2. open[w].in = node[src] /\ open[w].in # NoFile
  BY DEF Copying, ProgressInv, Progress
<1>3. open[w].in \in Inodes /\ IsFile(src)
  BY <1>1, <1>2 DEF Opens, IsFile
<1>4. Tree[src] = content[open[w].in] /\ Tree[src] \in Seq(Nat)
  BY <1>1, <1>2, <1>3, TreeType
<1>5. CASE src # dst
  <2>1. src \in Scope(req[w]) \ {dst}
    BY <1>1, <1>5, InScope
  <2>2. Tree[src] = was[w][src]
    BY <2>1 DEF Copying, Kept
  <2>3. B = was[w][src]
    BY <1>4, <2>2, FilesAssumption DEF Blocks
  <2> QED BY <1>3, <1>4, <1>5, <2>2, <2>3
<1>6. CASE src = dst
  <2>1. Tree[dst] = SubSeq(B, 1, 0)
    BY <1>6 DEF Copying
  <2>2. SubSeq(B, 1, 0) = <<>>
    BY DEF Blocks
  <2> QED BY <1>3, <1>4, <1>6, <2>1, <2>2
<1> QED BY <1>5, <1>6

(* A block more is copied of the content that was found. *)
LEMMA CopyBlockStage ==
    ASSUME TypeOK, ProgressInv, Proper, NEW w \in Workers, Known(w), Control(w),
           Stage(w), CopyBlock(w)
    PROVE  Stage(w)'
<1> DEFINE r == req[w]
           src == r.src
           dst == r.dst
           n == open[w].at
           B == Blocks(was[w][src])
<1>1. /\ r \in Requests /\ src \in Paths /\ dst \in Paths
      /\ DOMAIN open = Workers /\ open[w] \in Opens /\ B \in Seq(Nat)
      /\ Scope(r) \subseteq Paths
  BY KnownIs, BlocksType, InScope
<1>2. /\ req' = req /\ was' = was /\ pc[w] = "copy" /\ pc' = pc /\ node' = node
      /\ open[w].in # Dir /\ n < Len(content[open[w].in])
      /\ content' = [content EXCEPT ![open[w].out] =
                        Overlay(@, n, <<content[open[w].in][n + 1]>>)]
      /\ open' = [open EXCEPT ![w].at = n + 1]
  BY DEF CopyBlock
<1>3. Copying(w) /\ r.op = "copy"
  BY <1>2 DEF Stage, Control
<1>4. /\ IsFile(dst) /\ open[w].out = node[dst] /\ open[w].in = node[src]
      /\ Kept(w, Scope(r) \ {dst}) /\ n \in 0..Len(B)
      /\ Tree[dst] = SubSeq(B, 1, n) /\ (src = dst => n = 0)
      /\ was[w][src] # Absent
  BY <1>3 DEF Copying
<1>5. src # dst /\ content[open[w].in] = B
  <2>1. /\ src # dst => content[open[w].in] = B
        /\ src = dst => content[open[w].in] = <<>>
    BY <1>2, <1>3, CopySource
  <2>2. Len(<<>>) = 0
    OBVIOUS
  <2> QED BY <1>2, <1>4, <2>1, <2>2
<1> HIDE DEF B
<1>6. /\ open'[w].in = open[w].in /\ open'[w].out = open[w].out
      /\ open'[w].at = n + 1
  BY <1>1, <1>2 DEF Opens
<1>7. content[node[dst]] = SubSeq(B, 1, n) /\ node[dst] \in Inodes
  BY <1>1, <1>4, TreeType DEF IsFile
<1>8. n \in Nat /\ n < Len(B) /\ n + 1 \in 0..Len(B)
  BY <1>1, <1>2, <1>4, <1>5
<1>9. Overlay(SubSeq(B, 1, n), n, <<B[n + 1]>>) = SubSeq(B, 1, n + 1)
  BY <1>1, <1>8, OverlayNext
<1>10. content' = [content EXCEPT ![node[dst]] = SubSeq(B, 1, n + 1)]
  BY <1>2, <1>4, <1>5, <1>7, <1>9
<1>11. /\ Tree'[dst] = SubSeq(B, 1, n + 1) /\ IsFile(dst)'
       /\ \A q \in Paths \ {dst} : Tree'[q] = Tree[q]
  <2> DEFINE x == SubSeq(B, 1, n + 1)
  <2>1. content' = [content EXCEPT ![node[dst]] = x]
    BY <1>10
  <2> HIDE DEF x
  <2>2. Tree'[dst] = x /\ IsFile(dst)' /\ \A q \in Paths \ {dst} : Tree'[q] = Tree[q]
    BY <1>1, <1>2, <1>4, <2>1, WrittenTree
  <2> QED BY <2>2 DEF x
<1>12. Kept(w, Scope(r) \ {dst})'
  BY <1>1, <1>2, <1>4, <1>11 DEF Kept
<1>13. Copying(w)'
  BY <1>2, <1>4, <1>5, <1>6, <1>8, <1>11, <1>12 DEF Copying, B
<1> QED BY <1>2, <1>3, <1>13 DEF Stage

(* At the end of its source a copy has all of it. *)
LEMMA CopyEndsStage ==
    ASSUME TypeOK, ProgressInv, Proper, NEW w \in Workers, Known(w), Control(w),
           Stage(w), CopyEnds(w)
    PROVE  Stage(w)'
<1> DEFINE r == req[w]
           src == r.src
           dst == r.dst
           n == open[w].at
           B == Blocks(was[w][src])
<1>1. /\ r \in Requests /\ src \in Paths /\ dst \in Paths /\ B \in Seq(Nat)
  BY KnownIs, BlocksType
<1>2. /\ req' = req /\ was' = was /\ pc[w] = "copy" /\ node' = node
      /\ content' = content
  BY DEF CopyEnds, tree
<1>3. Copying(w) /\ r.op = "copy"
  BY <1>2 DEF Stage, Control
<1>4. /\ Kept(w, Scope(r) \ {dst}) /\ n \in 0..Len(B)
      /\ Tree[dst] = SubSeq(B, 1, n) /\ was[w][src] # Absent
  BY <1>3 DEF Copying
<1>5. \A p \in Paths : Tree'[p] = Tree[p]
  BY <1>2 DEF Tree, IsFile
<1>6. CASE Done(w, "") /\ open[w].in # Dir /\ n >= Len(content[open[w].in])
  <2>1. src # dst => Tree[dst] = was[w][src] /\ Tree[src] = was[w][src]
    <3> SUFFICES ASSUME src # dst
                 PROVE  Tree[dst] = was[w][src] /\ Tree[src] = was[w][src]
      OBVIOUS
    <3>1. content[open[w].in] = B /\ was[w][src] = B /\ Tree[src] = B
      BY <1>2, <1>3, <1>6, CopySource
    <3>2. n >= Len(B)
      BY <1>6, <3>1
    <3> HIDE DEF B
    <3>3. n = Len(B)
      BY <1>1, <1>4, <3>2
    <3>4. SubSeq(B, 1, n) = B
      BY <1>1, <3>3
    <3> QED BY <1>4, <3>1, <3>4
  <2>2. Promised(w)'
    BY <1>1, <1>2, <1>3, <1>4, <1>5, <2>1 DEF Promised, Reading
  <2> QED BY <1>2, <1>3, <1>6, <2>2, Ends
<1>7. CASE Done(w, "INTERNAL")
  <2>1. Kept(w, Scope(r) \ {dst})'
    <3>1. Scope(r) \subseteq Paths
      BY <1>1, InScope
    <3> QED BY <1>2, <1>4, <1>5, <3>1 DEF Kept
  <2>2. IsPart(Tree'[dst], Blocks(was'[w][src]))
    BY <1>1, <1>2, <1>4, <1>5 DEF IsPart
  <2>3. Damage(w)'
    BY <1>2, <1>3, <2>1, <2>2 DEF Damage, Scope
  <2> QED BY <1>2, <1>7, <2>3, Ends
<1> QED BY <1>6, <1>7 DEF CopyEnds

(* The content of a request is written as promised. *)
LEMMA WriteStage ==
    ASSUME TypeOK, ProgressInv, Proper, NEW w \in Workers, Known(w), Control(w),
           Stage(w), Write(w)
    PROVE  Stage(w)'
<1> DEFINE r == req[w]
           src == r.src
           d == r.data
<1>1. /\ r \in Requests /\ src \in Paths /\ d \in Seq(Nat) /\ Scope(r) \subseteq Paths
  BY KnownIs, InScope
<1>2. /\ req' = req /\ was' = was /\ pc[w] = "write" /\ node' = node
  BY DEF Write
<1>3. /\ IsFile(src) /\ open[w].out = node[src] /\ Kept(w, Scope(r) \ {src})
      /\ Tree[src] = <<>> /\ r.op = "write"
  BY <1>2 DEF Stage, Control, Writing
<1>4. PICK n \in 0..Len(d) :
         /\ content' = [content EXCEPT ![open[w].out] = Overlay(@, 0, SubSeq(d, 1, n))]
         /\ (n = Len(d) /\ Done(w, "")) \/ Done(w, "INTERNAL")
  BY DEF Write
<1>5. content[node[src]] = <<>> /\ node[src] \in Inodes
  BY <1>1, <1>3, TreeType DEF IsFile
<1>6. SubSeq(d, 1, n) \in Seq(Nat)
  BY <1>1
<1>7. content' = [content EXCEPT ![node[src]] = SubSeq(d, 1, n)]
  BY <1>3, <1>4, <1>5, <1>6, OverlayWhole
<1>8. Tree'[src] = SubSeq(d, 1, n) /\ \A q \in Paths \ {src} : Tree'[q] = Tree[q]
  BY <1>1, <1>2, <1>3, <1>7, WrittenTree
<1>9. CASE n = Len(d) /\ Done(w, "")
  <2>1. SubSeq(d, 1, n) = d
    <3>1. n = Len(d)
      BY <1>9
    <3> QED BY <1>1, <3>1
  <2>2. Promised(w)'
    BY <1>2, <1>3, <1>8, <2>1 DEF Promised, Reading
  <2> QED BY <1>2, <1>3, <1>9, <2>2, Ends
<1>10. CASE Done(w, "INTERNAL")
  <2>1. Kept(w, Scope(r) \ {src})'
    BY <1>1, <1>2, <1>3, <1>8 DEF Kept
  <2>2. IsPart(Tree'[src], d)
    BY <1>8 DEF IsPart
  <2>3. Damage(w)'
    BY <1>2, <1>3, <2>1, <2>2 DEF Damage, Scope
  <2> QED BY <1>2, <1>10, <2>3, Ends
<1> QED BY <1>4, <1>9, <1>10

(* A call that fails has done nothing. *)
LEMMA CallFailsStage ==
    ASSUME TypeOK, ProgressInv, NEW w \in Workers, Known(w), Stage(w), CallFails(w)
    PROVE  Stage(w)'
<1>1. req[w] \in Requests
  BY KnownIs
<1>2. /\ req' = req /\ was' = was /\ node' = node /\ content' = content
      /\ Done(w, "INTERNAL")
  BY DEF CallFails, tree
<1>3. Untouched(w)
  BY DEF CallFails, Stage
<1> QED BY <1>1, <1>2, <1>3, Fails

(* A file that a step leaves in the scope of its request was there, or is new. *)
LEMMA NodesFrom ==
    ASSUME TypeOK, ProgressInv, NEW w \in Workers, Control(w), Run(w),
           NEW p \in Scope(req[w]), node'[p] \in Inodes
    PROVE  Free(node'[p]) \/ \E x \in Scope(req[w]) : node[x] = node'[p]
<1> DEFINE r == req[w]
           src == r.src
           dst == r.dst
<1>1. pc[w] # "idle"
  BY DEF Run, Admit, Check, Record, Answer, LogRequest,
         Operate, Look, Lookup, Mkdir, Remove, Sweep, SweepEnds, Rename,
         OpenSource, Create, CopyBlock, CopyEnds, Write, CallFails
<1>2. r \in Requests /\ src \in Paths /\ dst \in Paths
  BY <1>1, RequestType DEF ProgressInv, Progress
<1>3. /\ p \in Paths /\ src \in Touched(r)
      /\ \A q \in Paths : q \in Scope(r) <=> \E t \in Touched(r) : Prefix(t, q)
  BY <1>2, InScope
<1>4. node \in [Paths -> Inodes \cup {Absent, Dir}] /\ Absent \notin Inodes /\ Dir \notin Inodes
  BY FilesAssumption DEF TypeOK
<1>5. ASSUME node' = node
      PROVE  \E x \in Scope(r) : node[x] = node'[p]
  BY <1>5
<1>6. ASSUME NEW q, NEW x \in {Absent, Dir}, node' = [node EXCEPT ![q] = x]
      PROVE  \E y \in Scope(r) : node[y] = node'[p]
  BY <1>3, <1>4, <1>6
<1>7. CASE Admit(w) \/ Check(w) \/ Record(w) \/ Answer(w) \/ LogRequest(w)
  BY <1>5, <1>7 DEF Admit, Check, Record, Answer, LogRequest, tree
<1>8. CASE \/ Look(w) \/ Lookup(w) \/ OpenSource(w) \/ CopyBlock(w)
          \/ CopyEnds(w) \/ Write(w) \/ CallFails(w)
  BY <1>5, <1>8
  DEF Look, Lookup, OpenSource, CopyBlock, CopyEnds, Write,
     CallFails, tree
<1>9. CASE Mkdir(w) \/ Remove(w) \/ Sweep(w) \/ SweepEnds(w)
  BY <1>5, <1>6, <1>9 DEF Mkdir, Remove, Sweep, SweepEnds
<1>10. CASE Rename(w)
  <2>1. \/ node'[p] = node[p]
        \/ node'[p] = Absent
        \/ /\ Prefix(dst, p) /\ Moved(p, dst, src) \in Paths
           /\ node'[p] = node[Moved(p, dst, src)]
    BY <1>3, <1>10 DEF Rename
  <2>2. ASSUME Prefix(dst, p), Moved(p, dst, src) \in Paths
        PROVE  Moved(p, dst, src) \in Scope(r)
    <3>1. Prefix(src, Moved(p, dst, src))
      BY <1>2, <1>3, <2>2, MovedBack
    <3> QED BY <1>3, <2>2, <3>1
  <2> QED BY <1>4, <2>1, <2>2
<1>11. CASE Create(w)
  <2>1. node' = node \/ \E q \in Paths, i \in Inodes : Free(i) /\ node' = [node EXCEPT ![q] = i]
    BY <1>2, <1>11 DEF Create, tree
  <2> QED BY <1>3, <1>4, <1>5, <2>1
<1> QED BY <1>7, <1>8, <1>9, <1>10, <1>11 DEF Run, Operate

(* Whose files are whose stays so. *)
LEMMA OwnerStep ==
    ASSUME TypeOK, ProgressInv, AnswersInv, NEW w \in Workers, Run(w),
           req' = req, was' = was, pc[w] # "idle"
    PROVE  Owner'
<1> SUFFICES ASSUME NEW v \in Workers, NEW u \in Workers, v # u, Known(u)',
                    NEW p \in Scope(req[u]), node'[p] \in Inodes
             PROVE  open'[v].out # node'[p]
  BY DEF Owner, IsFile
<1>1. Proper /\ ControlInv /\ Alone /\ Owner
  BY DEF AnswersInv
<1>2. Known(u)
  <2>1. u # w => pc'[u] = pc[u]
    BY OthersKept
  <2> QED BY <2>1 DEF Known, Busy
<1>3. req[u] \in Requests /\ NoFile \notin Inodes
  BY <1>2, KnownIs, FilesAssumption
<1>4. Scope(req[u]) \subseteq Paths
  BY <1>3, InScope
<1>5. CASE u # w
  <2>1. node'[p] = node[p] /\ IsFile(p)
    <3>1. node'[p] = node[p]
      BY <1>1, <1>2, <1>5, Frame
    <3> QED BY <3>1 DEF IsFile
  <2>2. open[v].out # node[p]
    BY <1>1, <1>2, <2>1 DEF Owner
  <2>3. CASE v # w
    BY <2>1, <2>2, <2>3, OthersKept
  <2>4. CASE v = w
    <3>1. Effect(w)
      BY <1>1, StepEffect DEF ControlInv
    <3>2. ~Reach(w, node[p])
      <4>1. ~Free(node[p])
        BY <1>4 DEF Free
      <4>2. ASSUME NEW s \in Touched(req[w]), node[s] = node[p]
            PROVE  FALSE
        <5>1. req[w] \in Requests
          BY DEF ProgressInv, Progress
        <5>2. s \in Paths /\ IsFile(s)
          BY <2>1, <4>2, <5>1, InScope DEF IsFile
        <5>3. s = p
          BY <1>1, <1>4, <4>2, <5>2 DEF Proper
        <5>4. \E t \in Touched(req[u]) : Prefix(t, p)
          BY <1>3, <1>4, InScope
        <5>5. Related(req[u], req[w])
          BY <5>3, <5>4 DEF Related
        <5> QED BY <1>1, <1>2, <1>5, <5>5 DEF Alone, Busy
      <4> QED BY <4>1, <4>2 DEF Reach
    <3> QED BY <1>3, <2>1, <2>2, <2>4, <3>1, <3>2 DEF Effect
  <2> QED BY <2>3, <2>4
<1>6. CASE u = w
  <2>1. open'[v] = open[v]
    BY <1>6, OthersKept
  <2>2. Free(node'[p]) \/ \E x \in Scope(req[w]) : node[x] = node'[p]
    BY <1>1, <1>6, NodesFrom DEF ControlInv
  <2>3. CASE Free(node'[p])
    BY <2>1, <2>3 DEF Free
  <2>4. CASE \E x \in Scope(req[w]) : node[x] = node'[p]
    BY <1>1, <1>2, <1>6, <2>1, <2>4 DEF Owner, IsFile
  <2> QED BY <2>2, <2>3, <2>4
<1> QED BY <1>5, <1>6

(* A call of a request keeps all of it. *)
LEMMA RunAnswers ==
    ASSUME TypeOK, ProgressInv, AnswersInv, NEW w \in Workers, Run(w)
    PROVE  AnswersInv'
<1>1. Proper /\ ControlInv /\ Alone /\ Owner /\ StageInv
  BY DEF AnswersInv
<1>2. req' = req /\ was' = was /\ pc[w] # "idle"
  BY DEF Run, Admit, Check, Record, Answer, LogRequest,
         Operate, Look, Lookup, Mkdir, Remove, Sweep, SweepEnds, Rename,
         OpenSource, Create, CopyBlock, CopyEnds, Write, CallFails
<1>3. Proper'
  BY <1>1, ProperStep DEF ControlInv
<1>4. ControlInv'
  BY <1>1, ControlStep
<1>5. \A v \in Workers : v # w => pc'[v] = pc[v]
  BY OthersKept
<1>6. \A v \in Workers : (Busy(v)' => Busy(v)) /\ (Known(v)' => Known(v))
  BY <1>2, <1>5 DEF Busy, Known
<1>7. Alone'
  BY <1>1, <1>2, <1>6 DEF Alone
<1>8. Owner'
  BY <1>2, OwnerStep
<1>9. ASSUME NEW v \in Workers, Known(v)'
      PROVE  Stage(v)'
  <2>1. Known(v) /\ Stage(v) /\ Control(v)
    BY <1>1, <1>6, <1>9 DEF StageInv, ControlInv
  <2>2. CASE v # w
    <3>1. /\ pc'[v] = pc[v] /\ req'[v] = req[v] /\ open'[v] = open[v]
          /\ code'[v] = code[v]
      BY <2>2, OthersKept
    <3>2. Spared(v)
      BY <1>1, <2>1, <2>2, Frame DEF Spared
    <3> QED BY <1>2, <2>1, <3>1, <3>2, StageKept
  <2>3. CASE v = w
    <3>1. CASE Admit(w) \/ Check(w)
      BY <2>1, <2>3, <3>1, AdmitStage
    <3>2. CASE Record(w) \/ Answer(w) \/ LogRequest(w)
      BY <2>1, <2>3, <3>2, AnswerStage
    <3>3. CASE Look(w) \/ OpenSource(w)
      BY <2>1, <2>3, <3>3, LookStage, OpenSourceStage
    <3>4. CASE Lookup(w) \/ Mkdir(w)
      BY <1>1, <2>1, <2>3, <3>4, LookupStage, MkdirStage
    <3>5. CASE Remove(w) \/ Sweep(w) \/ SweepEnds(w)
      BY <1>1, <2>1, <2>3, <3>5, RemoveStage, SweepStage
    <3>6. CASE Rename(w) \/ Create(w)
      BY <1>1, <2>1, <2>3, <3>6, RenameStage, CreateStage
    <3>7. CASE CopyBlock(w) \/ CopyEnds(w) \/ Write(w)
      BY <1>1, <2>1, <2>3, <3>7, CopyBlockStage, CopyEndsStage, WriteStage
    <3>8. CASE CallFails(w)
      BY <2>1, <2>3, <3>8, CallFailsStage
    <3> QED BY <3>1, <3>2, <3>3, <3>4, <3>5, <3>6, <3>7, <3>8 DEF Run, Operate
  <2> QED BY <2>2, <2>3
<1>10. StageInv'
  BY <1>9 DEF StageInv
<1> QED BY <1>3, <1>4, <1>7, <1>8, <1>10 DEF AnswersInv

(* So does a new request: those it can meet are known no longer. *)
LEMMA BeginAnswers ==
    ASSUME TypeOK, ProgressInv, AnswersInv, NEW w \in Workers, Begin(w)
    PROVE  AnswersInv'
<1>1. Proper /\ ControlInv /\ Alone /\ Owner /\ StageInv
  BY DEF AnswersInv
<1>2. PICK r \in Requests :
        LET rivals == {v \in Workers \ {w} : Busy(v) /\ Rivals(r, v)}
        IN  /\ pc[w] = "idle"
            /\ pc' = [pc EXCEPT ![w] = IF r.front = "http" THEN "admit" ELSE "check"]
            /\ req' = [req EXCEPT ![w] = r]
            /\ was' = [v \in Workers |->
                         IF v = w THEN IF rivals = {} THEN Tree ELSE NoTree
                         ELSE IF v \in rivals THEN NoTree ELSE was[v]]
            /\ UNCHANGED <<tree, open>>
  BY DEF Begin
<1>3. /\ DOMAIN pc = Workers /\ DOMAIN req = Workers
      /\ node' = node /\ content' = content /\ open' = open
      /\ req'[w] = r /\ pc'[w] \in {"admit", "check"}
      /\ \A v \in Workers : v # w => req'[v] = req[v] /\ pc'[v] = pc[v]
  BY <1>2 DEF TypeOK, tree
<1>4. ASSUME NEW v \in Workers, v # w, Busy(v), ~Rivals(r, v)
      PROVE  was[v] # NoTree /\ ~Related(r, req[v])
  BY <1>4 DEF Rivals, Related
<1>5. ASSUME NEW v \in Workers, v # w, Known(v)'
      PROVE  Known(v) /\ was'[v] = was[v] /\ ~Related(r, req[v])
  <2>1. Busy(v) /\ was'[v] # NoTree
    BY <1>3, <1>5 DEF Known, Busy
  <2>2. ~Rivals(r, v) /\ was'[v] = was[v]
    BY <1>2, <1>5, <2>1
  <2> QED BY <1>4, <1>5, <2>1, <2>2 DEF Known
<1>6. ASSUME was'[w] # NoTree
      PROVE  /\ was'[w] = Tree
             /\ \A v \in Workers : v # w /\ Busy(v) => Known(v) /\ ~Related(r, req[v])
  <2>1. {v \in Workers \ {w} : Busy(v) /\ Rivals(r, v)} = {} /\ was'[w] = Tree
    BY <1>2, <1>6
  <2> QED BY <1>4, <2>1 DEF Known
<1>7. Proper'
  BY <1>1, <1>3 DEF Proper, IsFile
<1>8. ControlInv'
  BY <1>1, ControlStep
<1>9. Alone'
  <2> SUFFICES ASSUME NEW v \in Workers, NEW u \in Workers, v # u, Busy(v)', Known(u)'
               PROVE  ~Related(req'[u], req'[v])
    BY DEF Alone
  <2>1. CASE u = w
    BY <1>3, <1>6, <2>1 DEF Known, Busy
  <2>2. CASE v = w
    BY <1>3, <1>5, <2>2, RelatedBoth
  <2>3. CASE u # w /\ v # w
    <3>1. Known(u) /\ Busy(v)
      BY <1>3, <1>5, <2>3 DEF Busy
    <3> QED BY <1>1, <1>3, <2>3, <3>1 DEF Alone
  <2> QED BY <2>1, <2>2, <2>3
<1>10. Owner'
  <2> SUFFICES ASSUME NEW v \in Workers, NEW u \in Workers, v # u, Known(u)',
                      NEW p \in Scope(req'[u]), IsFile(p)
               PROVE  open[v].out # node[p]
    BY <1>3 DEF Owner, IsFile
  <2>1. CASE u # w
    BY <1>1, <1>3, <1>5, <2>1 DEF Owner
  <2>2. CASE u = w
    <3>1. p \in Scope(r) /\ \A x \in Workers : x # w /\ Busy(x) =>
                                Known(x) /\ ~Related(r, req[x])
      BY <1>3, <1>6, <2>2 DEF Known
    <3>2. PICK t \in Touched(r) : p \in Paths /\ Prefix(t, p)
      BY <3>1, InScope
    <3>3. node[p] \in Inodes /\ NoFile \notin Inodes
      BY FilesAssumption DEF IsFile
    <3>4. Control(v)
      BY <1>1 DEF ControlInv
    <3>5. CASE pc[v] \notin {"copy", "write"}
      BY <3>3, <3>4, <3>5 DEF Control, Closed
    <3>6. CASE pc[v] \in {"copy", "write"}
      <4>1. Known(v) /\ ~Related(r, req[v]) /\ req[v] \in Requests
        BY <2>2, <3>1, <3>6 DEF Busy, ProgressInv, Progress
      <4>2. Stage(v)
        BY <1>1, <4>1 DEF StageInv
      <4>3. PICK s \in Touched(req[v]) : s \in Paths /\ IsFile(s) /\ open[v].out = node[s]
        <5>1. /\ req[v].src \in Paths /\ req[v].dst \in Paths
              /\ req[v].src \in Touched(req[v])
              /\ req[v].op = "copy" => req[v].dst \in Touched(req[v])
          BY <4>1, InScope, RequestType
        <5> QED BY <3>4, <3>6, <4>2, <5>1 DEF Stage, Copying, Writing, Control
      <4>4. ~Prefix(t, s)
        BY <4>1 DEF Related
      <4>5. s # p
        BY <3>2, <4>4
      <4> QED BY <1>1, <3>2, <4>3, <4>5 DEF Proper
    <3> QED BY <3>5, <3>6
  <2> QED BY <2>1, <2>2
<1>11. ASSUME NEW v \in Workers, Known(v)'
       PROVE  Stage(v)'
  <2>1. CASE v # w
    <3>1. Known(v) /\ was'[v] = was[v]
      BY <1>5, <1>11, <2>1
    <3>2. Stage(v) /\ Control(v)
      BY <1>1, <3>1 DEF StageInv, ControlInv
    <3>3. /\ pc'[v] = pc[v] /\ req'[v] = req[v] /\ open'[v] = open[v]
          /\ code'[v] = code[v]
      BY <2>1, OthersKept
    <3>4. Spared(v)
      BY <1>3, SparedSame
    <3> QED BY <3>1, <3>2, <3>3, <3>4, StageKept
  <2>2. CASE v = w
    <3>1. was'[w] = Tree
      BY <1>6, <1>11, <2>2 DEF Known
    <3>2. \A p \in Paths : was'[w][p] \in {Absent, Dir} \/ was'[w][p] \in Seq(Nat)
      BY <3>1, TreeType
    <3>3. Untouched(w)'
      <4>1. Scope(r) \subseteq Paths /\ Above(r) \subseteq Paths
        BY InScope DEF Above
      <4>2. \A p \in Paths : Tree'[p] = Tree[p]
        BY <1>3 DEF Tree, IsFile
      <4>3. Kept(w, Scope(req[w]))'
        BY <1>3, <3>1, <4>1, <4>2 DEF Kept
      <4>4. \A q \in Above(r) : node'[q] = Absent => was'[w][q] = Absent
        BY <1>3, <3>1, <4>1, TreeType
      <4> QED BY <1>3, <4>3, <4>4 DEF Untouched
    <3> QED BY <1>3, <2>2, <3>2, <3>3 DEF Stage
  <2> QED BY <2>1, <2>2
<1>12. StageInv'
  BY <1>11 DEF StageInv
<1> QED BY <1>7, <1>8, <1>9, <1>10, <1>12 DEF AnswersInv

(* Every step keeps what each request knows. *)
LEMMA AnswersStep ==
    TypeOK /\ ProgressInv /\ AnswersInv /\ [Next]_vars => AnswersInv'
<1> SUFFICES ASSUME TypeOK, ProgressInv, AnswersInv, [Next]_vars
             PROVE  AnswersInv'
  OBVIOUS
<1>1. CASE UNCHANGED vars
  <2>1. /\ node' = node /\ content' = content /\ pc' = pc /\ req' = req
        /\ open' = open /\ code' = code /\ was' = was
    BY <1>1 DEF vars, tree
  <2>2. Proper'
    BY <2>1 DEF AnswersInv, Proper, IsFile
  <2>3. ControlInv'
    BY <2>1 DEF AnswersInv, ControlInv, Control
  <2>4. \A v \in Workers : (Busy(v)' <=> Busy(v)) /\ (Known(v)' <=> Known(v))
    BY <2>1 DEF Busy, Known
  <2>5. Alone' /\ Owner'
    BY <2>1, <2>4 DEF AnswersInv, Alone, Owner, IsFile
  <2>6. \A v \in Workers : Known(v) => Stage(v)'
    BY <2>1, StageKept, SparedSame DEF AnswersInv, StageInv, ControlInv
  <2> QED BY <2>2, <2>3, <2>4, <2>5, <2>6 DEF AnswersInv, StageInv
<1>2. ASSUME NEW w \in Workers, Begin(w) \/ Run(w)
      PROVE  AnswersInv'
  BY <1>2, BeginAnswers, RunAnswers
<1> QED BY <1>1, <1>2 DEF Next

(* What overlapping requests on other paths do does not show in the answers of
   manager.go, for any tree in which no file has two names: a success has done
   what it says, a failure no more than its part, and not found is answered only
   where something is missing (AnswersTrue). *)
THEOREM AnswersHold == NoHardLinks /\ Spec => []AnswersTrue
<1>1. NoHardLinks /\ Init => AnswersInv
  <2> SUFFICES ASSUME NoHardLinks, Init PROVE AnswersInv
    OBVIOUS
  <2>1. Proper
    <3>1. node = InitialNode
      BY DEF Init
    <3>2. \A p, q \in Paths : node[p] = node[q] /\ IsFile(p) => p = q
      BY <3>1 DEF NoHardLinks, IsFile
    <3> QED BY <3>1, <3>2, FilesAssumption DEF Proper
  <2>2. \A w \in Workers : pc[w] = "idle" /\ open[w] = Closed
    BY DEF Init
  <2>3. ControlInv
    BY <2>2 DEF ControlInv, Control, Closed
  <2>4. \A w \in Workers : ~Known(w)
    BY <2>2 DEF Known, Busy
  <2> QED BY <2>1, <2>3, <2>4 DEF AnswersInv, Alone, Owner, StageInv
<1>2. TypeOK /\ ProgressInv /\ AnswersInv /\ [Next]_vars => AnswersInv'
  BY AnswersStep
<1>3. AnswersInv => AnswersTrue
  <2> SUFFICES ASSUME AnswersInv, NEW w \in Workers,
                      pc[w] \in {"record", "answer", "log"}, was[w] # NoTree
               PROVE  Outcome(w)
    BY DEF AnswersTrue, Outcome
  <2>1. Known(w)
    BY DEF Known, Busy
  <2> QED BY <2>1 DEF AnswersInv, StageInv, Stage
<1> QED BY <1>1, <1>2, <1>3, Invariant, PTL DEF Spec
=============================================================================
