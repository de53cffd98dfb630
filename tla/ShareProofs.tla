---------------------------- MODULE ShareProofs ----------------------------
(***************************************************************************)
(* Theorems about Share, for every value of its constants.                 *)
(***************************************************************************)
EXTENDS Share, TLAPS

(* The text generated for a map of shares is a set of shares. *)
LEMMA TextType ==
    ASSUME NEW f \in File, NEW m \in SUBSET Shares
    PROVE  Text(f, m) \in SUBSET Shares
BY DEF Text, File, Service

(* A service ends up serving a set of shares, unless its file is torn. *)
LEMMA ServedType ==
    ASSUME NEW c \in Content
    PROVE  Served(c) \in {Torn} \cup SUBSET Shares
BY DEF Served, Parse, Content

(* Parsing a file gives a set of shares. *)
LEMMA ParseType ==
    ASSUME NEW c \in Content
    PROVE  Parse(c) \in SUBSET Shares
BY DEF Parse, Content

(* Whatever a write leaves in a file is a possible content. *)
LEMMA WriteType ==
    ASSUME TypeOK, NEW w \in Workers, NEW f \in File, NEW c \in Content
    PROVE  Mixed(w, f, c) \subseteq Content
<1>1. file[f] \in Content /\ Torn \in Content
  BY DEF TypeOK, Content
<1> QED
  BY <1>1 DEF Mixed

(* So is what a failing write leaves. *)
LEMMA PartialType ==
    ASSUME TypeOK, NEW w \in Workers, NEW f \in File
    PROVE  Partial(w, f) \subseteq Content
<1>1. file[f] \in Content /\ Empty \in Content /\ Torn \in Content
  BY DEF TypeOK, Content
<1> QED
  BY <1>1 DEF Partial

(* The step after a file stays within the files. *)
LEMMA NextFileType == \A f : NextFile(f) \in File
BY DEF NextFile, File, Service

(* The types of the tuples of variables that a request's end assigns. *)
LEMMA FinishType ==
    ASSUME TypeOK, NEW w \in Workers, NEW r \in {"none", "success", "failure"},
           Finish(w, r)
    PROVE  /\ pc' \in [Workers -> PCs]
           /\ req' \in [Workers -> Request \cup {NoRequest}]
           /\ \A v \in Workers : pc'[v] # "idle" => req'[v] \in Request
           /\ local' \in [Workers -> Locals]
           /\ audit' \in [Workers -> {"none", "success", "failure"}]
<1>1. NoLocals \in Locals
  BY DEF NoLocals, Locals, NoText, Content, File
<1> QED
  BY <1>1 DEF Finish, Goto, TypeOK, PCs

(* Assignments to the local variables of a worker keep their types. *)
LEMMA AtType ==
    ASSUME TypeOK, NEW w \in Workers, NEW g \in File
    PROVE  [local EXCEPT ![w].at = g] \in [Workers -> Locals]
<1>1. local \in [Workers -> Locals]
  BY DEF TypeOK
<1> QED
  BY <1>1 DEF Locals

LEMMA OldType ==
    ASSUME TypeOK, NEW w \in Workers, NEW g \in File, NEW f \in File, NEW c \in Content
    PROVE  [local EXCEPT ![w].old[f] = c, ![w].at = g] \in [Workers -> Locals]
<1>1. local \in [Workers -> Locals]
  BY DEF TypeOK
<1> QED
  BY <1>1 DEF Locals

LEMMA MapType ==
    ASSUME TypeOK, NEW w \in Workers, NEW g \in File, NEW m \in SUBSET Shares
    PROVE  /\ [local EXCEPT ![w].prev = m] \in [Workers -> Locals]
           /\ [local EXCEPT ![w].snap = m, ![w].at = g] \in [Workers -> Locals]
<1>1. local \in [Workers -> Locals]
  BY DEF TypeOK
<1>2. [local EXCEPT ![w].prev = m] \in [Workers -> Locals]
  BY <1>1 DEF Locals
<1>3. [local EXCEPT ![w].snap = m, ![w].at = g] \in [Workers -> Locals]
  BY <1>1 DEF Locals
<1> QED
  BY <1>2, <1>3

LEMMA InitType == Init => TypeOK
<1> SUFFICES ASSUME Init PROVE TypeOK
  OBVIOUS
<1> USE ShareAssumption
<1>1. local \in [Workers -> Locals]
  BY DEF Init, NoLocals, Locals, NoText, Content, File
<1>2. file \in [File -> Content]
  <2>1. \A f \in File : Text(f, Initial) \in Content
    BY TextType DEF Content
  <2> QED
    BY <2>1 DEF Init, Content
<1>3. loaded \in [Service -> {Torn} \cup SUBSET Shares]
  <2>1. \A s \in Service : Text(s, Initial) \in Content
    BY TextType DEF Content, File
  <2> QED
    BY <2>1, ServedType DEF Init
<1> QED
  BY <1>1, <1>2, <1>3 DEF Init, TypeOK, PCs

(* Every step of a worker keeps every variable within its type. *)
LEMMA RunType ==
    ASSUME TypeOK, NEW w \in Workers, Run(w)
    PROVE  TypeOK'
<1> USE ShareAssumption DEF TypeOK
<1>1. CASE Check(w)
  BY <1>1, FinishType DEF Check, Fail, Goto, PCs, procVars, diskVars
<1>2. CASE Validate(w)
  BY <1>2, FinishType DEF Validate, Fail, Goto, PCs, procVars, diskVars
<1>3. CASE GetPrev(w)
  <2>1. CASE Found(w) # {}
    <3>1. Found(w) \in SUBSET Shares
      BY DEF Found, Named, Mine
    <3>2. [local EXCEPT ![w].prev = Found(w)] \in [Workers -> Locals]
      BY <3>1, MapType DEF File
    <3> QED
      BY <1>3, <2>1, <3>2 DEF GetPrev, Goto, PCs, procVars, diskVars
  <2>2. CASE Found(w) = {}
    BY <1>3, <2>2, FinishType DEF GetPrev, Fail, procVars, diskVars
  <2> QED
    BY <2>1, <2>2
<1>4. CASE Apply(w)
  <2>1. CASE Accepted(w)
    <3>1. req[w] \in Request
      BY <1>4 DEF Apply
    <3>2. Changed(w) \in SUBSET Shares
      BY <3>1 DEF Changed, Without, Put, Mine, Request
    <3> QED
      BY <1>4, <2>1, <3>2 DEF Apply, SetMem, Goto, PCs, diskVars
  <2>2. CASE ~Accepted(w)
    BY <1>4, <2>2, FinishType DEF Apply, Fail, diskVars
  <2> QED
    BY <2>1, <2>2
<1>5. CASE Snapshot(w)
  <2>1. Mine(w) \in SUBSET Shares /\ "state" \in File /\ Absent \in Content
    BY DEF Mine, File, Content
  <2>2. [local EXCEPT ![w].snap = Mine(w), ![w].at = "state"] \in [Workers -> Locals]
    BY <2>1, MapType
  <2> QED
    BY <1>5, <2>2 DEF Snapshot, Goto, PCs, procVars, diskVars, histVars
<1>6. CASE Read(w)
  <2>1. local[w].at \in File
    BY DEF Locals
  <2>2. NextFile(local[w].at) \in File /\ "state" \in File
    BY NextFileType DEF File
  <2>3. local' \in [Workers -> Locals]
    <3>1. ReadOf(local[w].at) \subseteq Content
      BY <2>1 DEF ReadOf, Content
    <3>2. PICK g \in File, c \in ReadOf(local[w].at) :
             local' = [local EXCEPT ![w].old[local[w].at] = c, ![w].at = g]
      BY <1>6, <2>2 DEF Read
    <3> QED
      BY <2>1, <3>1, <3>2, OldType
  <2> QED
    BY <1>6, <2>3 DEF Read, Goto, PCs, procVars, diskVars, histVars
<1>7. CASE Open(w)
  BY <1>7 DEF Open, Goto, PCs, Content, Locals, procVars, histVars
<1>8. CASE Write(w)
  <2>1. local[w].at \in File /\ local[w].snap \in SUBSET Shares
    BY DEF Locals
  <2>2. Mixed(w, local[w].at, Text(local[w].at, local[w].snap)) \subseteq Content
    BY <2>1, TextType, WriteType DEF Content
  <2>3. NextFile(local[w].at) \in File /\ "smb" \in File
    BY NextFileType DEF File, Service
  <2>4. file' \in [File -> Content]
    BY <1>8, <2>1, <2>2 DEF Write
  <2>5. local' \in [Workers -> Locals]
    <3>1. \E g \in File : local' = [local EXCEPT ![w].at = g]
      BY <1>8, <2>3 DEF Write
    <3> QED
      BY <3>1, AtType
  <2> QED
    BY <1>8, <2>4, <2>5 DEF Write, Goto, PCs, procVars, histVars
<1>9. CASE WriteFails(w)
  <2>1. local[w].at \in File
    BY DEF Locals
  <2>2. Partial(w, local[w].at) \subseteq Content
    BY <2>1, PartialType
  <2> QED
    BY <1>9, <2>1, <2>2 DEF WriteFails, Goto, PCs, procVars, histVars
<1>10. ASSUME AfterCommand(w), pc[w] = "command"
       PROVE  /\ pc' \in [Workers -> PCs]
              /\ req' \in [Workers -> Request \cup {NoRequest}]
              /\ \A v \in Workers : pc'[v] # "idle" => req'[v] \in Request
              /\ local' \in [Workers -> Locals]
              /\ audit' \in [Workers -> {"none", "success", "failure"}]
              /\ acked' \in [Procs -> SUBSET Shares]
  <2>1. CASE local[w].at = "smb"
    <3>1. local' = [local EXCEPT ![w].at = "nfs"] /\ "nfs" \in File
      BY <1>10, <2>1 DEF AfterCommand, File, Service
    <3>2. local' \in [Workers -> Locals]
      BY <3>1, AtType
    <3> QED
      BY <1>10, <2>1, <3>2 DEF AfterCommand
  <2>2. CASE local[w].at # "smb"
    <3>1. Succeed(w) /\ Finish(w, "success") /\ req[w].share \in Shares
      BY <1>10, <2>2 DEF AfterCommand, Succeed, Request
    <3>2. acked' \in [Procs -> SUBSET Shares]
      BY <3>1, ShareAssumption DEF Succeed, Without, Put
    <3> QED
      BY <3>1, <3>2, FinishType
  <2> QED
    BY <2>1, <2>2
<1>11. CASE SkipCommand(w)
  BY <1>10, <1>11 DEF SkipCommand, procVars, diskVars
<1>12. ASSUME NEW s \in File, s \in Affected(w), TypeOK
       PROVE  s \in Service => Served(file[s]) \in {Torn} \cup SUBSET Shares
  BY <1>12, ServedType
<1>13. local[w].at \in File /\ Served(file[local[w].at]) \in {Torn} \cup SUBSET Shares
  <2>1. local[w].at \in File
    BY DEF Locals
  <2> QED
    BY <2>1, ServedType
<1>14. CASE Command(w)
  BY <1>10, <1>13, <1>14 DEF Command, procVars
<1>15. CASE CommandFails(w)
  <2>1. local' = [local EXCEPT ![w].at = "state"] /\ "state" \in File
    BY <1>15 DEF CommandFails, File
  <2>2. local' \in [Workers -> Locals]
    BY <2>1, AtType
  <2> QED
    BY <1>13, <1>15, <2>2 DEF CommandFails, Goto, PCs, procVars, histVars
<1>16. ASSUME AfterRestore(w), pc[w] \in {"restore", "rewrite"},
              UNCHANGED <<req, audit>>
       PROVE  /\ pc' \in [Workers -> PCs]
              /\ \A v \in Workers : pc'[v] # "idle" => req'[v] \in Request
              /\ local' \in [Workers -> Locals]
  <2>1. \E g \in File : local' = [local EXCEPT ![w].at = g]
    BY <1>16, NextFileType DEF AfterRestore
  <2>2. local' \in [Workers -> Locals]
    BY <2>1, AtType
  <2> QED
    BY <1>16, <2>2 DEF AfterRestore, Goto, PCs
<1>17. CASE Remove(w)
  BY <1>13, <1>16, <1>17 DEF Remove, Content, procVars, histVars
<1>18. CASE Reopen(w)
  BY <1>13, <1>18 DEF Reopen, Goto, PCs, Content, procVars, histVars
<1>19. CASE Rewrite(w)
  <2>1. Mixed(w, local[w].at, local[w].old[local[w].at]) \subseteq Content
    BY <1>13, WriteType DEF Locals
  <2> QED
    BY <1>13, <1>16, <1>19, <2>1 DEF Rewrite, procVars, histVars
<1>20. CASE RestoreFails(w)
  <2>1. Partial(w, local[w].at) \subseteq Content
    BY <1>13, PartialType
  <2> QED
    BY <1>13, <1>16, <1>20, <2>1 DEF RestoreFails, procVars, histVars
<1>21. CASE Undo(w)
  <2>1. Undone(w) \in SUBSET Shares
    BY <1>21 DEF Undo, Undone, Mine, Without, Locals, Request, ShareOp
  <2> QED
    BY <1>21, <2>1, FinishType DEF Undo, SetMem, Fail, diskVars
<1> QED
  BY <1>1, <1>2, <1>3, <1>4, <1>5, <1>6, <1>7, <1>8, <1>9, <1>11, <1>14, <1>15,
     <1>17, <1>18, <1>19, <1>20, <1>21 DEF Run, Reload

(* Every step of the system keeps every variable within its type. *)
LEMMA StepType == TypeOK /\ [Next]_vars => TypeOK'
<1> SUFFICES ASSUME TypeOK, [Next]_vars PROVE TypeOK'
  OBVIOUS
<1> USE ShareAssumption
<1>1. ASSUME NEW w \in Workers, Run(w) PROVE TypeOK'
  BY <1>1, RunType
<1>2. ASSUME NEW w \in Workers, NEW r \in Requests, Begin(w, r) PROVE TypeOK'
  <2>1. Typed(r) \in Shares /\ r.share \in Shares
    BY DEF Typed, Request, Shares, Service
  <2>2. [r EXCEPT !.share = Typed(r)] \in Request
    BY <2>1 DEF Request
  <2>4. unsure' \subseteq Names \cup {BadName}
    BY <1>2, <2>1 DEF Begin, TypeOK, Shares
  <2>5. /\ req' \in [Workers -> Request \cup {NoRequest}]
        /\ pc' \in [Workers -> PCs]
        /\ \A v \in Workers : pc'[v] # "idle" => req'[v] \in Request
    BY <1>2, <2>2 DEF Begin, FirstStep, TypeOK, Goto, PCs
  <2>6. started' \in 0 .. MaxRequests
    BY <1>2 DEF Begin, TypeOK
  <2>7. audit' \in [Workers -> {"none", "success", "failure"}]
    BY <1>2 DEF Begin, TypeOK
  <2> QED
    BY <1>2, <2>4, <2>5, <2>6, <2>7 DEF Begin, TypeOK, procVars, diskVars
<1>3. ASSUME NEW p \in Procs, Start(p) PROVE TypeOK'
  <2>1. \A c \in ReadOf("state") : Parse(c) \in SUBSET Shares
    BY ParseType DEF TypeOK, File, ReadOf, Content
  <2> QED
    BY <1>3, <2>1 DEF Start, SetMem, TypeOK, diskVars, taskVars
<1>4. ASSUME NEW p \in Procs, Stop(p) PROVE TypeOK'
  BY <1>4 DEF Stop, TypeOK, diskVars, taskVars, histVars
<1>5. ASSUME NEW p \in Procs, Crash(p) PROVE TypeOK'
  <2>1. NoLocals \in Locals
    BY DEF NoLocals, Locals, NoText, Content, File
  <2>2. \A w \in Workers : ~Idle(w) => Name(w) \in Names \cup {BadName}
    BY DEF Idle, Name, TypeOK, Request, Shares
  <2>3. unsure' \subseteq Names \cup {BadName}
    BY <1>5, <2>2 DEF Crash, TypeOK, Hosted
  <2> QED
    BY <1>5, <2>1, <2>3 DEF Crash, TypeOK, PCs
<1>6. CASE UNCHANGED vars
  BY <1>6 DEF TypeOK, vars, procVars, diskVars, taskVars, histVars
<1> QED
  BY <1>1, <1>2, <1>3, <1>4, <1>5, <1>6 DEF Next

(* Every variable stays within its type, in every behaviour. *)
THEOREM TypeCorrect == Spec => []TypeOK
BY InitType, StepType, PTL DEF Spec
-----------------------------------------------------------------------------
(* A text that a memory was written as stays one. *)
LEMMA SourcedGrows ==
    ASSUME NEW f \in File, NEW c, Sourced(f, c), ever \subseteq ever'
    PROVE  Sourced(f, c)'
BY DEF Sourced, Whole

(* A service that reads a file that a memory was written as serves a memory.*)
LEMMA ServedSourced ==
    ASSUME NEW s \in Service, NEW c, Sourced(s, c), {} \in ever, Served(c) # Torn
    PROVE  \E m \in ever : Served(c) = Served(Text(s, m))
<1>1. CASE Whole(c)
  BY <1>1 DEF Sourced
<1>2. CASE ~Whole(c)
  <2>1. c \in {Absent, Empty} /\ c # Torn
    BY <1>2 DEF Whole, Served
  <2>2. Served(c) = {}
    BY <2>1 DEF Served, Parse
  <2>3. Text(s, {}) = {}
    BY DEF Text, Service
  <2>4. Served({}) = {}
    BY <2>2 DEF Served, Parse
  <2> QED
    BY <2>2, <2>3, <2>4
<1> QED
  BY <1>1, <1>2

(* What a process loads from a state file has been a memory before. *)
LEMMA ParseSourced ==
    ASSUME NEW c, Sourced("state", c), {} \in ever
    PROVE  Parse(c) \in ever
BY DEF Sourced, Whole, Parse, Text

LEMMA InitVersions == Init => VersionInv
<1> SUFFICES ASSUME Init PROVE VersionInv
  OBVIOUS
<1>1. /\ {} \in ever
      /\ \A p \in Procs : mem[p] \in ever
      /\ \A w \in Workers : local[w].snap \in ever
  BY DEF Init, NoLocals
<1>2. \A w \in Workers, f \in File : Sourced(f, local[w].old[f])
  BY DEF Init, NoLocals, NoText, Sourced, Whole
<1>3. ConsistentVersions
  BY DEF Init, ConsistentVersions, Whole
<1> QED
  BY <1>1, <1>2, <1>3 DEF VersionInv

(* A step keeps the invariant when the memories it leaves are recorded and   *)
(* the files it leaves, and those a worker remembers, hold nothing new.      *)
LEMMA VersionsKept ==
    ASSUME TypeOK, VersionInv, ever \subseteq ever',
           \A p \in Procs : mem'[p] \in ever',
           \A w \in Workers : local'[w].snap \in ever',
           \A w \in Workers, f \in File :
               local'[w].old[f] \in {local[w].old[f], file[f], Absent, Torn},
           \A f \in File : Sourced(f, file'[f]),
           \A s \in Service : loaded'[s] \in {loaded[s], Served(file[s])}
    PROVE  VersionInv'
<1>1. \A f \in File : Sourced(f, file[f]) /\ Sourced(f, Absent) /\ Sourced(f, Torn)
  BY DEF VersionInv, ConsistentVersions, Sourced, Whole
<1>2. \A w \in Workers, f \in File : Sourced(f, local'[w].old[f])
  BY <1>1 DEF VersionInv
<1>3. \A w \in Workers, f \in File : Sourced(f, local[w].old[f])'
  BY <1>2, SourcedGrows
<1>4. \A f \in File : Sourced(f, file[f])'
  BY SourcedGrows
<1>5. ASSUME NEW s \in Service, loaded'[s] # Torn
      PROVE  \E m \in ever' : loaded'[s] = Served(Text(s, m))
  <2>1. CASE loaded'[s] = loaded[s]
    BY <1>5, <2>1 DEF VersionInv, ConsistentVersions
  <2>2. CASE loaded'[s] = Served(file[s])
    <3>1. Sourced(s, file[s]) /\ {} \in ever
      BY <1>1 DEF VersionInv, File
    <3> QED
      BY <1>5, <2>2, <3>1, ServedSourced
  <2> QED
    BY <2>1, <2>2
<1>6. ConsistentVersions'
  BY <1>4, <1>5 DEF ConsistentVersions, Sourced, Whole
<1> QED
  BY <1>3, <1>6 DEF VersionInv

(* What a write leaves is what was there, what was written, or torn. *)
LEMMA WriteSourced ==
    ASSUME NEW w \in Workers, NEW f \in File, NEW c,
           Sourced(f, file[f]), Sourced(f, c)
    PROVE  /\ \A d \in Mixed(w, f, c) : Sourced(f, d)
           /\ \A d \in Partial(w, f) : Sourced(f, d)
BY DEF Mixed, Partial, Sourced, Whole

(* The steps of a worker keep the files and the memories sourced. *)
LEMMA RunVersions ==
    ASSUME TypeOK, VersionInv, NEW w \in Workers, Run(w)
    PROVE  VersionInv'
<1> DEFINE Kept == /\ ever \subseteq ever'
                   /\ \A p \in Procs : mem'[p] \in ever'
                   /\ \A v \in Workers : local'[v].snap \in ever'
                   /\ \A v \in Workers, f \in File :
                         local'[v].old[f] \in {local[v].old[f], file[f], Absent, Torn}
                   /\ \A f \in File : Sourced(f, file'[f])
                   /\ \A s \in Service : loaded'[s] \in {loaded[s], Served(file[s])}
<1> SUFFICES Kept
  BY VersionsKept
<1>1. /\ \A f \in File : Sourced(f, file[f])
      /\ \A f \in File : Sourced(f, Absent) /\ Sourced(f, Empty)
      /\ {} \in ever
      /\ \A p \in Procs : mem[p] \in ever
      /\ \A v \in Workers : local[v].snap \in ever
  BY DEF VersionInv, ConsistentVersions, Sourced, Whole
<1>2. local[w] \in Locals /\ local[w].at \in File /\ Host[w] \in Procs
  BY ShareAssumption DEF TypeOK, Locals
<1>3. NoLocals.snap = {} /\ \A f \in File : NoLocals.old[f] = Absent
  BY DEF NoLocals, NoText
<1>4. /\ local \in [Workers -> Locals]
      /\ mem \in [Procs -> SUBSET Shares]
      /\ file \in [File -> Content]
      /\ DOMAIN loaded = Service
  BY DEF TypeOK
<1>5. ASSUME NEW r, local' = [local EXCEPT ![w] = NoLocals] \/ UNCHANGED local
      PROVE  /\ \A v \in Workers : local'[v].snap \in ever
             /\ \A v \in Workers, f \in File : local'[v].old[f] \in {local[v].old[f], Absent}
  BY <1>1, <1>3, <1>4, <1>5
<1>6. CASE Check(w)
  BY <1>1, <1>5, <1>6 DEF Check, Fail, Finish, procVars, diskVars
<1>7. CASE Validate(w)
  BY <1>1, <1>5, <1>7 DEF Validate, Fail, Finish, procVars, diskVars
<1>8. CASE GetPrev(w)
  <2>1. CASE Found(w) # {}
    <3>1. local' = [local EXCEPT ![w].prev = Found(w)]
      BY <1>8, <2>1 DEF GetPrev
    <3>2. \A v \in Workers : local'[v].snap = local[v].snap /\ local'[v].old = local[v].old
      BY <1>4, <3>1 DEF Locals
    <3> QED
      BY <1>1, <1>8, <3>2 DEF GetPrev, Fail, procVars, diskVars
  <2>2. CASE Found(w) = {}
    BY <1>1, <1>5, <1>8, <2>2 DEF GetPrev, Fail, Finish, procVars, diskVars
  <2> QED
    BY <2>1, <2>2
<1>9. CASE Apply(w)
  <2>1. CASE Accepted(w)
    BY <1>1, <1>2, <1>4, <1>9, <2>1 DEF Apply, SetMem, diskVars
  <2>2. CASE ~Accepted(w)
    BY <1>1, <1>5, <1>9, <2>2 DEF Apply, Fail, Finish, diskVars
  <2> QED
    BY <2>1, <2>2
<1>10. CASE Snapshot(w)
  <2>1. local' = [local EXCEPT ![w].snap = Mine(w), ![w].at = "state"]
    BY <1>10 DEF Snapshot
  <2>2. Mine(w) \in ever
    BY <1>1, <1>2 DEF Mine
  <2>3. \A v \in Workers : local'[v].snap \in ever /\ local'[v].old = local[v].old
    BY <1>1, <1>4, <2>1, <2>2 DEF Locals
  <2> QED
    BY <1>1, <1>10, <2>3 DEF Snapshot, procVars, diskVars, histVars
<1>11. CASE Read(w)
  <2>1. PICK c \in ReadOf(local[w].at) :
           \E g : local' = [local EXCEPT ![w].old[local[w].at] = c, ![w].at = g]
    BY <1>11 DEF Read
  <2>2. \A v \in Workers : local'[v].snap = local[v].snap
    BY <1>4, <2>1 DEF Locals
  <2>3. \A v \in Workers, f \in File : local'[v].old[f] \in {local[v].old[f], file[f], Absent, Torn}
    BY <1>2, <1>4, <2>1 DEF Locals, ReadOf
  <2>4. UNCHANGED <<mem, file, loaded, ever>>
    BY <1>11 DEF Read, procVars, diskVars, histVars
  <2> QED
    BY <1>1, <2>2, <2>3, <2>4
<1>12. CASE Open(w)
  BY <1>1, <1>4, <1>12 DEF Open, procVars, histVars
<1>13. ASSUME NEW g, local' = [local EXCEPT ![w].at = g]
       PROVE  \A v \in Workers : local'[v].snap = local[v].snap /\ local'[v].old = local[v].old
  BY <1>4, <1>13 DEF Locals
<1>14. CASE Write(w)
  <2>1. Sourced(local[w].at, Text(local[w].at, local[w].snap))
    BY <1>1 DEF Sourced
  <2>2. \A f \in File : Sourced(f, file'[f])
    BY <1>1, <1>2, <1>4, <1>14, <2>1, WriteSourced DEF Write
  <2>3. \A v \in Workers : local'[v].snap = local[v].snap /\ local'[v].old = local[v].old
    BY <1>13, <1>14 DEF Write
  <2> QED
    BY <1>1, <1>14, <2>2, <2>3 DEF Write, procVars, histVars
<1>15. CASE WriteFails(w)
  <2>1. \A f \in File : Sourced(f, file'[f])
    BY <1>1, <1>2, <1>4, <1>15, WriteSourced DEF WriteFails
  <2> QED
    BY <1>1, <1>15, <2>1 DEF WriteFails, procVars, histVars
<1>16. ASSUME AfterCommand(w)
       PROVE  /\ \A v \in Workers : local'[v].snap \in ever
              /\ \A v \in Workers, f \in File : local'[v].old[f] \in {local[v].old[f], Absent}
  <2>1. CASE local[w].at = "smb"
    BY <1>1, <1>13, <1>16, <2>1 DEF AfterCommand
  <2>2. CASE local[w].at # "smb"
    BY <1>5, <1>16, <2>2 DEF AfterCommand, Succeed, Finish
  <2> QED
    BY <2>1, <2>2
<1>17. CASE SkipCommand(w)
  BY <1>1, <1>16, <1>17 DEF SkipCommand, procVars, diskVars
<1>18. CASE Command(w)
  BY <1>1, <1>4, <1>16, <1>18 DEF Command, procVars
<1>19. CASE CommandFails(w)
  <2>1. \A s \in Service : loaded'[s] \in {loaded[s], Served(file[s])}
    BY <1>4, <1>19 DEF CommandFails
  <2>2. \A v \in Workers : local'[v].snap = local[v].snap /\ local'[v].old = local[v].old
    BY <1>13, <1>19 DEF CommandFails
  <2> QED
    BY <1>1, <1>19, <2>1, <2>2 DEF CommandFails, procVars, histVars
<1>20. ASSUME AfterRestore(w)
       PROVE  \A v \in Workers : local'[v].snap = local[v].snap /\ local'[v].old = local[v].old
  BY <1>13, <1>20 DEF AfterRestore
<1>21. CASE Remove(w)
  BY <1>1, <1>2, <1>4, <1>20, <1>21 DEF Remove, procVars, histVars
<1>22. CASE Reopen(w)
  BY <1>1, <1>2, <1>4, <1>22 DEF Reopen, procVars, histVars
<1>23. CASE Rewrite(w)
  <2>1. Sourced(local[w].at, local[w].old[local[w].at])
    BY <1>2 DEF VersionInv
  <2>2. \A f \in File : Sourced(f, file'[f])
    BY <1>1, <1>2, <1>4, <1>23, <2>1, WriteSourced DEF Rewrite
  <2> QED
    BY <1>1, <1>20, <1>23, <2>2 DEF Rewrite, procVars, histVars
<1>24. CASE RestoreFails(w)
  <2>1. \A f \in File : Sourced(f, file'[f])
    BY <1>1, <1>2, <1>4, <1>24, WriteSourced DEF RestoreFails
  <2> QED
    BY <1>1, <1>20, <1>24, <2>1 DEF RestoreFails, procVars, histVars
<1>25. CASE Undo(w)
  BY <1>1, <1>2, <1>4, <1>5, <1>25 DEF Undo, SetMem, Fail, Finish, diskVars
<1> QED
  BY <1>6, <1>7, <1>8, <1>9, <1>10, <1>11, <1>12, <1>14, <1>15, <1>17, <1>18, <1>19,
     <1>21, <1>22, <1>23, <1>24, <1>25 DEF Run, Reload

(* Every step of the system keeps them sourced. *)
LEMMA StepVersions == TypeOK /\ VersionInv /\ [Next]_vars => VersionInv'
<1> SUFFICES ASSUME TypeOK, VersionInv, [Next]_vars PROVE VersionInv'
  OBVIOUS
<1>1. /\ \A f \in File : Sourced(f, file[f])
      /\ {} \in ever
      /\ \A p \in Procs : mem[p] \in ever
      /\ \A v \in Workers : local[v].snap \in ever
  BY DEF VersionInv, ConsistentVersions, Sourced, Whole
<1>2. mem \in [Procs -> SUBSET Shares] /\ local \in [Workers -> Locals]
  BY DEF TypeOK
<1>3. ASSUME NEW w \in Workers, Run(w) PROVE VersionInv'
  BY <1>3, RunVersions
<1>4. ASSUME NEW w \in Workers, NEW r \in Requests, Begin(w, r) PROVE VersionInv'
  BY <1>1, <1>4, VersionsKept DEF Begin, procVars, diskVars
<1>5. ASSUME NEW p \in Procs, Start(p) PROVE VersionInv'
  <2>1. \A c \in ReadOf("state") : Parse(c) \in ever
    BY <1>1, ParseSourced DEF File, ReadOf, Sourced, Whole
  <2> QED
    BY <1>1, <1>2, <1>5, <2>1, VersionsKept DEF Start, SetMem, diskVars, taskVars
<1>6. ASSUME NEW p \in Procs, Stop(p) PROVE VersionInv'
  BY <1>1, <1>2, <1>6, VersionsKept DEF Stop, diskVars, taskVars, histVars
<1>7. ASSUME NEW p \in Procs, Crash(p) PROVE VersionInv'
  <2>1. NoLocals.snap = {} /\ \A f \in File : NoLocals.old[f] = Absent
    BY DEF NoLocals, NoText
  <2>2. \A v \in Workers : local'[v] \in {local[v], NoLocals}
    BY <1>7 DEF Crash
  <2>3. \A v \in Workers, f \in File : local'[v].old[f] \in {local[v].old[f], file[f], Absent, Torn}
    BY <2>1, <2>2
  <2>4. \A v \in Workers : local'[v].snap \in ever
    BY <1>1, <2>1, <2>2
  <2> QED
    BY <1>1, <1>2, <1>7, <2>3, <2>4, VersionsKept DEF Crash
<1>8. CASE UNCHANGED vars
  BY <1>1, <1>8, VersionsKept DEF vars, procVars, diskVars, taskVars, histVars
<1> QED
  BY <1>3, <1>4, <1>5, <1>6, <1>7, <1>8 DEF Next

(* A whole file was generated from one memory, and a service serves one,    *)
(* whatever requests overlap, fail or die.                                  *)
THEOREM VersionsConsistent == Spec => []ConsistentVersions
<1>1. Init => TypeOK /\ VersionInv
  BY InitType, InitVersions
<1>2. TypeOK /\ VersionInv /\ [Next]_vars => (TypeOK /\ VersionInv)'
  BY StepType, StepVersions
<1>3. VersionInv => ConsistentVersions
  BY DEF VersionInv
<1> QED
  BY <1>1, <1>2, <1>3, PTL DEF Spec
-----------------------------------------------------------------------------
(* The maps that a request makes of a well-formed map are well-formed. *)
Good(m) == IsMap(m) /\ \A s \in m : ValidShare(s)

LEMMA ChangedGood ==
    ASSUME TypeOK, NEW w \in Workers, Good(Mine(w)),
           req[w].op # "delete" => ValidShare(req[w].share)
    PROVE  Good(Changed(w))
BY DEF Good, IsMap, Changed, Put, Without, Mine

LEMMA UndoneGood ==
    ASSUME TypeOK, NEW w \in Workers, pc[w] # "idle", Good(Mine(w)), IsMap(local[w].prev),
           \A s \in local[w].prev : s.name = Name(w) /\ ValidShare(s)
    PROVE  Good(Undone(w))
<1>1. req[w].op \in {"create", "update", "delete"}
  BY DEF TypeOK, Request, ShareOp
<1>2. CASE req[w].op = "create"
  BY <1>2 DEF Good, IsMap, Undone, Without
<1>3. CASE req[w].op = "update"
  BY <1>3 DEF Good, IsMap, Undone, Without
<1>4. CASE req[w].op = "delete"
  BY <1>4 DEF Good, IsMap, Undone, Found, Named
<1> QED
  BY <1>1, <1>2, <1>3, <1>4

LEMMA InitWellFormed == Init => WellFormedInv
BY ShareAssumption DEF Init, WellFormedInv, MemoryWellFormed, IsMap, NoLocals, Changing

(* The steps of a worker keep memory well-formed. *)
LEMMA RunWellFormed ==
    ASSUME TypeOK, VersionInv, WellFormedInv, NEW w \in Workers, Run(w)
    PROVE  WellFormedInv'
<1> DEFINE Sound(v) ==
        /\ pc[v] \in Changing /\ req[v].op # "delete" => ValidShare(req[v].share)
        /\ \A s \in local[v].prev : s.name = Name(v) /\ ValidShare(s)
        /\ IsMap(local[v].prev)
        /\ pc[v] \notin Changing => local[v].prev = {}
<1>1. /\ Host[w] \in Procs /\ Good(Mine(w)) /\ Sound(w)
      /\ \A v \in Workers : Sound(v)
      /\ \A m \in ever : Good(m)
  BY ShareAssumption DEF VersionInv, WellFormedInv, MemoryWellFormed, Good, Mine
<1>2. /\ local \in [Workers -> Locals] /\ DOMAIN req = Workers /\ DOMAIN pc = Workers
      /\ DOMAIN mem = Procs
  BY DEF TypeOK
<1>3. \A v \in Workers \ {w} : pc'[v] = pc[v] /\ req'[v] = req[v] /\ local'[v] = local[v]
  <2>1. ASSUME NEW v \in Workers \ {w} PROVE pc'[v] = pc[v]
    BY <1>2 DEF Run, Reload, Check, Validate, GetPrev, Apply, Undo, Snapshot, Read, Open, Write,
       WriteFails, SkipCommand, Command, CommandFails, AfterCommand, Remove, Reopen, Rewrite,
       RestoreFails, AfterRestore, Goto, Succeed, Fail, Finish
  <2>2. ASSUME NEW v \in Workers \ {w} PROVE req'[v] = req[v]
    BY <1>2 DEF Run, Reload, Check, Validate, GetPrev, Apply, Undo, Snapshot, Read, Open, Write,
       WriteFails, SkipCommand, Command, CommandFails, AfterCommand, Remove, Reopen, Rewrite,
       RestoreFails, AfterRestore, Goto, Succeed, Fail, Finish
  <2>3. ASSUME NEW v \in Workers \ {w} PROVE local'[v] = local[v]
    BY <1>2 DEF Run, Reload, Check, Validate, GetPrev, Apply, Undo, Snapshot, Read, Open, Write,
       WriteFails, SkipCommand, Command, CommandFails, AfterCommand, Remove, Reopen, Rewrite,
       RestoreFails, AfterRestore, Goto, Succeed, Fail, Finish
  <2> QED
    BY <2>1, <2>2, <2>3
<1> SUFFICES (\A m \in ever' : Good(m)) /\ Sound(w)'
  <2>1. \A v \in Workers \ {w} : Sound(v)'
    BY <1>1, <1>3 DEF Name
  <2> QED
    BY <2>1 DEF WellFormedInv, MemoryWellFormed, Good
<1>4. ASSUME pc' = [pc EXCEPT ![w] = "idle"], local' = [local EXCEPT ![w] = NoLocals]
      PROVE  Sound(w)'
  BY <1>2, <1>4 DEF NoLocals, IsMap, Changing
<1>5. ASSUME NEW q \in Changing, pc' = [pc EXCEPT ![w] = q], pc[w] \in Changing,
             UNCHANGED req, local'[w].prev = local[w].prev
      PROVE  Sound(w)'
  BY <1>1, <1>2, <1>5 DEF Name
<1>6. CASE Check(w)
  BY <1>1, <1>2, <1>4, <1>6 DEF Check, Fail, Finish, Goto, Name, Changing
<1>7. CASE Validate(w)
  <2>1. CASE req[w].op = "delete" \/ ValidShare(req[w].share)
    BY <1>1, <1>2, <1>7, <2>1 DEF Validate, Goto, Name, Changing
  <2>2. CASE ~(req[w].op = "delete" \/ ValidShare(req[w].share))
    BY <1>1, <1>4, <1>7, <2>2 DEF Validate, Fail, Finish, Goto
  <2> QED
    BY <2>1, <2>2
<1>8. CASE GetPrev(w)
  <2>1. CASE Found(w) # {}
    <3>1. local'[w].prev = Found(w) /\ UNCHANGED <<req, ever>> /\ pc'[w] = "apply"
      BY <1>2, <1>8, <2>1 DEF GetPrev, Locals, Goto
    <3>2. \A s \in Found(w) : s.name = Name(w) /\ s \in Mine(w)
      BY DEF Found, Named
    <3>3. pc[w] = "get"
      BY <1>8 DEF GetPrev
    <3> QED
      BY <1>1, <3>1, <3>2, <3>3 DEF Good, IsMap, Name, Changing
  <2>2. CASE Found(w) = {}
    BY <1>1, <1>4, <1>8, <2>2 DEF GetPrev, Fail, Finish, Goto
  <2> QED
    BY <2>1, <2>2
<1>9. CASE Apply(w)
  <2>1. CASE Accepted(w)
    <3>1. Good(Changed(w))
      BY <1>1, <1>9, ChangedGood DEF Apply, Changing
    <3>2. ever' = ever \cup {Changed(w)}
      BY <1>9, <2>1 DEF Apply, SetMem
    <3> QED
      BY <1>1, <1>5, <1>9, <2>1, <3>1, <3>2 DEF Apply, Goto, Changing
  <2>2. CASE ~Accepted(w)
    BY <1>1, <1>4, <1>9, <2>2 DEF Apply, Fail, Finish, Goto
  <2> QED
    BY <2>1, <2>2
<1>10. CASE Snapshot(w) \/ Read(w)
  <2>1. UNCHANGED <<req, ever>>
    BY <1>10 DEF Snapshot, Read, histVars
  <2>2. local'[w].prev = local[w].prev
    BY <1>2, <1>10 DEF Snapshot, Read, Locals
  <2>3. pc[w] \in Changing /\ \E q \in Changing : pc' = [pc EXCEPT ![w] = q]
    BY <1>10 DEF Snapshot, Read, Goto, Changing
  <2> QED
    BY <1>1, <1>5, <2>1, <2>2, <2>3
<1>11. ASSUME NEW g, local' = [local EXCEPT ![w].at = g] PROVE local'[w].prev = local[w].prev
  BY <1>2, <1>11 DEF Locals
<1>12. CASE Open(w) \/ Write(w) \/ WriteFails(w) \/ CommandFails(w) \/ Remove(w)
            \/ Reopen(w) \/ Rewrite(w) \/ RestoreFails(w)
  <2>1. UNCHANGED <<req, ever>>
    BY <1>12 DEF Open, Write, WriteFails, CommandFails, Remove, Reopen, Rewrite, RestoreFails,
       histVars
  <2>2. local'[w].prev = local[w].prev
    BY <1>11, <1>12 DEF Open, Write, WriteFails, CommandFails, Remove, Reopen, Rewrite,
       RestoreFails, AfterRestore
  <2>3. pc[w] \in Changing /\ \E q \in Changing : pc' = [pc EXCEPT ![w] = q]
    BY <1>12 DEF Open, Write, WriteFails, CommandFails, Remove, Reopen, Rewrite,
       RestoreFails, AfterRestore, Goto, Changing
  <2> QED
    BY <1>1, <1>5, <2>1, <2>2, <2>3
<1>13. CASE SkipCommand(w) \/ Command(w)
  <2>1. UNCHANGED ever /\ AfterCommand(w) /\ pc[w] = "command"
    BY <1>13 DEF SkipCommand, Command
  <2>2. CASE local[w].at = "smb"
    BY <1>1, <1>2, <1>11, <2>1, <2>2 DEF AfterCommand, Name, Changing
  <2>3. CASE local[w].at # "smb"
    BY <1>1, <1>4, <2>1, <2>3 DEF AfterCommand, Succeed, Finish, Goto
  <2> QED
    BY <2>2, <2>3
<1>14. CASE Undo(w)
  <2>1. Good(Undone(w))
    BY <1>1, <1>14, UndoneGood DEF Undo
  <2>2. ever' = ever \cup {Undone(w)}
    BY <1>14 DEF Undo, SetMem
  <2> QED
    BY <1>1, <1>4, <1>14, <2>1, <2>2 DEF Undo, Fail, Finish, Goto
<1> QED
  BY <1>6, <1>7, <1>8, <1>9, <1>10, <1>12, <1>13, <1>14 DEF Run, Reload

(* Every step of the system keeps memory well-formed. *)
LEMMA StepWellFormed ==
    TypeOK /\ VersionInv /\ WellFormedInv /\ [Next]_vars => WellFormedInv'
<1> SUFFICES ASSUME TypeOK, VersionInv, WellFormedInv, [Next]_vars PROVE WellFormedInv'
  OBVIOUS
<1> USE DEF WellFormedInv, MemoryWellFormed
<1>1. ASSUME NEW w \in Workers, Run(w) PROVE WellFormedInv'
  BY <1>1, RunWellFormed
<1>2. ASSUME NEW w \in Workers, NEW r \in Requests, Begin(w, r) PROVE WellFormedInv'
  <2>1. local[w].prev = {} /\ "idle" \notin Changing
    BY <1>2 DEF Begin, Idle, Changing
  <2>2. DOMAIN pc = Workers /\ DOMAIN req = Workers
    BY DEF TypeOK
  <2>3. pc'[w] \notin Changing /\ UNCHANGED <<local, ever>>
    BY <1>2, <2>2 DEF Begin, FirstStep, Goto, Changing
  <2>4. \A v \in Workers \ {w} : pc'[v] = pc[v] /\ req'[v] = req[v]
    BY <1>2, <2>2 DEF Begin, Goto
  <2> QED
    BY <2>1, <2>3, <2>4 DEF Name
<1>3. ASSUME NEW p \in Procs, Start(p) PROVE WellFormedInv'
  <2>1. \A c \in ReadOf("state") : Parse(c) \in ever
    BY ParseSourced DEF VersionInv, ConsistentVersions, Sourced, Whole, File, ReadOf
  <2> QED
    BY <1>3, <2>1 DEF Start, SetMem, taskVars, Name
<1>4. ASSUME NEW p \in Procs, Stop(p) PROVE WellFormedInv'
  BY <1>4 DEF Stop, taskVars, histVars, Name
<1>5. ASSUME NEW p \in Procs, Crash(p) PROVE WellFormedInv'
  <2>1. \A v \in Workers : \/ (pc'[v] = pc[v] /\ req'[v] = req[v] /\ local'[v] = local[v])
                           \/ (pc'[v] = "idle" /\ local'[v] = NoLocals)
    BY <1>5 DEF Crash
  <2> QED
    BY <1>5, <2>1 DEF Crash, Name, NoLocals, IsMap, Changing
<1>6. CASE UNCHANGED vars
  BY <1>6 DEF vars, taskVars, histVars, Name
<1> QED
  BY <1>1, <1>2, <1>3, <1>4, <1>5, <1>6 DEF Next

(* No memory ever holds a share that validation refuses, although rollbacks  *)
(* and start-up put shares into it unvalidated.                              *)
THEOREM MemoryStaysWellFormed == Spec => []MemoryWellFormed
<1>1. Init => TypeOK /\ VersionInv /\ WellFormedInv
  BY InitType, InitVersions, InitWellFormed
<1>2. TypeOK /\ VersionInv /\ WellFormedInv /\ [Next]_vars
      => (TypeOK /\ VersionInv /\ WellFormedInv)'
  BY StepType, StepVersions, StepWellFormed
<1>3. WellFormedInv => MemoryWellFormed
  BY DEF WellFormedInv
<1> QED
  BY <1>1, <1>2, <1>3, PTL DEF Spec
-----------------------------------------------------------------------------
(* What a request makes of a map, it makes under its own name only. *)
LEMMA ChangedFrame ==
    ASSUME NEW w, NEW n, n # Name(w)
    PROVE  Named(Changed(w), n) = Named(Mine(w), n)
BY DEF Changed, Put, Without, Named, Name

LEMMA UndoneFrame ==
    ASSUME TypeOK, NEW w \in Workers, pc[w] # "idle", NEW n, n # Name(w),
           \A s \in local[w].prev : s.name = Name(w)
    PROVE  Named(Undone(w), n) = Named(Mine(w), n)
<1>1. req[w].op \in {"create", "update", "delete"}
  BY DEF TypeOK, Request, ShareOp
<1> QED
  BY <1>1 DEF Undone, Without, Named, Name

(* A step on the memory of a running process changes the share of one       *)
(* request it is serving and no other.                                      *)
THEOREM OthersUntouched == Spec => OtherSharesUntouched
<1> DEFINE Step == \A p \in Procs, n \in Names :
                      up[p] /\ up'[p] /\ Named(mem'[p], n) # Named(mem[p], n) =>
                         \E w \in Hosted(p) : pc[w] \in {"apply", "undo"} /\ Name(w) = n
<1>1. ASSUME TypeOK, WellFormedInv, [Next]_vars PROVE [Step]_vars
  <2> SUFFICES ASSUME NEW p \in Procs, NEW n \in Names, up[p], up'[p],
                      Named(mem'[p], n) # Named(mem[p], n)
               PROVE  \E w \in Hosted(p) : pc[w] \in {"apply", "undo"} /\ Name(w) = n
    OBVIOUS
  <2>1. DOMAIN mem = Procs /\ DOMAIN up = Procs /\ mem'[p] # mem[p]
    BY <1>1 DEF TypeOK
  <2>2. ~UNCHANGED procVars
    BY <2>1 DEF procVars
  <2>3. Next
    BY <1>1, <2>2 DEF vars, procVars
  <2>4. ASSUME NEW q \in Procs, Start(q) \/ Stop(q) \/ Crash(q) PROVE FALSE
    BY <2>1, <2>4 DEF Start, Stop, Crash, SetMem
  <2>5. ~\E w \in Workers, r \in Requests : Begin(w, r)
    BY <2>2 DEF Begin
  <2>6. PICK w \in Workers : Run(w)
    BY <2>3, <2>4, <2>5 DEF Next
  <2>7. ~Reload(w) /\ ~Check(w) /\ ~Validate(w) /\ ~GetPrev(w)
    BY <2>2 DEF Reload, Check, Validate, GetPrev, Snapshot, Read, Open, Write, WriteFails,
       SkipCommand, Command, CommandFails, Remove, Reopen, Rewrite, RestoreFails
  <2>8. CASE Apply(w)
    <3>1. mem' = [mem EXCEPT ![Host[w]] = Changed(w)] /\ pc[w] = "apply"
      BY <2>1, <2>8 DEF Apply, SetMem
    <3>2. Host[w] = p /\ mem'[p] = Changed(w) /\ mem[p] = Mine(w)
      BY <2>1, <3>1 DEF Mine
    <3>3. Name(w) = n
      BY <3>2, ChangedFrame
    <3> QED
      BY <3>1, <3>2, <3>3 DEF Hosted
  <2>9. CASE Undo(w)
    <3>1. mem' = [mem EXCEPT ![Host[w]] = Undone(w)] /\ pc[w] = "undo"
      BY <2>9 DEF Undo, SetMem
    <3>2. Host[w] = p /\ mem'[p] = Undone(w) /\ mem[p] = Mine(w)
      BY <2>1, <3>1 DEF Mine
    <3>3. Name(w) = n
      BY <1>1, <3>1, <3>2, UndoneFrame DEF WellFormedInv
    <3> QED
      BY <3>1, <3>2, <3>3 DEF Hosted
  <2> QED
    BY <2>6, <2>7, <2>8, <2>9 DEF Run
<1>2. Init => TypeOK /\ VersionInv /\ WellFormedInv
  BY InitType, InitVersions, InitWellFormed
<1>3. TypeOK /\ VersionInv /\ WellFormedInv /\ [Next]_vars
      => (TypeOK /\ VersionInv /\ WellFormedInv)'
  BY StepType, StepVersions, StepWellFormed
<1> QED
  BY <1>1, <1>2, <1>3, PTL DEF Spec, OtherSharesUntouched
-----------------------------------------------------------------------------
(* The inductive invariant behind AckedInMemory.  Under a name that no two  *)
(* requests fought over, memory is what the answers promised, unless the    *)
(* one request in progress under that name has changed it; then that        *)
(* request knows what was there before.                                     *)
Promised(w) == Named(acked[Host[w]], Name(w))
Effect(w) == IF req[w].op = "delete" THEN {} ELSE {req[w].share}

Tracked(w) ==
    /\ pc[w] \in Uncommitted => /\ Found(w) = Effect(w)
                                /\ (Promised(w) = {}) <=> (req[w].op = "create")
    /\ pc[w] \in Uncommitted \cup {"apply"} /\ req[w].op # "create" =>
          local[w].prev = Promised(w)

Sure == (Names \cup {BadName}) \ unsure
Alone == \A v, w \in Workers :
            ~Idle(v) /\ ~Idle(w) /\ Name(v) = Name(w) /\ Name(w) \in Sure => v = w
InMemory(p, n) ==
    up[p] /\ (\A w \in Hosted(p) : pc[w] \in Uncommitted => Name(w) # n) =>
       Named(mem[p], n) = Named(acked[p], n)

AnswerInv ==
    /\ \A w \in Workers : ~Idle(w) => up[Host[w]]
    /\ Alone
    /\ \A w \in Workers : ~Idle(w) /\ Name(w) \in Sure => Tracked(w)
    /\ \A p \in Procs, n \in Sure : InMemory(p, n)

(* The change of a request, and its undoing, under its own name. *)
LEMMA ChangedOwn ==
    ASSUME NEW w
    PROVE  Named(Changed(w), Name(w)) = Effect(w)
BY DEF Changed, Put, Without, Named, Name, Effect

LEMMA UndoneOwn ==
    ASSUME TypeOK, WellFormedInv, NEW w \in Workers, pc[w] = "undo", Tracked(w)
    PROVE  Named(Undone(w), Name(w)) = Promised(w)
<1>1. /\ req[w].op \in {"create", "update", "delete"}
      /\ \A s \in local[w].prev : s.name = Name(w)
  BY DEF TypeOK, Request, ShareOp, WellFormedInv
<1>2. /\ Found(w) = Effect(w)
      /\ (Promised(w) = {}) <=> (req[w].op = "create")
      /\ req[w].op # "create" => local[w].prev = Promised(w)
  BY DEF Tracked, Uncommitted
<1>3. CASE req[w].op = "create"
  BY <1>2, <1>3 DEF Undone, Without, Named
<1>4. CASE req[w].op = "update"
  <2>1. Found(w) # {}
    BY <1>2, <1>4 DEF Effect
  <2>2. Undone(w) = Without(Mine(w), Name(w)) \cup local[w].prev
    BY <1>4, <2>1 DEF Undone
  <2>3. Named(Undone(w), Name(w)) = local[w].prev
    BY <1>1, <2>2 DEF Without, Named
  <2> QED
    BY <1>2, <1>4, <2>3
<1>5. CASE req[w].op = "delete"
  <2>1. Found(w) = {} /\ Undone(w) = Mine(w) \cup local[w].prev
    BY <1>2, <1>5 DEF Effect, Undone
  <2>2. Named(Undone(w), Name(w)) = local[w].prev
    BY <1>1, <2>1 DEF Found, Named
  <2> QED
    BY <1>2, <1>5, <2>2
<1> QED
  BY <1>1, <1>3, <1>4, <1>5

(* What a step of w makes of the memory and the promises of its process     *)
(* lies under its name.                                                     *)
LEMMA OthersFrame ==
    ASSUME TypeOK, WellFormedInv, NEW w \in Workers, Run(w), NEW p \in Procs, NEW n,
           p # Host[w] \/ n # Name(w)
    PROVE  Named(mem'[p], n) = Named(mem[p], n) /\ Named(acked'[p], n) = Named(acked[p], n)
<1>1. DOMAIN mem = Procs /\ DOMAIN acked = Procs
  BY DEF TypeOK
<1>2. Named(mem'[p], n) = Named(mem[p], n)
  <2>1. CASE Apply(w) /\ Accepted(w)
    <3>1. mem' = [mem EXCEPT ![Host[w]] = Changed(w)]
      BY <2>1 DEF Apply, SetMem
    <3> QED
      BY <1>1, <3>1, ChangedFrame DEF Mine
  <2>2. CASE Undo(w)
    <3>1. mem' = [mem EXCEPT ![Host[w]] = Undone(w)] /\ pc[w] # "idle"
      BY <2>2 DEF Undo, SetMem
    <3>2. n # Name(w) => Named(Undone(w), n) = Named(Mine(w), n)
      BY <3>1, UndoneFrame DEF WellFormedInv
    <3> QED
      BY <1>1, <3>1, <3>2 DEF Mine
  <2>3. CASE ~(Apply(w) /\ Accepted(w)) /\ ~Undo(w)
    <3>1. UNCHANGED mem
      BY <2>3 DEF Run, Reload, Check, Validate, GetPrev, Apply, Snapshot, Read, Open, Write,
         WriteFails, SkipCommand, Command, CommandFails, Remove, Reopen, Rewrite, RestoreFails,
         procVars
    <3> QED
      BY <3>1
  <2> QED
    BY <2>1, <2>2, <2>3
<1>3. Named(acked'[p], n) = Named(acked[p], n)
  <2>1. CASE Succeed(w)
    <3>1. acked' = [acked EXCEPT ![Host[w]] = IF req[w].op = "delete"
                                              THEN Without(@, Name(w)) ELSE Put(@, req[w].share)]
      BY <2>1 DEF Succeed
    <3> QED
      BY <1>1, <3>1 DEF Put, Without, Named, Name
  <2>2. CASE ~Succeed(w)
    <3>1. UNCHANGED acked
      BY <2>2 DEF Run, Reload, Check, Validate, GetPrev, Apply, Undo, Fail, Snapshot, Read, Open,
         Write, WriteFails, SkipCommand, Command, CommandFails, AfterCommand, Remove, Reopen,
         Rewrite, RestoreFails, histVars
    <3> QED
      BY <3>1
  <2> QED
    BY <2>1, <2>2
<1> QED
  BY <1>2, <1>3

(* A step of w touches the program counter, the request and the locals of w *)
(* only.                                                                    *)
LEMMA WorkerFrame ==
    ASSUME TypeOK, NEW w \in Workers, Run(w)
    PROVE  /\ pc[w] # "idle" /\ UNCHANGED <<up, unsure>>
           /\ \A v \in Workers \ {w} : pc'[v] = pc[v] /\ req'[v] = req[v] /\ local'[v] = local[v]
           /\ pc'[w] # "idle" => req'[w] = req[w]
<1>1. DOMAIN pc = Workers /\ DOMAIN req = Workers /\ DOMAIN local = Workers
  BY DEF TypeOK
<1>2. pc[w] # "idle" /\ UNCHANGED <<up, unsure>>
  BY DEF Run, Reload, Check, Validate, GetPrev, Apply, Undo, Snapshot, Read, Open, Write,
     WriteFails, SkipCommand, Command, CommandFails, Remove, Reopen, Rewrite, RestoreFails,
     procVars, histVars
<1>3. \A v \in Workers \ {w} : pc'[v] = pc[v]
  BY <1>1 DEF Run, Reload, Check, Validate, GetPrev, Apply, Undo, Snapshot, Read, Open, Write,
     WriteFails, SkipCommand, Command, CommandFails, AfterCommand, Remove, Reopen, Rewrite,
     RestoreFails, AfterRestore, Goto, Succeed, Fail, Finish
<1>4. \A v \in Workers \ {w} : local'[v] = local[v]
  BY <1>1 DEF Run, Reload, Check, Validate, GetPrev, Apply, Undo, Snapshot, Read, Open, Write,
     WriteFails, SkipCommand, Command, CommandFails, AfterCommand, Remove, Reopen, Rewrite,
     RestoreFails, AfterRestore, Goto, Succeed, Fail, Finish
<1>5. UNCHANGED req \/ \E r : Finish(w, r)
  BY DEF Run, Reload, Check, Validate, GetPrev, Apply, Undo, Snapshot, Read, Open, Write,
     WriteFails, SkipCommand, Command, CommandFails, AfterCommand, Remove, Reopen, Rewrite,
     RestoreFails, Succeed, Fail
<1> QED
  BY <1>1, <1>2, <1>3, <1>4, <1>5 DEF Finish, Goto

(* So a step of w keeps the invariant when it does for w and its name. *)
LEMMA OwnStep ==
    ASSUME TypeOK, WellFormedInv, AnswerInv, NEW w \in Workers, Run(w),
           Name(w) \in Sure =>
              /\ pc'[w] # "idle" => Tracked(w)'
              /\ pc'[w] \notin Uncommitted =>
                    Named(mem'[Host[w]], Name(w)) = Named(acked'[Host[w]], Name(w))
    PROVE  AnswerInv'
<1> USE DEF Idle
<1>1. /\ pc[w] # "idle" /\ UNCHANGED <<up, unsure, Sure>>
      /\ \A v \in Workers \ {w} : pc'[v] = pc[v] /\ req'[v] = req[v] /\ local'[v] = local[v]
      /\ \A v \in Workers \ {w} : Name(v)' = Name(v)
      /\ pc'[w] # "idle" => req'[w] = req[w] /\ Name(w)' = Name(w)
      /\ Host[w] \in Procs
  BY WorkerFrame, ShareAssumption DEF Sure, Name
<1>2. \A v \in Workers : pc'[v] # "idle" => up'[Host[v]] /\ pc[v] # "idle" /\ Name(v)' = Name(v)
  BY <1>1 DEF AnswerInv
<1>3. Alone'
  BY <1>1, <1>2 DEF AnswerInv, Alone
<1>4. ASSUME NEW v \in Workers, pc'[v] # "idle", Name(v)' \in Sure' PROVE Tracked(v)'
  <2>1. CASE v = w
    BY <1>1, <1>4, <2>1
  <2>2. CASE v # w
    <3>1. Name(v) # Name(w) /\ Tracked(v) /\ Host[v] \in Procs
      BY <1>1, <1>2, <1>4, <2>2, ShareAssumption DEF AnswerInv, Alone
    <3>2. Found(v)' = Found(v) /\ Promised(v)' = Promised(v)
      BY <1>1, <2>2, <3>1, OthersFrame DEF Found, Mine, Promised, Name
    <3>3. Effect(v)' = Effect(v)
      BY <1>1, <2>2 DEF Effect
    <3> QED
      BY <1>1, <2>2, <3>1, <3>2, <3>3 DEF Tracked
  <2> QED
    BY <2>1, <2>2
<1>5. ASSUME NEW p \in Procs, NEW n \in Sure PROVE InMemory(p, n)'
  <2> SUFFICES ASSUME up'[p], \A v \in Hosted(p) : pc'[v] \in Uncommitted => Name(v)' # n
               PROVE  Named(mem'[p], n) = Named(acked'[p], n)
    BY DEF InMemory, Hosted
  <2>1. CASE p = Host[w] /\ n = Name(w)
    <3>1. w \in Hosted(p)
      BY <2>1 DEF Hosted
    <3>2. pc'[w] \notin Uncommitted
      BY <1>1, <2>1, <3>1 DEF Uncommitted
    <3> QED
      BY <1>5, <2>1, <3>2
  <2>2. CASE ~(p = Host[w] /\ n = Name(w))
    <3>1. \A v \in Hosted(p) : pc[v] \in Uncommitted => Name(v) # n
      BY <1>1, <2>2 DEF Hosted
    <3>2. Named(mem[p], n) = Named(acked[p], n)
      BY <1>1, <1>5, <3>1 DEF AnswerInv, InMemory
    <3> QED
      BY <2>2, <3>2, OthersFrame
  <2> QED
    BY <2>1, <2>2
<1> QED
  BY <1>1, <1>2, <1>3, <1>4, <1>5 DEF AnswerInv

(* Every step of a worker keeps the invariant. *)
LEMMA RunAnswers ==
    ASSUME TypeOK, WellFormedInv, AnswerInv, NEW w \in Workers, Run(w)
    PROVE  AnswerInv'
<1> DEFINE Follows == pc'[w] # "idle" => Tracked(w)'
           Agrees == pc'[w] \notin Uncommitted =>
                       Named(mem'[Host[w]], Name(w)) = Named(acked'[Host[w]], Name(w))
<1> SUFFICES ASSUME Name(w) \in Sure PROVE Follows /\ Agrees
  BY OwnStep
<1> USE DEF Idle
<1>1. /\ DOMAIN pc = Workers /\ DOMAIN local = Workers /\ DOMAIN mem = Procs
      /\ DOMAIN acked = Procs /\ local[w] \in Locals /\ Host[w] \in Procs
  BY ShareAssumption DEF TypeOK
<1>2. pc[w] # "idle" /\ up[Host[w]] /\ Tracked(w)
  BY WorkerFrame DEF AnswerInv
<1>3. pc[w] \notin Uncommitted => Found(w) = Promised(w)
  <2> SUFFICES ASSUME pc[w] \notin Uncommitted PROVE Found(w) = Promised(w)
    OBVIOUS
  <2>1. \A v \in Hosted(Host[w]) : pc[v] \in Uncommitted => Name(v) # Name(w)
    BY <1>2 DEF AnswerInv, Alone, Hosted, Uncommitted
  <2> QED
    BY <1>1, <1>2, <2>1 DEF AnswerInv, InMemory, Found, Mine, Promised
<1>4. ASSUME UNCHANGED <<mem, acked>>, pc[w] \notin Uncommitted
      PROVE  Agrees
  BY <1>3, <1>4 DEF Found, Mine, Promised
<1>5. ASSUME NEW r, Fail(w, r) PROVE pc'[w] = "idle"
  BY <1>1, <1>5 DEF Fail, Finish, Goto
<1>6. CASE Check(w) \/ Validate(w)
  <2>1. pc[w] \notin Uncommitted /\ UNCHANGED <<mem, acked>>
    BY <1>6 DEF Check, Validate, Fail, procVars, Uncommitted
  <2>2. pc'[w] \in {"idle", "validate", "get"} \/ (pc'[w] = "apply" /\ UNCHANGED req
                                                  /\ req[w].op = "create")
    BY <1>1, <1>5, <1>6 DEF Check, Validate, Goto
  <2>3. Follows
    BY <2>2 DEF Tracked, Uncommitted
  <2> QED
    BY <1>4, <2>1, <2>3
<1>7. CASE GetPrev(w)
  <2>1. pc[w] \notin Uncommitted /\ UNCHANGED <<mem, acked>>
    BY <1>7 DEF GetPrev, Fail, procVars, Uncommitted
  <2>2. CASE Found(w) = {}
    BY <1>4, <1>5, <1>7, <2>1, <2>2 DEF GetPrev
  <2>3. CASE Found(w) # {}
    <3>1. local'[w].prev = Found(w) /\ UNCHANGED req /\ pc'[w] = "apply"
      BY <1>1, <1>7, <2>3 DEF GetPrev, Locals, Goto
    <3>2. Follows
      BY <1>3, <2>1, <3>1 DEF Tracked, Promised, Name, Uncommitted
    <3> QED
      BY <1>4, <2>1, <3>2
  <2> QED
    BY <2>2, <2>3
<1>8. CASE Apply(w)
  <2>1. CASE Accepted(w)
    <3>1. /\ mem' = [mem EXCEPT ![Host[w]] = Changed(w)] /\ UNCHANGED <<req, local, acked>>
          /\ pc'[w] = "snapshot" /\ pc[w] = "apply"
      BY <1>1, <1>8, <2>1 DEF Apply, SetMem, Goto
    <3>2. Found(w)' = Effect(w)'
      BY <1>1, <3>1, ChangedOwn DEF Found, Mine, Name, Effect
    <3>3. (Promised(w) = {}) <=> (req[w].op = "create")
      BY <1>3, <2>1, <3>1 DEF Accepted, Uncommitted
    <3>4. Follows
      BY <1>2, <3>1, <3>2, <3>3 DEF Tracked, Promised, Name
    <3> QED
      BY <3>1, <3>4 DEF Uncommitted
  <2>2. CASE ~Accepted(w)
    <3>1. UNCHANGED <<mem, acked>> /\ pc[w] \notin Uncommitted /\ pc'[w] = "idle"
      BY <1>5, <1>8, <2>2 DEF Apply, Fail, Uncommitted
    <3> QED
      BY <1>4, <3>1
  <2> QED
    BY <2>1, <2>2
<1>9. ASSUME UNCHANGED <<mem, acked, req>>, local'[w].prev = local[w].prev,
             pc[w] \in Uncommitted, pc'[w] \in Uncommitted
      PROVE  Follows /\ Agrees
  BY <1>2, <1>9 DEF Tracked, Found, Mine, Promised, Effect, Name
<1>10. CASE Snapshot(w) \/ Read(w)
  <2>1. local'[w].prev = local[w].prev
    BY <1>1, <1>10 DEF Snapshot, Read, Locals
  <2> QED
    BY <1>1, <1>9, <1>10, <2>1 DEF Snapshot, Read, Goto, procVars, histVars, Uncommitted
<1>11. ASSUME NEW g, local' = [local EXCEPT ![w].at = g] PROVE local'[w].prev = local[w].prev
  BY <1>1, <1>11 DEF Locals
<1>12. CASE Open(w) \/ Write(w) \/ WriteFails(w) \/ CommandFails(w)
  <2>1. local'[w].prev = local[w].prev
    BY <1>11, <1>12 DEF Open, Write, WriteFails, CommandFails
  <2> QED
    BY <1>1, <1>9, <1>12, <2>1 DEF Open, Write, WriteFails, CommandFails, Goto, procVars,
       histVars, Uncommitted
<1>13. CASE Remove(w) \/ Reopen(w) \/ Rewrite(w) \/ RestoreFails(w)
  <2>1. local'[w].prev = local[w].prev
    BY <1>11, <1>13 DEF Remove, Reopen, Rewrite, RestoreFails, AfterRestore
  <2> QED
    BY <1>1, <1>9, <1>13, <2>1 DEF Remove, Reopen, Rewrite, RestoreFails, AfterRestore, Goto,
       procVars, histVars, Uncommitted
<1>14. CASE SkipCommand(w) \/ Command(w)
  <2>1. pc[w] = "command" /\ AfterCommand(w) /\ UNCHANGED mem
    BY <1>14 DEF SkipCommand, Command, procVars
  <2>2. CASE local[w].at = "smb"
    BY <1>9, <1>11, <2>1, <2>2 DEF AfterCommand, Uncommitted
  <2>3. CASE local[w].at # "smb"
    <3>1. pc'[w] = "idle" /\ acked' = [acked EXCEPT ![Host[w]] =
             IF req[w].op = "delete" THEN Without(@, Name(w)) ELSE Put(@, req[w].share)]
      BY <1>1, <2>1, <2>3 DEF AfterCommand, Succeed, Finish, Goto
    <3>2. Named(acked'[Host[w]], Name(w)) = Effect(w)
      BY <1>1, <3>1 DEF Effect, Put, Without, Named, Name
    <3>3. Found(w) = Effect(w)
      BY <1>2, <2>1 DEF Tracked, Uncommitted
    <3> QED
      BY <2>1, <3>1, <3>2, <3>3 DEF Found, Mine
  <2> QED
    BY <2>2, <2>3
<1>15. CASE Undo(w)
  <2>1. /\ mem' = [mem EXCEPT ![Host[w]] = Undone(w)] /\ UNCHANGED acked
        /\ pc'[w] = "idle" /\ pc[w] = "undo"
    BY <1>5, <1>15 DEF Undo, SetMem, Fail
  <2>2. Named(Undone(w), Name(w)) = Promised(w)
    BY <1>2, <2>1, UndoneOwn
  <2> QED
    BY <1>1, <2>1, <2>2 DEF Promised
<1> QED
  BY <1>6, <1>7, <1>8, <1>10, <1>12, <1>13, <1>14, <1>15 DEF Run, Reload

(* Every step of the system keeps it; a process that starts makes what it   *)
(* loads its promise.                                                       *)
LEMMA StepAnswers == TypeOK /\ WellFormedInv /\ AnswerInv /\ [Next]_vars => AnswerInv'
<1> SUFFICES ASSUME TypeOK, WellFormedInv, AnswerInv, [Next]_vars PROVE AnswerInv'
  OBVIOUS
<1> USE DEF Idle
<1>1. /\ DOMAIN pc = Workers /\ DOMAIN req = Workers /\ DOMAIN mem = Procs
      /\ DOMAIN acked = Procs /\ DOMAIN up = Procs
  BY DEF TypeOK
<1>2. ASSUME NEW w \in Workers, Run(w) PROVE AnswerInv'
  BY <1>2, RunAnswers
<1>3. ASSUME NEW w \in Workers, NEW r \in Requests, Begin(w, r) PROVE AnswerInv'
  <2>1. /\ UNCHANGED <<up, mem, acked, local>>
        /\ up[Host[w]] /\ pc[w] = "idle" /\ pc'[w] \in {"check", "validate"}
        /\ \A v \in Workers \ {w} : pc'[v] = pc[v] /\ req'[v] = req[v]
        /\ req'[w].share = Typed(r)
    BY <1>1, <1>3 DEF Begin, Goto, FirstStep, procVars
  <2>2. /\ \A v \in Workers \ {w} : Name(v)' = Name(v)
        /\ Name(w)' = r.share.name
    BY <2>1, ShareAssumption DEF Name, Typed, Request, Shares
  <2>3. /\ Sure' \subseteq Sure
        /\ r.share.name \in Sure' => \A v \in Workers : pc[v] # "idle" => Name(v) # r.share.name
    BY <1>3 DEF Begin, Sure
  <2>4. Alone'
    BY <2>1, <2>2, <2>3 DEF AnswerInv, Alone
  <2>5. ASSUME NEW v \in Workers, pc'[v] # "idle", Name(v)' \in Sure' PROVE Tracked(v)'
    <3>1. CASE v = w
      BY <2>1, <3>1 DEF Tracked, Uncommitted
    <3>2. CASE v # w
      <4>1. Tracked(v) /\ pc'[v] = pc[v] /\ req'[v] = req[v] /\ Name(v)' = Name(v)
        BY <2>1, <2>2, <2>3, <2>5, <3>2 DEF AnswerInv
      <4>2. Found(v)' = Found(v) /\ Promised(v)' = Promised(v) /\ Effect(v)' = Effect(v)
        BY <2>1, <4>1 DEF Found, Mine, Promised, Effect
      <4> QED
        BY <2>1, <4>1, <4>2 DEF Tracked
    <3> QED
      BY <3>1, <3>2
  <2>6. \A p \in Procs, n \in Sure' : InMemory(p, n)'
    <3>1. \A v \in Workers : pc[v] \in Uncommitted => pc'[v] \in Uncommitted /\ Name(v)' = Name(v)
      BY <2>1, <2>2 DEF Uncommitted
    <3> QED
      BY <2>1, <2>3, <3>1 DEF AnswerInv, InMemory, Hosted
  <2>7. \A v \in Workers : pc'[v] # "idle" => up'[Host[v]]
    BY <2>1 DEF AnswerInv
  <2> QED
    BY <2>4, <2>5, <2>6, <2>7 DEF AnswerInv
<1>4. ASSUME NEW q \in Procs, Start(q) PROVE AnswerInv'
  <2>1. PICK c \in ReadOf("state") :
          /\ UNCHANGED <<pc, req, local, unsure, Sure>>
          /\ ~up[q] /\ up' = [up EXCEPT ![q] = TRUE]
          /\ mem' = [mem EXCEPT ![q] = Parse(c)]
          /\ acked' = [acked EXCEPT ![q] = Parse(c)]
    BY <1>4 DEF Start, SetMem, taskVars, Sure
  <2>2. Alone' /\ \A v \in Workers : pc'[v] # "idle" => up'[Host[v]]
    BY <1>1, <2>1 DEF AnswerInv, Alone, Name
  <2>3. ASSUME NEW v \in Workers, pc'[v] # "idle", Name(v)' \in Sure' PROVE Tracked(v)'
    <3>1. Host[v] # q /\ Tracked(v)
      BY <2>1, <2>3 DEF AnswerInv, Name
    <3> QED
      BY <2>1, <3>1 DEF Tracked, Found, Mine, Promised, Effect, Name
  <2>4. \A p \in Procs, n \in Sure' : InMemory(p, n)'
    BY <1>1, <2>1 DEF AnswerInv, InMemory, Hosted, Name
  <2> QED
    BY <2>2, <2>3, <2>4 DEF AnswerInv
<1>5. ASSUME NEW q \in Procs, Stop(q) PROVE AnswerInv'
  <2>1. /\ UNCHANGED <<pc, req, local, unsure, Sure, acked>>
        /\ up' = [up EXCEPT ![q] = FALSE]
        /\ mem' = [mem EXCEPT ![q] = {}]
        /\ \A v \in Workers : pc[v] # "idle" => Host[v] # q
    BY <1>5 DEF Stop, taskVars, histVars, Sure, Hosted
  <2>2. Alone' /\ \A v \in Workers : pc'[v] # "idle" => up'[Host[v]]
    BY <1>1, <2>1, ShareAssumption DEF AnswerInv, Alone, Name
  <2>3. ASSUME NEW v \in Workers, pc'[v] # "idle", Name(v)' \in Sure' PROVE Tracked(v)'
    <3>1. Host[v] # q /\ Tracked(v)
      BY <2>1, <2>3 DEF AnswerInv, Name
    <3> QED
      BY <2>1, <3>1 DEF Tracked, Found, Mine, Promised, Effect, Name
  <2>4. \A p \in Procs, n \in Sure' : InMemory(p, n)'
    BY <1>1, <2>1 DEF AnswerInv, InMemory, Hosted, Name
  <2> QED
    BY <2>2, <2>3, <2>4 DEF AnswerInv
<1>6. ASSUME NEW q \in Procs, Crash(q) PROVE AnswerInv'
  <2>1. /\ UNCHANGED acked
        /\ up' = [up EXCEPT ![q] = FALSE]
        /\ mem' = [mem EXCEPT ![q] = {}]
        /\ Sure' \subseteq Sure
        /\ \A v \in Workers : Host[v] = q => pc'[v] = "idle"
        /\ \A v \in Workers : Host[v] # q =>
              pc'[v] = pc[v] /\ req'[v] = req[v] /\ local'[v] = local[v] /\ Name(v)' = Name(v)
    BY <1>6 DEF Crash, Hosted, Sure, Name
  <2>2. Alone' /\ \A v \in Workers : pc'[v] # "idle" => up'[Host[v]]
    BY <1>1, <2>1, ShareAssumption DEF AnswerInv, Alone
  <2>3. ASSUME NEW v \in Workers, pc'[v] # "idle", Name(v)' \in Sure' PROVE Tracked(v)'
    <3>1. Host[v] # q /\ Tracked(v)
      BY <2>1, <2>3 DEF AnswerInv
    <3>2. mem'[Host[v]] = mem[Host[v]]
      BY <1>1, <2>1, <3>1, ShareAssumption
    <3>3. Found(v)' = Found(v) /\ Promised(v)' = Promised(v) /\ Effect(v)' = Effect(v)
      BY <2>1, <3>1, <3>2 DEF Found, Mine, Promised, Effect
    <3> QED
      BY <2>1, <3>1, <3>3 DEF Tracked
  <2>4. \A p \in Procs, n \in Sure' : InMemory(p, n)'
    BY <1>1, <2>1 DEF AnswerInv, InMemory, Hosted
  <2> QED
    BY <2>2, <2>3, <2>4 DEF AnswerInv
<1>7. CASE UNCHANGED vars
  <2>1. UNCHANGED <<up, mem, pc, req, local, acked, unsure, Sure>>
    BY <1>7 DEF vars, procVars, taskVars, histVars, Sure
  <2> QED
    BY <2>1 DEF AnswerInv, Alone, Tracked, Found, Mine, Promised, Effect, Name, InMemory, Hosted
<1> QED
  BY <1>2, <1>3, <1>4, <1>5, <1>6, <1>7 DEF Next

(* When nothing is in progress, the memory of a process holds, under every  *)
(* name no two requests fought over, what its answers promised: rollbacks   *)
(* leave no trace and successes their full effect, whatever else overlaps,  *)
(* fails or is killed.                                                      *)
THEOREM MemoryKeepsAnswers == Spec => []AckedInMemory
<1>1. Init => TypeOK /\ VersionInv /\ WellFormedInv /\ AnswerInv
  <2>1. Init => AnswerInv
    BY ShareAssumption DEF Init, AnswerInv, Alone, Idle, InMemory
  <2> QED
    BY <2>1, InitType, InitVersions, InitWellFormed
<1>2. TypeOK /\ VersionInv /\ WellFormedInv /\ AnswerInv /\ [Next]_vars
      => (TypeOK /\ VersionInv /\ WellFormedInv /\ AnswerInv)'
  BY StepType, StepVersions, StepWellFormed, StepAnswers
<1>3. AnswerInv => AckedInMemory
  BY DEF AnswerInv, AckedInMemory, InMemory, Sure, Quiescent, Idle, Hosted, Uncommitted
<1> QED
  BY <1>1, <1>2, <1>3, PTL DEF Spec
=============================================================================
