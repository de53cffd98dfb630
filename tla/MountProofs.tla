---------------------------- MODULE MountProofs ----------------------------
(***************************************************************************)
(* Theorems about Mount, for every value of its constants.                 *)
(***************************************************************************)
EXTENDS Mount, SequenceTheorems, WellFoundedInduction, TLAPS

(* Persist turns lines into lines. *)
LEMMA WithEntryType ==
    ASSUME NEW ls \in Seq(Line), NEW e \in Line
    PROVE  WithEntry(ls, e) \in Seq(Line)
<1>1. ASSUME NEW i PROVE [ls EXCEPT ![i] = e] \in Seq(Line)
  <2>1. CASE i \in 1 .. Len(ls)
    BY <2>1, ExceptSeq
  <2>2. CASE i \notin 1 .. Len(ls)
    <3>1. DOMAIN ls = 1 .. Len(ls) /\ ls = [j \in DOMAIN ls |-> ls[j]]
      BY LenProperties
    <3>2. [ls EXCEPT ![i] = e] = ls
      BY <2>2, <3>1
    <3> QED
      BY <3>2
  <2> QED
    BY <2>1, <2>2
<1> QED
  BY <1>1 DEF WithEntry

(* A command turns a mount table into a mount table. *)
LEMMA EffectType ==
    ASSUME NEW c \in Command, NEW t \in [Dirs -> Seq(Sources)]
    PROVE  Effect(c, t) \in [Dirs -> Seq(Sources)]
<1>1. CASE c.op = "mount"
  BY <1>1 DEF Effect, Command
<1>2. CASE c.op = "umount" /\ t[c.dir] # <<>>
  <2>1. c.dir \in Dirs /\ c.op # "mount"
    BY <1>2 DEF Command
  <2>2. SubSeq(t[c.dir], 1, Len(t[c.dir]) - 1) \in Seq(Sources)
    BY <2>1, SubSeqProperties
  <2> QED
    BY <1>2, <2>1, <2>2 DEF Effect
<1>3. CASE c.op # "mount" /\ ~(c.op = "umount" /\ t[c.dir] # <<>>)
  BY <1>3 DEF Effect
<1> QED
  BY <1>1, <1>2, <1>3

(* The command of a worker's request is a command. *)
LEMMA CommandType ==
    ASSUME NEW w \in Workers, req[w] \in Request
    PROVE  CommandOf(w) \in Command
<1>1. DirOf[req[w].point] \in Dirs /\ (req[w].op = "mount" => Source(req[w]) \in Sources)
  BY MountAssumption DEF Request, MountRequest, UmountRequest, Source
<1> QED
  BY <1>1 DEF CommandOf, Command, Point

(* A request that is a mount, or an umount, is told by its operation. *)
LEMMA RequestOp ==
    ASSUME NEW r \in Request
    PROVE  /\ r.op = "mount" <=> r \in MountRequest
           /\ r.op = "umount" <=> r \in UmountRequest
           /\ r.point \in Points
BY DEF Request, MountRequest, UmountRequest

(* The types of what a step of the task's variables assigns. *)
LEMMA FinishType ==
    ASSUME TypeOK, NEW w \in Workers, NEW r \in {"none", "success", "failure"},
           Finish(w, r)
    PROVE  /\ holder' \in [Procs -> Workers \cup {Nobody}]
           /\ pc' \in [Workers -> PCs]
           /\ req' \in [Workers -> Request \cup {NoRequest}]
           /\ lines' \in [Workers -> Seq(Line)]
           /\ audit' \in [Workers -> {"none", "success", "failure"}]
           /\ pc' = [pc EXCEPT ![w] = "idle"]
           /\ \A v \in Workers : v # w => req'[v] = req[v]
BY MountAssumption, EmptySeq DEF Finish, Goto, TypeOK, PCs

(* The part of TypeOK that says which requests are at which step. *)
Placed == \A w \in Workers :
            /\ ~Idle(w) => req[w] \in Request
            /\ pc[w] \in {"validate", "temp", "mount", "creds", "read", "write"} =>
                  req[w] \in MountRequest
            /\ pc[w] = "umount" => req[w] \in UmountRequest

(* The part of TypeOK that is about the history. *)
HistOK == /\ kept \in [Points -> MountRequest \cup {NoRequest}]
          /\ left \in [Points -> Secrets \cup {NoSecret}]

LEMMA FailType ==
    ASSUME TypeOK, NEW w \in Workers, NEW r \in {"none", "success", "failure"},
           Fail(w, r)
    PROVE  /\ holder' \in [Procs -> Workers \cup {Nobody}]
           /\ pc' \in [Workers -> PCs]
           /\ req' \in [Workers -> Request \cup {NoRequest}]
           /\ lines' \in [Workers -> Seq(Line)]
           /\ audit' \in [Workers -> {"none", "success", "failure"}]
           /\ Placed'
           /\ HistOK'
<1>1. Finish(w, r) /\ UNCHANGED histVars
  BY DEF Fail
<1>2. Placed'
  BY <1>1, FinishType DEF TypeOK, Placed, Idle
<1> QED
  BY <1>1, <1>2, FinishType DEF TypeOK, HistOK, histVars

LEMMA SucceedType ==
    ASSUME TypeOK, NEW w \in Workers, Succeed(w), ~Idle(w)
    PROVE  /\ holder' \in [Procs -> Workers \cup {Nobody}]
           /\ pc' \in [Workers -> PCs]
           /\ req' \in [Workers -> Request \cup {NoRequest}]
           /\ lines' \in [Workers -> Seq(Line)]
           /\ audit' \in [Workers -> {"none", "success", "failure"}]
           /\ Placed'
           /\ HistOK'
<1>1. Finish(w, "success")
  BY DEF Succeed
<1>2. Placed'
  BY <1>1, FinishType DEF TypeOK, Placed, Idle
<1>3. HistOK'
  BY RequestOp DEF Succeed, TypeOK, Point, HistOK
<1> QED
  BY <1>1, <1>2, <1>3, FinishType

LEMMA ContinueType ==
    ASSUME TypeOK, NEW w \in Workers, NEW s \in PCs, Continue(w, s), ~Idle(w),
           s \in {"validate", "temp", "mount", "creds", "read", "write"} =>
              req[w].op = "mount",
           s = "umount" => req[w].op = "umount"
    PROVE  /\ holder' \in [Procs -> Workers \cup {Nobody}]
           /\ pc' \in [Workers -> PCs]
           /\ req' \in [Workers -> Request \cup {NoRequest}]
           /\ lines' \in [Workers -> Seq(Line)]
           /\ audit' \in [Workers -> {"none", "success", "failure"}]
           /\ Placed'
           /\ HistOK'
<1>1. pc' = [pc EXCEPT ![w] = s] /\ req' = req
  BY DEF Continue, Goto
<1>2. Placed'
  BY <1>1, RequestOp DEF TypeOK, Placed, Idle
<1> QED
  BY <1>1, <1>2 DEF Continue, TypeOK, HistOK, histVars
-----------------------------------------------------------------------------
(* The initial state is well typed. *)
LEMMA InitType == Init => TypeOK
BY MountAssumption, EmptySeq DEF Init, TypeOK, PCs, Idle

(* Every step keeps the types. *)
LEMMA StepType == TypeOK /\ [Next]_vars => TypeOK'
<1> SUFFICES ASSUME TypeOK, [Next]_vars PROVE TypeOK'
  OBVIOUS
<1> DEFINE Disk == /\ table' \in [Dirs -> Seq(Sources)]
                   /\ stray' \subseteq Command
                   /\ temps' \in Int
                   /\ creds' \in [Points -> Secrets \cup {NoSecret}]
                   /\ fstab' \in Seq(Line)
                   /\ started' \in 0 .. MaxRequests
           Task == /\ holder' \in [Procs -> Workers \cup {Nobody}]
                   /\ pc' \in [Workers -> PCs]
                   /\ req' \in [Workers -> Request \cup {NoRequest}]
                   /\ lines' \in [Workers -> Seq(Line)]
                   /\ audit' \in [Workers -> {"none", "success", "failure"}]
                   /\ Placed'
                   /\ HistOK'
<1> SUFFICES Disk /\ Task
  BY DEF TypeOK, Placed, Idle, HistOK
<1>1. CASE UNCHANGED vars
  BY <1>1 DEF vars, diskVars, taskVars, histVars, TypeOK, Placed, Idle, HistOK
<1>2. ASSUME UNCHANGED <<diskVars, started>> PROVE Disk
  BY <1>2 DEF diskVars, TypeOK
<1>3. ASSUME NEW w \in Workers, NEW r \in Requests, Call(w, r) PROVE Disk /\ Task
  <2>1. Disk
    BY <1>3, MountAssumption DEF Call, diskVars, TypeOK
  <2>2. r \in Request /\ pc' = [pc EXCEPT ![w] = "lock"] /\ req' = [req EXCEPT ![w] = r]
    BY <1>3, MountAssumption DEF Call, Goto
  <2>3. Placed'
    BY <2>2 DEF TypeOK, Placed, Idle
  <2> QED
    BY <1>3, <2>1, <2>2, <2>3 DEF Call, TypeOK, PCs, HistOK, histVars
<1>4. ASSUME NEW w \in Workers, Lock(w) PROVE Disk /\ Task
  <2>1. Disk
    BY <1>4, <1>2 DEF Lock, diskVars
  <2>2. AfterLock(w) \in {"validate", "list"} /\ (AfterLock(w) = "validate" => req[w].op = "mount")
    BY DEF AfterLock
  <2>3. pc' = [pc EXCEPT ![w] = AfterLock(w)] /\ req' = req /\ pc[w] = "lock"
    BY <1>4 DEF Lock, Goto
  <2>4. Placed'
    BY <2>2, <2>3, RequestOp DEF TypeOK, Placed, Idle
  <2> QED
    BY <1>4, <2>1, <2>2, <2>3, <2>4, MountAssumption DEF Lock, TypeOK, PCs, HistOK, histVars
<1>5. ASSUME NEW w \in Workers, Steps(w) PROVE Disk /\ Task
  <2>1. CASE Validate(w)
    <3>1. pc[w] = "validate" /\ req[w].op = "mount"
      BY <2>1, RequestOp DEF Validate, TypeOK, Idle
    <3> QED
      BY <2>1, <3>1, <1>2, FailType, ContinueType DEF Validate, Idle, PCs
  <2>2. CASE List(w)
    <3>1. ~Idle(w)
      BY <2>2 DEF List, Idle
    <3>2. \/ Fail(w, "failure")
          \/ Continue(w, "umount") /\ req[w].op = "umount"
          \/ \E s \in {"mount", "temp"} : Continue(w, s) /\ req[w].op = "mount"
      BY <2>2 DEF List
    <3> QED
      BY <2>2, <3>1, <3>2, <1>2, FailType, ContinueType DEF List, PCs
  <2>3. CASE ListFails(w) \/ TempFails(w)
    BY <2>3, <1>2, FailType DEF ListFails, TempFails
  <2>4. CASE Temp(w)
    <3>1. pc[w] = "temp" /\ req[w].op = "mount"
      BY <2>4, RequestOp DEF Temp, TypeOK, Idle
    <3> QED
      BY <2>4, <3>1, ContinueType DEF Temp, Idle, PCs, TypeOK
  <2>5. CASE WriteCreds(w)
    <3>1. pc[w] = "creds" /\ req[w] \in MountRequest
      BY <2>5 DEF WriteCreds, TypeOK
    <3>2. req[w].op = "mount" /\ req[w].secret \in Secrets \cup {NoSecret}
      BY <3>1 DEF MountRequest
    <3>3. creds' \in [Points -> Secrets \cup {NoSecret}]
      BY <2>5, <3>2 DEF WriteCreds, TypeOK
    <3> QED
      BY <2>5, <3>1, <3>2, <3>3, ContinueType DEF WriteCreds, Idle, PCs, TypeOK
  <2>6. CASE ReadFstab(w)
    <3>1. pc[w] = "read" /\ pc' = [pc EXCEPT ![w] = "write"] /\ req' = req
      BY <2>6 DEF ReadFstab, Goto
    <3>2. Placed'
      BY <3>1 DEF TypeOK, Placed, Idle
    <3> QED
      BY <2>6, <3>1, <3>2, <1>2 DEF ReadFstab, TypeOK, PCs, diskVars, HistOK, histVars
  <2>7. CASE WriteFstab(w)
    <3>1. pc[w] = "write" /\ req[w] \in MountRequest
      BY <2>7 DEF WriteFstab, TypeOK
    <3>2. Entry(w) \in Line
      BY <3>1, MountAssumption DEF Entry, Line, NeedsCreds, Point, MountRequest, Source
    <3>3. fstab' \in Seq(Line)
      BY <2>7, <3>2, WithEntryType DEF WriteFstab, TypeOK
    <3> QED
      BY <2>7, <3>1, <3>3, SucceedType DEF WriteFstab, TypeOK, Idle
  <2>8. CASE PersistFails(w)
    <3>1. Finish(w, "failure") /\ UNCHANGED <<diskVars, started, kept>>
          /\ pc[w] \in {"creds", "read", "write"}
      BY <2>8 DEF PersistFails
    <3>2. req[w] \in MountRequest
      BY <3>1 DEF TypeOK
    <3>3. HistOK'
      BY <2>8, <3>1, <3>2 DEF PersistFails, HistOK, TypeOK, Point, MountRequest
    <3>4. Placed'
      BY <3>1, FinishType DEF TypeOK, Placed, Idle
    <3> QED
      BY <1>2, <3>1, <3>3, <3>4, FinishType
  <2> QED
    BY <1>5, <2>1, <2>2, <2>3, <2>4, <2>5, <2>6, <2>7, <2>8 DEF Steps
<1>6. ASSUME NEW w \in Workers, Commands(w) PROVE Disk /\ Task
  <2>1. pc[w] \in {"mount", "umount"}
    BY <1>6 DEF Commands, RunMount, MountFails, RunUmount, UmountFails
  <2>2. Effect(CommandOf(w), table) \in [Dirs -> Seq(Sources)]
    BY <2>1, CommandType, EffectType DEF TypeOK, Idle
  <2>3. table' \in [Dirs -> Seq(Sources)]
    BY <1>6, <2>2 DEF Commands, RunMount, MountFails, RunUmount, UmountFails, TypeOK
  <2>4. temps' \in Int
    BY <1>6 DEF Commands, RunMount, MountFails, RunUmount, UmountFails, RemoveTemp, TypeOK
  <2>5. Disk
    BY <1>6, <2>3, <2>4 DEF Commands, RunMount, MountFails, RunUmount, UmountFails, TypeOK
  <2>6. \/ Fail(w, "failure") \/ Succeed(w)
        \/ Continue(w, FirstStep(w)) /\ pc[w] = "mount"
    BY <1>6 DEF Commands, RunMount, MountFails, RunUmount, UmountFails
  <2>7. FirstStep(w) \in {"creds", "read"} /\ (pc[w] = "mount" => req[w].op = "mount")
    BY RequestOp DEF FirstStep, TypeOK, Idle
  <2> QED
    BY <2>1, <2>5, <2>6, <2>7, FailType, SucceedType, ContinueType DEF Idle, PCs
<1>7. ASSUME NEW p \in Procs, Crash(p) PROVE Disk /\ Task
  <2> DEFINE dying == {w \in Workers : Host[w] = p /\ ~Idle(w)}
  <2>1. /\ stray' = stray \cup {CommandOf(w) : w \in {v \in dying : pc[v] \in {"mount", "umount"}}}
        /\ holder' = [holder EXCEPT ![p] = Nobody]
        /\ pc' = [w \in Workers |-> IF w \in dying THEN "idle" ELSE pc[w]]
        /\ req' = [w \in Workers |-> IF w \in dying THEN NoRequest ELSE req[w]]
        /\ lines' = [w \in Workers |-> IF w \in dying THEN <<>> ELSE lines[w]]
        /\ UNCHANGED <<table, temps, creds, fstab, audit, started, histVars>>
    BY <1>7 DEF Crash
  <2>2. stray' \subseteq Command
    BY <2>1, CommandType DEF TypeOK
  <2>3. Disk
    BY <2>1, <2>2 DEF TypeOK
  <2>4. Placed'
    BY <2>1 DEF TypeOK, Placed, Idle
  <2>5. lines' \in [Workers -> Seq(Line)]
    BY <2>1, EmptySeq DEF TypeOK
  <2> QED
    BY <2>1, <2>3, <2>4, <2>5 DEF TypeOK, PCs, HistOK, histVars
<1>8. ASSUME NEW c \in stray, RunStray(c) PROVE Disk /\ Task
  <2>1. c \in Command /\ stray' \subseteq Command
    BY <1>8 DEF RunStray, TypeOK
  <2>2. table' \in [Dirs -> Seq(Sources)]
    BY <1>8, <2>1, EffectType DEF RunStray, TypeOK
  <2>3. Disk
    BY <1>8, <2>1, <2>2 DEF RunStray, TypeOK
  <2>4. UNCHANGED <<holder, taskVars, histVars>>
    BY <1>8 DEF RunStray
  <2>5. Placed'
    BY <2>4 DEF TypeOK, Placed, Idle, taskVars
  <2> QED
    BY <2>3, <2>4, <2>5 DEF TypeOK, taskVars, HistOK, histVars
<1> QED
  BY <1>1, <1>3, <1>4, <1>5, <1>6, <1>7, <1>8 DEF Next

(* Every variable of Mount stays within its type. *)
THEOREM TypeCorrect == Spec => []TypeOK
BY InitType, StepType, PTL DEF Spec
-----------------------------------------------------------------------------
(* What the steps under the mutex have in common: the worker goes on and    *)
(* keeps the mutex, or answers and gives it back.                           *)
Inside == PCs \ {"idle", "lock"}

LEMMA StepShape ==
    ASSUME TypeOK, NEW w \in Workers, Steps(w) \/ Commands(w)
    PROVE  /\ pc[w] \in Inside
           /\ \/ /\ \E s \in Inside : pc' = [pc EXCEPT ![w] = s]
                 /\ UNCHANGED <<holder, req>>
              \/ /\ pc' = [pc EXCEPT ![w] = "idle"]
                 /\ holder' = [holder EXCEPT ![Host[w]] = Nobody]
                 /\ req' = [req EXCEPT ![w] = NoRequest]
                 /\ lines' = [lines EXCEPT ![w] = <<>>]
<1> DEFINE Ends == \E r \in {"none", "success", "failure"} : Finish(w, r)
           Goes == \E s \in Inside : pc' = [pc EXCEPT ![w] = s] /\ UNCHANGED <<holder, req>>
<1>1. pc[w] \in Inside
  BY DEF Steps, Commands, Validate, List, ListFails, Temp, TempFails, WriteCreds,
     ReadFstab, WriteFstab, PersistFails, RunMount, MountFails, RunUmount, UmountFails,
     Inside, PCs
<1>2. ASSUME NEW r \in {"none", "success", "failure"}, Fail(w, r) PROVE Ends
  BY <1>2 DEF Fail
<1>3. ASSUME Succeed(w) PROVE Ends
  BY <1>3 DEF Succeed
<1>4. ASSUME NEW s \in Inside, Continue(w, s) PROVE Goes
  BY <1>4 DEF Continue, Goto
<1>5. {"list", "umount", "mount", "temp", "creds", "read", "write"} \subseteq Inside
      /\ FirstStep(w) \in Inside
  BY DEF Inside, PCs, FirstStep
<1>6. CASE Validate(w) \/ ListFails(w) \/ Temp(w) \/ TempFails(w) \/ WriteCreds(w)
           \/ WriteFstab(w) \/ PersistFails(w)
  <2>1. Ends \/ Goes
    BY <1>2, <1>3, <1>4, <1>5, <1>6 DEF Validate, ListFails, Temp, TempFails, WriteCreds,
       WriteFstab, PersistFails
  <2> QED
    BY <1>1, <2>1 DEF Finish, Goto
<1>7. CASE ReadFstab(w)
  BY <1>1, <1>5, <1>7 DEF ReadFstab, Goto
<1>8. CASE List(w)
  <2>1. Ends \/ Goes
    BY <1>2, <1>4, <1>5, <1>8 DEF List
  <2> QED
    BY <1>1, <2>1 DEF Finish, Goto
<1>9. CASE Commands(w)
  <2>1. Ends \/ Goes
    BY <1>2, <1>3, <1>4, <1>5, <1>9 DEF Commands, RunMount, MountFails, RunUmount, UmountFails
  <2> QED
    BY <1>1, <2>1 DEF Finish, Goto
<1> QED
  BY <1>6, <1>7, <1>8, <1>9 DEF Steps

(* The mutex of a process is held by the one worker of it that is past Lock. *)
LEMMA InitLock == Init => LockInv
BY MountAssumption DEF Init, LockInv

LEMMA StepLock == TypeOK /\ LockInv /\ [Next]_vars => LockInv'
<1> SUFFICES ASSUME TypeOK, LockInv, [Next]_vars PROVE LockInv'
  OBVIOUS
<1> USE MountAssumption
<1>0. DOMAIN pc = Workers /\ DOMAIN holder = Procs /\ \A v \in Workers : pc[v] \in PCs
  BY DEF TypeOK
<1>1. CASE UNCHANGED vars
  BY <1>1 DEF vars, taskVars, LockInv
<1>2. ASSUME NEW w \in Workers, NEW r \in Requests, Call(w, r) PROVE LockInv'
  BY <1>0, <1>2 DEF Call, Goto, Idle, LockInv
<1>3. ASSUME NEW w \in Workers, Lock(w) PROVE LockInv'
  BY <1>0, <1>3 DEF Lock, Goto, AfterLock, LockInv
<1>4. ASSUME NEW w \in Workers, Steps(w) \/ Commands(w) PROVE LockInv'
  BY <1>0, <1>4, StepShape DEF LockInv, Inside
<1>5. ASSUME NEW p \in Procs, Crash(p) PROVE LockInv'
  BY <1>0, <1>5 DEF Crash, LockInv, Idle
<1>6. ASSUME NEW c \in stray, RunStray(c) PROVE LockInv'
  BY <1>6 DEF RunStray, taskVars, LockInv
<1> QED
  BY <1>1, <1>2, <1>3, <1>4, <1>5, <1>6 DEF Next

(* A worker is past Lock exactly while it holds the mutex of its process.   *)
THEOREM MutualExclusion == Spec => []LockInv
BY InitType, StepType, InitLock, StepLock, PTL DEF Spec
-----------------------------------------------------------------------------
(* Persist does not add a second line for a mount point. *)
LEMMA WithEntrySound ==
    ASSUME TypeOK, NEW ls \in Seq(Line), Sound(ls), NEW e \in Line, e.point \in Points,
           e.creds => creds[e.point] # NoSecret
    PROVE  Sound(WithEntry(ls, e))
<1>0. Len(ls) \in Nat /\ DOMAIN ls = 1 .. Len(ls)
  BY LenProperties
<1>1. CASE At(ls, e.point) = {}
  <2>1. WithEntry(ls, e) = Append(ls, e)
    BY <1>1 DEF WithEntry
  <2> QED
    BY <1>0, <1>1, <2>1 DEF Sound, UniquePoints, At
<1>2. CASE At(ls, e.point) # {}
  <2> DEFINE k == CHOOSE i \in At(ls, e.point) : \A j \in At(ls, e.point) : i <= j
  <2>1. PICK i \in At(ls, e.point) : At(ls, e.point) = {i}
    BY <1>2 DEF Sound, UniquePoints
  <2>2. i \in 1 .. Len(ls) /\ ls[i].point = e.point
    BY <1>0, <2>1 DEF At
  <2>3. k = i
    BY <2>1, <2>2
  <2>4. WithEntry(ls, e) = [ls EXCEPT ![i] = e]
    BY <1>2, <2>3 DEF WithEntry
  <2> QED
    BY <1>0, <2>1, <2>2, <2>4 DEF Sound, UniquePoints, At
<1> QED
  BY <1>1, <1>2

LEMMA InitFstab == Init => FstabInv
BY MountAssumption DEF Init, FstabInv, Sound, UniquePoints, At

(* What is sound stays sound as long as no credentials file goes away. *)
LEMMA SoundKept ==
    ASSUME TypeOK, NEW ls, Sound(ls),
           \A p \in Points : creds[p] # NoSecret => creds'[p] # NoSecret
    PROVE  Sound(ls)'
BY DEF Sound

LEMMA StepFstab == TypeOK /\ FstabInv /\ [Next]_vars => FstabInv'
<1> SUFFICES ASSUME TypeOK, FstabInv, [Next]_vars PROVE FstabInv'
  OBVIOUS
<1> USE MountAssumption
<1> DEFINE Written == \A w \in Workers :
              /\ pc[w] = "creds" => NeedsCreds(w)
              /\ pc[w] \in {"read", "write"} /\ NeedsCreds(w) => creds[Point(w)] # NoSecret
<1>a. Sound(fstab) /\ Written /\ \A w \in Workers : Sound(lines[w])
  BY DEF FstabInv
<1>b. DOMAIN pc = Workers /\ DOMAIN lines = Workers /\ DOMAIN req = Workers
  BY DEF TypeOK
<1>c. ASSUME UNCHANGED <<creds, fstab>>,
             \A v \in Workers : lines'[v] \in {lines[v], fstab, <<>>},
             \A v \in Workers :
                /\ pc'[v] \in {"creds", "read", "write"} => req'[v] = req[v]
                /\ pc'[v] = "creds" => pc[v] = "creds" \/ NeedsCreds(v)
                /\ pc'[v] \in {"read", "write"} => pc[v] \in {"read", "write"}
                                                  \/ ~NeedsCreds(v)
      PROVE  FstabInv'
  <2>1. Sound(<<>>)
    BY DEF Sound, UniquePoints, At
  <2>2. Sound(fstab)' /\ \A v \in Workers : Sound(lines[v])'
    BY <1>a, <1>c, <2>1 DEF Sound
  <2>3. Written'
    BY <1>a, <1>c DEF NeedsCreds, Point
  <2> QED
    BY <2>2, <2>3 DEF FstabInv
<1>1. CASE UNCHANGED vars
  BY <1>1, <1>c DEF vars, diskVars, taskVars
<1>2. ASSUME NEW w \in Workers, NEW r \in Requests, Call(w, r) PROVE FstabInv'
  BY <1>2, <1>b, <1>c DEF Call, Goto, Idle, diskVars
<1>3. ASSUME NEW w \in Workers, Lock(w) PROVE FstabInv'
  BY <1>3, <1>b, <1>c DEF Lock, AfterLock, Goto, diskVars
<1>4. ASSUME NEW w \in Workers, Steps(w) \/ Commands(w) PROVE FstabInv'
  <2>1. CASE WriteCreds(w)
    <3>1. pc[w] = "creds" /\ req[w] \in MountRequest /\ Point(w) \in Points
      BY <2>1 DEF WriteCreds, TypeOK, MountRequest, Point
    <3>2. UNCHANGED <<fstab, req, lines>> /\ pc' = [pc EXCEPT ![w] = "read"]
          /\ creds' = [creds EXCEPT ![Point(w)] = req[w].secret]
      BY <2>1 DEF WriteCreds, Continue, Goto
    <3>3. req[w].secret # NoSecret
      BY <1>a, <3>1 DEF NeedsCreds
    <3>4. \A p \in Points : creds[p] # NoSecret => creds'[p] # NoSecret
      BY <3>2, <3>3 DEF TypeOK
    <3>5. Sound(fstab)' /\ \A v \in Workers : Sound(lines[v])'
      BY <1>a, <3>2, <3>4, SoundKept
    <3>6. creds'[Point(w)] # NoSecret
      BY <3>1, <3>2, <3>3 DEF TypeOK
    <3>7. \A v \in Workers : NeedsCreds(v)' = NeedsCreds(v) /\ Point(v)' = Point(v)
      BY <3>2 DEF NeedsCreds, Point
    <3>8. \A v \in Workers : pc[v] \in {"read", "write"} => req[v] \in MountRequest
      BY DEF TypeOK
    <3>9. \A v \in Workers : pc[v] \in {"read", "write"} => Point(v) \in Points
      BY <3>8 DEF MountRequest, Point
    <3>10. Written'
      BY <1>a, <1>b, <3>2, <3>4, <3>6, <3>7, <3>9
    <3> QED
      BY <3>5, <3>10 DEF FstabInv
  <2>2. CASE WriteFstab(w)
    <3>1. pc[w] = "write" /\ req[w] \in MountRequest
      BY <2>2 DEF WriteFstab, TypeOK
    <3>2. Entry(w) \in Line /\ Entry(w).point \in Points
      BY <3>1, MountAssumption DEF Entry, Line, NeedsCreds, Point, MountRequest, Source
    <3>3. Entry(w).creds => creds[Entry(w).point] # NoSecret
      BY <1>a, <3>1 DEF Entry
    <3>4. Sound(fstab')
      BY <1>a, <2>2, <3>2, <3>3, WithEntrySound DEF WriteFstab, TypeOK
    <3>5. UNCHANGED creds /\ pc' = [pc EXCEPT ![w] = "idle"]
          /\ req' = [req EXCEPT ![w] = NoRequest] /\ lines' = [lines EXCEPT ![w] = <<>>]
      BY <2>2 DEF WriteFstab, Succeed, Finish, Goto
    <3>6. Sound(<<>>)
      BY DEF Sound, UniquePoints, At
    <3>7. Sound(fstab)' /\ \A v \in Workers : Sound(lines[v])'
      BY <1>a, <1>b, <3>4, <3>5, <3>6 DEF Sound
    <3>8. Written'
      BY <1>a, <1>b, <3>5 DEF NeedsCreds, Point
    <3> QED
      BY <3>7, <3>8 DEF FstabInv
  <2>3. CASE ReadFstab(w)
    BY <1>b, <1>c, <2>3 DEF ReadFstab, Goto, diskVars
  <2>4. ASSUME NEW s \in PCs, Continue(w, s), UNCHANGED <<creds, fstab>>,
               s = "creds" => NeedsCreds(w), s # "write",
               s = "read" => ~NeedsCreds(w)
        PROVE  FstabInv'
    BY <1>b, <1>c, <2>4 DEF Continue, Goto
  <2>5. ASSUME NEW r, Finish(w, r), UNCHANGED <<creds, fstab>> PROVE FstabInv'
    BY <1>b, <1>c, <2>5 DEF Finish, Goto
  <2>6. CASE Validate(w) \/ List(w) \/ ListFails(w) \/ Temp(w) \/ TempFails(w) \/ PersistFails(w)
    <3>1. UNCHANGED <<creds, fstab>>
          /\ \/ \E r \in {"none", "failure"} : Finish(w, r)
             \/ \E s \in {"list", "mount", "umount", "temp"} : Continue(w, s)
      BY <2>6 DEF Validate, List, ListFails, Temp, TempFails, PersistFails, Fail, diskVars
    <3> QED
      BY <2>4, <2>5, <3>1 DEF PCs
  <2>7. CASE Commands(w)
    <3>1. UNCHANGED <<creds, fstab>>
          /\ \/ \E r \in {"success", "failure"} : Finish(w, r)
             \/ Continue(w, FirstStep(w))
      BY <2>7 DEF Commands, RunMount, MountFails, RunUmount, UmountFails, Fail, Succeed
    <3> QED
      BY <2>4, <2>5, <3>1 DEF FirstStep, PCs
  <2> QED
    BY <1>4, <2>1, <2>2, <2>3, <2>6, <2>7 DEF Steps
<1>5. ASSUME NEW p \in Procs, Crash(p) PROVE FstabInv'
  BY <1>5, <1>b, <1>c DEF Crash
<1>6. ASSUME NEW c \in stray, RunStray(c) PROVE FstabInv'
  BY <1>6, <1>c DEF RunStray, taskVars
<1> QED
  BY <1>1, <1>2, <1>3, <1>4, <1>5, <1>6 DEF Next

(* Whatever processes overlap, fail or die, fstab keeps at most one line    *)
(* for a mount point.                                                       *)
THEOREM OneLineEach == Spec => []OneLinePerPoint
<1>1. FstabInv => OneLinePerPoint
  BY DEF FstabInv, Sound, OneLinePerPoint
<1> QED
  BY <1>1, InitType, StepType, InitFstab, StepFstab, PTL DEF Spec

(* An entry of fstab that names a credentials file is never there before it.*)
THEOREM CredsFirst == Spec => []CredsBeforeEntry
<1>1. FstabInv => CredsBeforeEntry
  BY DEF FstabInv, Sound, CredsBeforeEntry
<1> QED
  BY <1>1, InitType, StepType, InitFstab, StepFstab, PTL DEF Spec
-----------------------------------------------------------------------------
(* One process, whose clients spell every mount point as the kernel does,   *)
(* and which does not die in the middle of a request.                       *)
OneProcess == \A v, w \in Workers : Host[v] = Host[w]
Canonical == \A p \in Points : Shown[DirOf[p]] = p

LEMMA InitTable == Init => TableInv
BY EmptySeq DEF Init, TableInv, OneMountPerDir

LEMMA StepTable ==
    ASSUME OneProcess, Canonical, ~Crashes
    PROVE  TypeOK /\ LockInv /\ TableInv /\ [Next]_vars => TableInv'
<1> SUFFICES ASSUME TypeOK, LockInv, TableInv, [Next]_vars PROVE TableInv'
  OBVIOUS
<1> USE MountAssumption
<1> DEFINE Waiting == {"temp", "mount"}
           Clear(w) == table[DirOf[Point(w)]] = <<>>
<1>a. DOMAIN pc = Workers /\ DOMAIN req = Workers /\ DOMAIN table = Dirs
  BY DEF TypeOK
<1>b. \A w \in Workers : pc[w] \in Waiting => Clear(w)
  BY DEF TableInv
<1>c. ASSUME UNCHANGED <<table, stray>>,
             \A w \in Workers : pc'[w] \in Waiting =>
                req'[w] = req[w] /\ (pc[w] \in Waiting \/ Clear(w))
      PROVE  TableInv'
  BY <1>b, <1>c DEF TableInv, OneMountPerDir, Point
<1>1. CASE UNCHANGED vars
  BY <1>1, <1>c DEF vars, diskVars, taskVars
<1>2. ASSUME NEW w \in Workers, NEW r \in Requests, Call(w, r) PROVE TableInv'
  BY <1>2, <1>a, <1>c DEF Call, Goto, diskVars
<1>3. ASSUME NEW w \in Workers, Lock(w) PROVE TableInv'
  BY <1>3, <1>a, <1>c DEF Lock, AfterLock, Goto, diskVars
<1>4. ASSUME NEW w \in Workers, Steps(w) PROVE TableInv'
  <2>1. UNCHANGED <<table, stray>>
    BY <1>4 DEF Steps, Validate, List, ListFails, Temp, TempFails, WriteCreds, ReadFstab,
       WriteFstab, PersistFails, diskVars
  <2>2. ASSUME NEW s, Continue(w, s), s \in Waiting => Clear(w) PROVE TableInv'
    BY <2>1, <2>2, <1>a, <1>c DEF Continue, Goto
  <2>3. ASSUME NEW r, Finish(w, r) PROVE TableInv'
    BY <2>1, <2>3, <1>a, <1>c DEF Finish, Goto
  <2>4. CASE List(w)
    <3>1. InUse(w) \/ Clear(w)
      <4>1. Point(w) \in Points
        BY <2>4, RequestOp DEF List, TypeOK, Idle, Point
      <4> QED
        BY <4>1 DEF InUse, Canonical
    <3>2. (\E r : Finish(w, r)) \/ Continue(w, "umount")
          \/ (~InUse(w) /\ \E s \in Waiting : Continue(w, s))
      BY <2>4 DEF List, Fail
    <3> QED
      BY <2>2, <2>3, <3>1, <3>2
  <2>5. CASE Temp(w)
    <3>1. Clear(w) /\ Continue(w, "mount")
      BY <1>b, <2>5 DEF Temp
    <3> QED
      BY <2>2, <3>1
  <2>6. CASE ReadFstab(w)
    BY <2>1, <2>6, <1>a, <1>c DEF ReadFstab, Goto
  <2>7. CASE Validate(w) \/ ListFails(w) \/ TempFails(w) \/ WriteCreds(w)
             \/ WriteFstab(w) \/ PersistFails(w)
    <3>1. (\E r : Finish(w, r)) \/ (\E s \in {"list", "read"} : Continue(w, s))
      BY <2>7 DEF Validate, ListFails, TempFails, WriteCreds, WriteFstab, PersistFails,
         Fail, Succeed
    <3> QED
      BY <2>2, <2>3, <3>1
  <2> QED
    BY <1>4, <2>4, <2>5, <2>6, <2>7 DEF Steps
<1>5. ASSUME NEW w \in Workers, Commands(w) PROVE TableInv'
  <2> DEFINE d == DirOf[Point(w)]
  <2>1. /\ pc[w] \in {"mount", "umount"}
        /\ UNCHANGED stray
        /\ table' \in {table, Effect(CommandOf(w), table)}
    BY <1>5 DEF Commands, RunMount, MountFails, RunUmount, UmountFails
  <2>2. \A v \in Workers : v # w => pc[v] \notin Waiting
    BY <2>1 DEF LockInv, OneProcess
  <2>3. \A v \in Workers : pc'[v] \notin Waiting
    BY <1>5, <1>a, <2>2 DEF Commands, RunMount, MountFails, RunUmount, UmountFails, Fail,
       Succeed, Finish, Continue, Goto, FirstStep
  <2>4. Point(w) \in Points /\ d \in Dirs /\ table[d] \in Seq(Sources) /\ Len(table[d]) <= 1
    BY <2>1, RequestOp DEF TypeOK, Idle, Point, TableInv, OneMountPerDir
  <2>5. ASSUME pc[w] = "mount"
        PROVE  \A e \in Dirs : Len(Effect(CommandOf(w), table)[e]) <= 1
    <3>1. req[w] \in MountRequest /\ table[d] = <<>>
      BY <1>b, <2>5 DEF TypeOK
    <3>2. Source(req[w]) \in Sources /\ req[w].op = "mount"
      BY <3>1, MountAssumption DEF MountRequest, Source
    <3>3. Effect(CommandOf(w), table) = [table EXCEPT ![d] = Append(@, Source(req[w]))]
      BY <3>2 DEF Effect, CommandOf
    <3>4. Len(Append(table[d], Source(req[w]))) = 1
      BY <3>1
    <3> QED
      BY <3>3, <3>4, <1>a DEF TableInv, OneMountPerDir
  <2>6. ASSUME pc[w] = "umount"
        PROVE  \A e \in Dirs : Len(Effect(CommandOf(w), table)[e]) <= 1
    <3>1. req[w] \in UmountRequest
      BY <2>6 DEF TypeOK
    <3>2. CommandOf(w) = [op |-> "umount", dir |-> d]
      BY <3>1 DEF CommandOf, UmountRequest
    <3>3. CASE table[d] = <<>>
      BY <3>2, <3>3 DEF Effect, TableInv, OneMountPerDir
    <3>4. CASE table[d] # <<>>
      <4>1. Effect(CommandOf(w), table) = [table EXCEPT ![d] = SubSeq(@, 1, Len(@) - 1)]
        BY <3>2, <3>4 DEF Effect
      <4>2. Len(SubSeq(table[d], 1, Len(table[d]) - 1)) <= 1
        BY <2>4, SubSeqProperties
      <4> QED
        BY <4>1, <4>2, <1>a DEF TableInv, OneMountPerDir
    <3> QED
      BY <3>3, <3>4
  <2>7. \A e \in Dirs : Len(table'[e]) <= 1
    BY <2>1, <2>5, <2>6 DEF TableInv, OneMountPerDir
  <2> QED
    BY <2>1, <2>3, <2>7 DEF TableInv, OneMountPerDir
<1>6. ~\E p \in Procs : Crash(p)
  BY DEF Crash
<1>7. ~\E c \in stray : RunStray(c)
  BY DEF TableInv
<1> QED
  BY <1>1, <1>2, <1>3, <1>4, <1>5, <1>6, <1>7 DEF Next

(* In one process that lives, with mount points spelled as the kernel does, *)
(* no file system is ever mounted over another: the mutex makes the check   *)
(* and the mount command one step.                                          *)
THEOREM NeverStacked ==
    ASSUME OneProcess, Canonical, ~Crashes
    PROVE  Spec => []OneMountPerDir
<1>1. TableInv => OneMountPerDir
  BY DEF TableInv
<1>2. TypeOK /\ LockInv /\ TableInv /\ [Next]_vars => TableInv'
  BY StepTable
<1> QED
  BY <1>1, <1>2, InitType, StepType, InitLock, StepLock, InitTable, PTL DEF Spec
-----------------------------------------------------------------------------
(* Persist writes the entry and leaves the lines of other mount points. *)
LEMMA WithEntryHolds ==
    ASSUME NEW ls \in Seq(Line), UniquePoints(ls), NEW e \in Line, e.point \in Points
    PROVE  /\ \E i \in DOMAIN WithEntry(ls, e) : WithEntry(ls, e)[i] = e
           /\ \A i \in DOMAIN ls : ls[i].point # e.point =>
                 i \in DOMAIN WithEntry(ls, e) /\ WithEntry(ls, e)[i] = ls[i]
<1>0. Len(ls) \in Nat /\ DOMAIN ls = 1 .. Len(ls)
  BY LenProperties
<1>1. CASE At(ls, e.point) = {}
  <2>1. WithEntry(ls, e) = Append(ls, e)
    BY <1>1 DEF WithEntry
  <2>2. /\ DOMAIN Append(ls, e) = 1 .. Len(ls) + 1
        /\ Append(ls, e)[Len(ls) + 1] = e
        /\ \A i \in 1 .. Len(ls) : Append(ls, e)[i] = ls[i]
    BY <1>0
  <2> QED
    BY <1>0, <2>1, <2>2
<1>2. CASE At(ls, e.point) # {}
  <2> DEFINE k == CHOOSE i \in At(ls, e.point) : \A j \in At(ls, e.point) : i <= j
  <2>1. PICK i \in At(ls, e.point) : At(ls, e.point) = {i}
    BY <1>2 DEF UniquePoints
  <2>2. i \in 1 .. Len(ls) /\ ls[i].point = e.point
    BY <1>0, <2>1 DEF At
  <2>3. k = i
    BY <2>1, <2>2
  <2>4. WithEntry(ls, e) = [ls EXCEPT ![i] = e]
    BY <1>2, <2>3 DEF WithEntry
  <2> QED
    BY <1>0, <2>2, <2>4
<1> QED
  BY <1>1, <1>2

(* Without a crash no command outlives its process. *)
LEMMA NoStray == ASSUME ~Crashes PROVE Spec => [](stray = {})
<1>1. Init => stray = {}
  BY DEF Init
<1>2. stray = {} /\ [Next]_vars => (stray = {})'
  <2> SUFFICES ASSUME stray = {}, [Next]_vars PROVE stray' = {}
    OBVIOUS
  <2>1. ASSUME NEW w \in Workers, Steps(w) \/ Commands(w) \/ Lock(w) PROVE UNCHANGED stray
    BY <2>1 DEF Steps, Commands, Lock, Validate, List, ListFails, Temp, TempFails, WriteCreds,
       ReadFstab, WriteFstab, PersistFails, RunMount, MountFails, RunUmount, UmountFails, diskVars
  <2> QED
    BY <2>1 DEF Next, Call, Crash, vars, diskVars
<1> QED
  BY <1>1, <1>2, PTL DEF Spec

(* One process that does not die: while a worker writes, what it has read   *)
(* is what is there.  The entry of what was acknowledged stays, and so do    *)
(* its credentials, until a later request for the same mount point writes   *)
(* its own: these are left behind when that request fails, and are those of *)
(* the new entry when it does not.                                          *)
Rewriting(p) ==
    \E w \in Workers : pc[w] \in {"read", "write"} /\ NeedsCreds(w) /\ Point(w) = p
HasCreds(r) == r.cifs /\ r.secret # NoSecret
Entered(r) ==
    \E i \in DOMAIN fstab : /\ fstab[i].point = r.point
                            /\ fstab[i].source = Source(r)
                            /\ fstab[i].creds <=> HasCreds(r)
Credited(r) ==
    HasCreds(r) =>
       creds[r.point] = IF left[r.point] = NoSecret THEN r.secret ELSE left[r.point]

KeptInv ==
    /\ \A w \in Workers :
          /\ pc[w] \in {"creds", "read", "write"} => req[w].persistent
          /\ pc[w] \in {"read", "write"} /\ NeedsCreds(w) => creds[Point(w)] = req[w].secret
          /\ pc[w] = "write" => lines[w] = fstab
    /\ \A p \in Points : kept[p] # NoRequest =>
          /\ kept[p].point = p
          /\ Entered(kept[p])
          /\ Rewriting(p) \/ Credited(kept[p])

LEMMA StepKept ==
    ASSUME OneProcess, ~Crashes, TypeOK, LockInv, FstabInv, stray = {}, KeptInv, [Next]_vars
    PROVE  KeptInv'
<1> USE MountAssumption
<1> DEFINE Persisting(w) ==
              /\ pc[w] \in {"creds", "read", "write"} => req[w].persistent
              /\ pc[w] \in {"read", "write"} /\ NeedsCreds(w) => creds[Point(w)] = req[w].secret
              /\ pc[w] = "write" => lines[w] = fstab
           Keeping(p) == kept[p] # NoRequest =>
                            /\ kept[p].point = p
                            /\ Entered(kept[p])
                            /\ Rewriting(p) \/ Credited(kept[p])
<1>a. DOMAIN pc = Workers /\ DOMAIN req = Workers /\ DOMAIN lines = Workers
      /\ DOMAIN creds = Points /\ DOMAIN kept = Points /\ DOMAIN left = Points
  BY DEF TypeOK
<1>b. (\A w \in Workers : Persisting(w)) /\ \A p \in Points : Keeping(p)
  BY DEF KeptInv
<1>c. ASSUME UNCHANGED <<creds, fstab, histVars>>,
             \A v \in Workers :
                /\ pc'[v] \in {"creds", "read", "write"} =>
                      /\ req'[v] = req[v] /\ req[v].persistent
                      /\ pc'[v] # "creds" /\ pc[v] \notin {"read", "write"} => ~NeedsCreds(v)
                /\ pc'[v] = "write" => lines'[v] = fstab
                /\ pc[v] \in {"read", "write"} =>
                      pc'[v] \in {"read", "write"} \/ ~NeedsCreds(v)
      PROVE  KeptInv'
  <2>1. \A v \in Workers : Persisting(v)'
    BY <1>b, <1>c DEF NeedsCreds, Point
  <2>2. \A p \in Points : Rewriting(p) => Rewriting(p)'
    BY <1>c DEF Rewriting, Point, NeedsCreds
  <2>3. \A p \in Points : /\ Entered(kept[p]) => Entered(kept[p])'
                          /\ Credited(kept[p]) => Credited(kept[p])'
    BY <1>c DEF Entered, Credited, histVars
  <2>4. \A p \in Points : Keeping(p)'
    BY <1>b, <1>c, <2>2, <2>3 DEF histVars
  <2> QED
    BY <2>1, <2>4 DEF KeptInv
<1>1. CASE UNCHANGED vars
  BY <1>1, <1>b, <1>c DEF vars, diskVars, taskVars, NeedsCreds
<1>2. ASSUME NEW w \in Workers, NEW r \in Requests, Call(w, r) PROVE KeptInv'
  BY <1>2, <1>a, <1>b, <1>c DEF Call, Goto, Idle, diskVars
<1>3. ASSUME NEW w \in Workers, Lock(w) PROVE KeptInv'
  BY <1>3, <1>a, <1>b, <1>c DEF Lock, AfterLock, Goto, diskVars
<1>4. ASSUME NEW w \in Workers, Steps(w) \/ Commands(w) PROVE KeptInv'
  <2>1. ASSUME NEW s, Continue(w, s), UNCHANGED <<creds, fstab>>,
               pc[w] \notin {"read", "write"}, s # "write",
               s \in {"creds", "read"} => req[w].persistent,
               s = "read" => ~NeedsCreds(w)
        PROVE  KeptInv'
    BY <1>a, <1>b, <1>c, <2>1 DEF Continue, Goto
  <2>2. ASSUME NEW r, Finish(w, r), UNCHANGED <<creds, fstab, histVars>>,
               pc[w] \in {"read", "write"} => ~NeedsCreds(w)
        PROVE  KeptInv'
    BY <1>a, <1>b, <1>c, <2>2 DEF Finish, Goto
  <2>3. \A v \in Workers \ {w} : pc[v] \in {"idle", "lock"}
    <3>1. pc[w] \in Inside
      BY <1>4, StepShape
    <3> QED
      BY <3>1 DEF LockInv, OneProcess, Inside
  <2>4. CASE WriteCreds(w)
    <3>1. pc[w] = "creds" /\ req[w] \in MountRequest /\ Point(w) \in Points
      BY <2>4 DEF WriteCreds, TypeOK, MountRequest, Point
    <3>2. UNCHANGED <<fstab, req, lines, kept, left>> /\ pc' = [pc EXCEPT ![w] = "read"]
          /\ creds' = [creds EXCEPT ![Point(w)] = req[w].secret]
      BY <2>4 DEF WriteCreds, Continue, Goto, histVars
    <3>3. Persisting(w)' /\ \A v \in Workers \ {w} : Persisting(v)'
      BY <1>a, <1>b, <2>3, <3>1, <3>2 DEF Point, NeedsCreds
    <3>4. NeedsCreds(w) /\ \A p \in Points : ~Rewriting(p)
      BY <2>3, <3>1 DEF Rewriting, FstabInv
    <3>5. ASSUME NEW p \in Points PROVE Keeping(p)'
      <4>1. Entered(kept[p]) => Entered(kept[p])'
        BY <3>2 DEF Entered
      <4>2. CASE p = Point(w)
        <5>1. Rewriting(p)'
          BY <1>a, <3>2, <3>4, <4>2 DEF Rewriting, Point, NeedsCreds
        <5> QED
          BY <1>b, <3>2, <4>1, <5>1
      <4>3. CASE p # Point(w)
        <5>1. creds'[p] = creds[p]
          BY <1>a, <3>2, <4>3
        <5>2. kept[p].point = p /\ Credited(kept[p]) => Credited(kept[p])'
          BY <3>2, <5>1 DEF Credited
        <5> QED
          BY <1>b, <3>2, <3>4, <4>1, <5>2
      <4> QED
        BY <4>2, <4>3
    <3> QED
      BY <3>3, <3>5 DEF KeptInv
  <2>5. CASE WriteFstab(w)
    <3>1. pc[w] = "write" /\ req[w] \in MountRequest /\ Point(w) \in Points
          /\ req[w].op = "mount" /\ req[w].persistent /\ lines[w] = fstab
      BY <1>b, <2>5 DEF WriteFstab, TypeOK, MountRequest, Point
    <3>2. /\ Entry(w) \in Line /\ Entry(w).point = Point(w)
          /\ fstab \in Seq(Line) /\ UniquePoints(fstab)
      BY <3>1, MountAssumption
         DEF Entry, Line, NeedsCreds, Point, MountRequest, Source, TypeOK, FstabInv, Sound
    <3>3. /\ UNCHANGED creds /\ pc' = [pc EXCEPT ![w] = "idle"]
          /\ fstab' = WithEntry(fstab, Entry(w))
          /\ kept' = [kept EXCEPT ![Point(w)] = req[w]]
          /\ left' = [left EXCEPT ![Point(w)] = NoSecret]
      BY <2>5, <3>1 DEF WriteFstab, Succeed, Finish, Goto
    <3>4. \A v \in Workers : Persisting(v)'
      BY <1>a, <2>3, <3>3
    <3>5. ASSUME NEW p \in Points PROVE Keeping(p)'
      <4>1. CASE p = Point(w)
        <5>1. PICK i \in DOMAIN fstab' : fstab'[i] = Entry(w)
          BY <3>1, <3>2, <3>3, WithEntryHolds
        <5>2. kept'[p] = req[w] /\ req[w].point = p /\ left'[p] = NoSecret
          BY <1>a, <3>3, <4>1 DEF Point
        <5>3. /\ fstab'[i].point = p /\ fstab'[i].source = Source(req[w])
              /\ fstab'[i].creds <=> HasCreds(req[w])
          <6>1. fstab'[i].point = p /\ fstab'[i].source = Source(req[w])
                /\ fstab'[i].creds = NeedsCreds(w)
            BY <4>1, <5>1 DEF Entry
          <6> QED
            BY <6>1 DEF NeedsCreds, HasCreds
        <5>4. HasCreds(req[w]) => creds'[p] = req[w].secret
          BY <1>b, <3>1, <3>3, <4>1 DEF HasCreds, NeedsCreds
        <5>5. Entered(kept[p])'
          BY <5>2, <5>3 DEF Entered
        <5>6. Credited(kept[p])'
          BY <5>2, <5>4 DEF Credited
        <5> QED
          BY <5>2, <5>5, <5>6
      <4>2. CASE p # Point(w)
        <5>1. kept'[p] = kept[p] /\ left'[p] = left[p] /\ ~Rewriting(p)
          BY <1>a, <2>3, <3>1, <3>3, <4>2 DEF Rewriting
        <5>2. SUFFICES ASSUME kept[p] # NoRequest PROVE Keeping(p)'
          BY <5>1
        <5>3. kept[p].point = p /\ Entered(kept[p]) /\ Credited(kept[p])
          BY <1>b, <5>1, <5>2
        <5>4. PICK i \in DOMAIN fstab : /\ fstab[i].point = kept[p].point
                                        /\ fstab[i].source = Source(kept[p])
                                        /\ fstab[i].creds <=> HasCreds(kept[p])
          BY <5>3 DEF Entered
        <5>5. i \in DOMAIN fstab' /\ fstab'[i] = fstab[i]
          BY <3>1, <3>2, <3>3, <4>2, <5>3, <5>4, WithEntryHolds
        <5>6. Entered(kept[p])'
          BY <5>1, <5>4, <5>5 DEF Entered
        <5>7. Credited(kept[p])'
          BY <3>3, <5>1, <5>3 DEF Credited
        <5> QED
          BY <5>1, <5>3, <5>6, <5>7
      <4> QED
        BY <4>1, <4>2
    <3> QED
      BY <3>4, <3>5 DEF KeptInv
  <2>6. CASE ReadFstab(w)
    <3>1. /\ UNCHANGED <<creds, fstab, histVars, req>> /\ pc[w] = "read"
          /\ pc' = [pc EXCEPT ![w] = "write"] /\ lines' = [lines EXCEPT ![w] = fstab]
      BY <2>6 DEF ReadFstab, Goto, diskVars
    <3> QED
      BY <1>a, <1>b, <1>c, <3>1
  <2>7. CASE Validate(w) \/ List(w) \/ ListFails(w) \/ Temp(w) \/ TempFails(w)
    <3>1. /\ UNCHANGED <<creds, fstab>> /\ pc[w] \notin {"read", "write"}
          /\ \/ \E r \in {"none", "failure"} : Finish(w, r) /\ UNCHANGED histVars
             \/ \E s \in {"list", "mount", "umount", "temp"} : Continue(w, s)
      BY <2>7 DEF Validate, List, ListFails, Temp, TempFails, Fail, diskVars
    <3> QED
      BY <2>1, <2>2, <3>1
  <2>8. CASE RunMount(w)
    <3>1. CASE req[w].persistent
      BY <2>1, <2>8, <3>1 DEF RunMount, FirstStep
    <3>2. CASE ~req[w].persistent
      BY <2>2, <2>8, <3>2 DEF RunMount, Succeed, histVars
    <3> QED
      BY <3>1, <3>2
  <2>9. CASE MountFails(w) \/ RunUmount(w) \/ UmountFails(w)
    <3>1. pc[w] = "umount" => req[w].op # "mount"
      BY DEF TypeOK, UmountRequest
    <3>2. \E r : Finish(w, r) /\ UNCHANGED <<creds, fstab, histVars>> /\ pc[w] \notin {"read", "write"}
      BY <2>9, <3>1 DEF MountFails, RunUmount, UmountFails, Fail, Succeed, histVars
    <3> QED
      BY <2>2, <3>2
  <2>10. CASE PersistFails(w)
    <3>1. pc[w] \in {"creds", "read", "write"} /\ Finish(w, "failure")
          /\ UNCHANGED <<creds, fstab, kept>>
      BY <2>10 DEF PersistFails, diskVars
    <3>2. CASE pc[w] # "creds" /\ NeedsCreds(w)
      <4>1. /\ left' = [left EXCEPT ![Point(w)] = req[w].secret]
            /\ creds[Point(w)] = req[w].secret /\ req[w].secret # NoSecret
        BY <1>b, <2>10, <3>1, <3>2 DEF PersistFails, NeedsCreds
      <4>2. \A v \in Workers : pc'[v] \in {"idle", "lock"}
        BY <1>a, <2>3, <3>1 DEF Finish, Goto
      <4>3. ASSUME NEW p \in Points, kept[p] # NoRequest PROVE Keeping(p)'
        <5>1. kept[p].point = p /\ Entered(kept[p])'
          BY <1>b, <3>1, <4>3 DEF Entered
        <5>2. CASE p = Point(w)
          <6>1. left'[p] = creds'[p] /\ left'[p] # NoSecret
            BY <1>a, <3>1, <4>1, <5>2
          <6> QED
            BY <3>1, <5>1, <6>1 DEF Credited
        <5>3. CASE p # Point(w)
          <6>1. left'[p] = left[p] /\ ~Rewriting(p)
            BY <1>a, <2>3, <3>1, <4>1, <5>3 DEF Rewriting
          <6>2. Credited(kept[p])
            BY <1>b, <4>3, <6>1
          <6>3. Credited(kept[p])'
            BY <3>1, <5>1, <6>1, <6>2 DEF Credited
          <6> QED
            BY <3>1, <5>1, <6>3
        <5> QED
          BY <5>2, <5>3
      <4>4. \A v \in Workers : Persisting(v)'
        BY <4>2
      <4> QED
        BY <3>1, <4>3, <4>4 DEF KeptInv
    <3>3. CASE ~(pc[w] # "creds" /\ NeedsCreds(w))
      <4>1. UNCHANGED histVars
        BY <2>10, <3>1, <3>3 DEF PersistFails, histVars
      <4> QED
        BY <2>2, <3>1, <3>3, <4>1
    <3> QED
      BY <3>2, <3>3
  <2> QED
    BY <1>4, <2>4, <2>5, <2>6, <2>7, <2>8, <2>9, <2>10 DEF Steps, Commands
<1>5. ~(\E p \in Procs : Crash(p)) /\ ~\E c \in stray : RunStray(c)
  BY DEF Crash
<1> QED
  BY <1>1, <1>2, <1>3, <1>4, <1>5 DEF Next

(* In one process that lives, a persistent mount that was acknowledged is   *)
(* what the boot mounts, whatever fails later, the read and the replacement *)
(* of fstab included; its credentials are those it was given, or those that *)
(* a later request for the same mount point left when it failed after it    *)
(* had written them (mount.go, Persist).                                    *)
THEOREM BootsAcknowledged ==
    ASSUME OneProcess, ~Crashes
    PROVE  Spec => []KeptAcrossBoot
<1>1. Init => KeptInv
  BY DEF Init, KeptInv
<1>2. (TypeOK /\ LockInv /\ FstabInv /\ stray = {}) /\ KeptInv /\ [Next]_vars => KeptInv'
  BY StepKept
<1>3. KeptInv => KeptAcrossBoot
  BY DEF KeptInv, KeptAcrossBoot, Quiescent, Idle, Rewriting, Entered, Credited, HasCreds, Boots
<1> QED
  BY <1>1, <1>2, <1>3, InitType, StepType, InitLock, StepLock, InitFstab, StepFstab, NoStray,
     PTL DEF Spec
-----------------------------------------------------------------------------
(* With canonical points: what is being persisted is what is mounted. *)
MountedInv ==
    \A w \in Workers : pc[w] \in {"creds", "read", "write"} =>
                          table[DirOf[Point(w)]] = <<Source(req[w])>>

(* The mount command puts its source on a directory where nothing was, and  *)
(* the umount command leaves nothing.                                       *)
LEMMA CommandDone ==
    ASSUME TypeOK, TableInv, NEW w \in Workers, pc[w] \in {"mount", "umount"}
    PROVE  Effect(CommandOf(w), table)[DirOf[Point(w)]] =
              IF req[w].op = "mount" THEN <<Source(req[w])>> ELSE <<>>
<1> DEFINE d == DirOf[Point(w)]
<1>1. req[w] \in Request /\ Point(w) \in Points /\ d \in Dirs /\ DOMAIN table = Dirs
      /\ table[d] \in Seq(Sources) /\ Len(table[d]) <= 1
  BY MountAssumption, RequestOp DEF TypeOK, Idle, Point, TableInv, OneMountPerDir
<1>2. CASE pc[w] = "mount"
  <2>1. req[w].op = "mount" /\ table[d] = <<>> /\ Source(req[w]) \in Sources
    BY <1>2, MountAssumption DEF TypeOK, MountRequest, TableInv, Source
  <2>2. Effect(CommandOf(w), table) = [table EXCEPT ![d] = Append(@, Source(req[w]))]
    BY <2>1 DEF Effect, CommandOf
  <2>3. Append(<<>>, Source(req[w])) = <<Source(req[w])>>
    BY <2>1
  <2> QED
    BY <1>1, <2>1, <2>2, <2>3
<1>3. CASE pc[w] = "umount"
  <2>1. req[w].op = "umount" /\ CommandOf(w) = [op |-> "umount", dir |-> d]
    BY <1>3 DEF TypeOK, UmountRequest, CommandOf
  <2>2. CASE table[d] = <<>>
    BY <1>1, <2>1, <2>2 DEF Effect
  <2>3. CASE table[d] # <<>>
    <3>1. Effect(CommandOf(w), table) = [table EXCEPT ![d] = SubSeq(@, 1, Len(@) - 1)]
      BY <2>1, <2>3 DEF Effect
    <3>2. Len(table[d]) \in Nat /\ Len(table[d]) # 0
      BY <1>1, <2>3, LenProperties, EmptySeq, Zenon
    <3>3. Len(table[d]) = 1 /\ Len(table[d]) - 1 = 0
      <4>1. \A n \in Nat : n # 0 /\ n <= 1 => n = 1 /\ n - 1 = 0
        BY SMT
      <4> HIDE DEF d
      <4> QED
        BY <4>1, <1>1, <3>2, Zenon
    <3>4. SubSeq(table[d], 1, 0) = <<>>
      BY <1>1, <3>3
    <3>5. [table EXCEPT ![d] = SubSeq(@, 1, Len(@) - 1)][d] = SubSeq(table[d], 1, 0)
      <4> HIDE DEF d
      <4> QED
        BY <1>1, <3>3, Zenon
    <3>6. Effect(CommandOf(w), table)[d] = <<>>
      BY <3>1, <3>4, <3>5, Zenon
    <3> QED
      BY <2>1, <3>6
  <2> QED
    BY <2>2, <2>3
<1> QED
  BY <1>2, <1>3

LEMMA StepMounted ==
    ASSUME OneProcess, TypeOK, LockInv, TableInv, MountedInv, ~Crashes, [Next]_vars
    PROVE  MountedInv'
<1>a. DOMAIN pc = Workers /\ DOMAIN req = Workers
  BY DEF TypeOK
<1>b. ASSUME UNCHANGED table,
             \A v \in Workers : pc'[v] \in {"creds", "read", "write"} =>
                req'[v] = req[v] /\ pc[v] \in {"creds", "read", "write"}
      PROVE  MountedInv'
  BY <1>b DEF MountedInv, Point
<1>1. ASSUME NEW w \in Workers, NEW r \in Requests, Call(w, r) PROVE MountedInv'
  BY <1>1, <1>a, <1>b DEF Call, Goto, diskVars
<1>2. ASSUME NEW w \in Workers, Lock(w) PROVE MountedInv'
  BY <1>2, <1>a, <1>b DEF Lock, AfterLock, Goto, diskVars
<1>3. ASSUME NEW w \in Workers, Steps(w) PROVE MountedInv'
  <2>1. UNCHANGED table
    BY <1>3 DEF Steps, Validate, List, ListFails, Temp, TempFails, WriteCreds, ReadFstab,
       WriteFstab, PersistFails, diskVars
  <2>2. \/ \E r : Finish(w, r)
        \/ \E s \in {"list", "mount", "umount", "temp"} : Goto(w, s) /\ UNCHANGED req
        \/ /\ pc[w] \in {"creds", "read"} /\ UNCHANGED req
           /\ \E s \in {"read", "write"} : Goto(w, s)
    BY <1>3 DEF Steps, Validate, List, ListFails, Temp, TempFails, WriteCreds, ReadFstab,
       WriteFstab, PersistFails, Continue, Fail, Succeed
  <2> QED
    BY <1>a, <1>b, <2>1, <2>2 DEF Finish, Goto
<1>4. ASSUME NEW w \in Workers, Commands(w) PROVE MountedInv'
  <2>1. pc[w] \in {"mount", "umount"}
    BY <1>4 DEF Commands, RunMount, MountFails, RunUmount, UmountFails
  <2>2. \A v \in Workers \ {w} : pc[v] \in {"idle", "lock"}
    BY <2>1 DEF LockInv, OneProcess
  <2>3. CASE \E r : Finish(w, r)
    BY <1>a, <2>2, <2>3 DEF Finish, Goto, MountedInv
  <2>4. CASE RunMount(w) /\ ~\E r : Finish(w, r)
    <3>1. Continue(w, FirstStep(w)) /\ table' = Effect(CommandOf(w), table) /\ pc[w] = "mount"
      BY <2>4 DEF RunMount, Succeed
    <3>2. req[w].op = "mount" /\ UNCHANGED req
      BY <3>1 DEF TypeOK, MountRequest, Continue
    <3>3. table'[DirOf[Point(w)]] = <<Source(req[w])>>
      BY <2>1, <3>1, <3>2, CommandDone
    <3>4. \A v \in Workers \ {w} : pc'[v] \in {"idle", "lock"}
      BY <1>a, <2>2, <3>1 DEF Continue, Goto
    <3> QED
      BY <3>2, <3>3, <3>4 DEF MountedInv, Point
  <2> QED
    BY <1>4, <2>3, <2>4 DEF Commands, MountFails, RunUmount, UmountFails, Fail, Succeed
<1>5. ~(\E p \in Procs : Crash(p)) /\ ~\E c \in stray : RunStray(c)
  BY DEF Crash, TableInv
<1>6. CASE UNCHANGED vars
  BY <1>6, <1>b DEF vars, diskVars, taskVars
<1> QED
  BY <1>1, <1>2, <1>3, <1>4, <1>5, <1>6 DEF Next

(* In one process that lives, with mount points spelled as the kernel does, *)
(* an answer is true when it is given: after success the source is mounted, *)
(* or nothing is; a conflict or a not-found error tells the table.          *)
THEOREM AnswersAreTrue ==
    ASSUME OneProcess, Canonical, ~Crashes
    PROVE  Spec => AnswersTrue
<1> DEFINE True(w) ==
       LET t == table'[DirOf[Point(w)]] IN
       /\ Answers(w, "success") =>
             t = IF req[w].op = "mount" THEN <<Source(req[w])>> ELSE <<>>
       /\ Answers(w, "failure") /\ pc[w] = "list" =>
             CASE req[w].op = "umount" -> t = <<>>
               [] req[w].op = "mount"  -> t # <<>> \/ req[w].source \in BadSources
<1>1. Init => MountedInv
  BY DEF Init, MountedInv
<1>2. (TypeOK /\ LockInv /\ TableInv) /\ MountedInv /\ [Next]_vars => MountedInv'
  BY StepMounted
<1>3. TypeOK /\ LockInv /\ TableInv /\ [Next]_vars => TableInv'
  BY StepTable
<1>4. ASSUME TypeOK, LockInv, TableInv, MountedInv, [Next]_vars
      PROVE  [\A w \in Workers : True(w)]_vars
  <2> USE <1>4
  <2> SUFFICES ASSUME NEW w \in Workers, ~UNCHANGED vars, pc[w] # "idle", pc'[w] = "idle"
               PROVE  True(w)
    BY DEF Answers
  <2>1. DOMAIN pc = Workers /\ DOMAIN audit = Workers
    BY DEF TypeOK
  <2>2. Steps(w) \/ Commands(w)
    <3>1. ASSUME NEW v \in Workers, Steps(v) \/ Commands(v) PROVE v = w
      BY <2>1, <3>1, StepShape
    <3>2. ASSUME NEW v \in Workers, Lock(v) PROVE FALSE
      BY <2>1, <3>2 DEF Lock, Goto, AfterLock
    <3>3. ASSUME NEW v \in Workers, NEW r \in Requests, Call(v, r) PROVE FALSE
      BY <2>1, <3>3 DEF Call, Goto
    <3>4. ~(\E p \in Procs : Crash(p)) /\ ~\E c \in stray : RunStray(c)
      BY DEF Crash, TableInv
    <3> QED
      BY <3>1, <3>2, <3>3, <3>4 DEF Next
  <2>3. CASE Commands(w)
    <3>1. pc[w] \in {"mount", "umount"} /\ (Succeed(w) => table' = Effect(CommandOf(w), table))
      BY <2>3 DEF Commands, RunMount, MountFails, RunUmount, UmountFails, Fail, Succeed, Finish,
         TypeOK
    <3>2. Answers(w, "success") => table' = Effect(CommandOf(w), table)
      BY <2>1, <2>3, <3>1 DEF Commands, RunMount, MountFails, RunUmount, UmountFails, Fail,
         Finish, Answers, Continue
    <3> QED
      BY <3>1, <3>2, CommandDone DEF Answers
  <2>4. CASE WriteFstab(w)
    <3>1. pc[w] = "write" /\ req[w].op = "mount" /\ UNCHANGED table
      BY <2>4 DEF WriteFstab, TypeOK, MountRequest
    <3> QED
      BY <3>1 DEF MountedInv, Answers
  <2>5. CASE List(w)
    <3>1. Fail(w, "failure") /\ UNCHANGED table /\ pc[w] = "list" /\ Point(w) \in Points
          /\ req[w].op \in {"mount", "umount"}
      <4>1. req[w] \in Request
        BY <2>5 DEF List, TypeOK, Idle
      <4> QED
        BY <2>1, <2>5, <4>1, RequestOp DEF List, Continue, Goto, diskVars, Point, Request,
           MountRequest, UmountRequest
    <3>2. ~Answers(w, "success")
      BY <2>1, <3>1 DEF Fail, Finish, Answers
    <3>3. InUse(w) => table[DirOf[Point(w)]] # <<>>
      BY <3>1, MountAssumption DEF InUse, Canonical
    <3>4. table[DirOf[Point(w)]] # <<>> => InUse(w)
      BY <3>1, MountAssumption DEF InUse, Canonical
    <3>5. /\ req[w].op = "umount" => ~InUse(w)
          /\ req[w].op = "mount" => InUse(w) \/ req[w].source \in BadSources
      BY <2>1, <2>5, <3>1 DEF List, Continue, Goto
    <3> QED
      BY <3>1, <3>2, <3>3, <3>4, <3>5
  <2>6. CASE Validate(w) \/ ListFails(w) \/ Temp(w) \/ TempFails(w) \/ WriteCreds(w)
             \/ ReadFstab(w) \/ PersistFails(w)
    <3>1. /\ ~Answers(w, "success")
          /\ ~(Answers(w, "failure") /\ pc[w] = "list")
      BY <2>1, <2>6 DEF Validate, ListFails, Temp, TempFails, WriteCreds, ReadFstab,
         PersistFails, Fail, Finish, Continue, Goto, Answers
    <3> QED
      BY <3>1
  <2> QED
    BY <2>2, <2>3, <2>4, <2>5, <2>6 DEF Steps
<1> QED
  BY <1>1, <1>2, <1>3, <1>4, InitType, StepType, InitLock, StepLock, InitTable,
     PTL DEF Spec, AnswersTrue

-----------------------------------------------------------------------------

(* A nonempty set of naturals has a least member. *)
LEMMA LeastMember ==
    ASSUME NEW S \in SUBSET Nat, S # {}
    PROVE  \E i \in S : \A j \in S : i <= j
<1>1. \E i \in S : \A j \in S : <<j, i>> \notin OpToRel(<, Nat)
  BY NatLessThanWellFounded, WFMin
<1>2. PICK i \in S : \A j \in S : <<j, i>> \notin OpToRel(<, Nat)
  BY <1>1
<1>3. ASSUME NEW j \in S PROVE ~(j < i)
  BY <1>2 DEF OpToRel
<1> QED BY <1>3

(* Persist leaves the other lines where they are. *)
LEMMA OthersStay ==
    ASSUME NEW ls \in Seq(Line), NEW e \in Line
    PROVE  SameOthers(ls, WithEntry(ls, e), e.point)
<1> DEFINE p == e.point
           new == WithEntry(ls, e)
           at == [i \in Others(ls, p) |-> i]
<1>1. Len(ls) \in Nat /\ DOMAIN ls = 1 .. Len(ls)
  BY LenProperties
<1>2. /\ Others(new, p) = Others(ls, p)
      /\ \A i \in Others(ls, p) : new[i] = ls[i]
  <2>1. CASE At(ls, p) = {}
    <3>1. new = Append(ls, e)
      BY <2>1 DEF WithEntry
    <3>2. /\ DOMAIN new = 1 .. Len(ls) + 1 /\ new[Len(ls) + 1] = e
          /\ \A i \in 1 .. Len(ls) : new[i] = ls[i]
      BY <3>1, <1>1, AppendProperties, LenProperties
    <3> QED BY <1>1, <3>2 DEF Others, At
  <2>2. CASE At(ls, p) # {}
    <3> DEFINE k == CHOOSE i \in At(ls, p) : \A j \in At(ls, p) : i <= j
    <3>1. new = [ls EXCEPT ![k] = e]
      BY <2>2 DEF WithEntry
    <3>2. k \in At(ls, p)
      <4>1. \E i \in At(ls, p) : \A j \in At(ls, p) : i <= j
        <5>1. At(ls, p) \in SUBSET Nat
          BY <1>1 DEF At
        <5> QED BY <5>1, <2>2, LeastMember
      <4> QED BY <4>1
    <3> HIDE DEF k
    <3>3. /\ DOMAIN new = DOMAIN ls /\ new[k] = e
          /\ \A i \in DOMAIN ls : i # k => new[i] = ls[i]
      BY <3>1, <3>2 DEF At
    <3> QED BY <3>2, <3>3 DEF Others, At
  <2> QED BY <2>1, <2>2
<1> HIDE DEF new
<1>3. at \in [Others(ls, p) -> Others(new, p)]
  BY <1>2
<1> QED BY <1>2, <1>3 DEF SameOthers, new

(* In one process nobody writes fstab between the read of a worker and its  *)
(* write.                                                                   *)
ReadInv == \A w \in Workers : pc[w] = "write" => lines[w] = fstab

LEMMA StepRead ==
    ASSUME OneProcess, TypeOK, LockInv, ReadInv, [Next]_vars
    PROVE  ReadInv'
<1> USE MountAssumption
<1>a. DOMAIN pc = Workers /\ DOMAIN lines = Workers
  BY DEF TypeOK
<1>b. ASSUME UNCHANGED fstab,
             \A v \in Workers : pc'[v] = "write" =>
                \/ pc[v] = "write" /\ lines'[v] = lines[v]
                \/ lines'[v] = fstab
      PROVE  ReadInv'
  BY <1>b DEF ReadInv
<1>1. CASE UNCHANGED vars
  BY <1>1, <1>b DEF vars, diskVars, taskVars
<1>2. ASSUME NEW w \in Workers, NEW r \in Requests, Call(w, r) PROVE ReadInv'
  BY <1>2, <1>a, <1>b DEF Call, Goto, Idle, diskVars
<1>3. ASSUME NEW w \in Workers, Lock(w) PROVE ReadInv'
  BY <1>3, <1>a, <1>b DEF Lock, AfterLock, Goto, diskVars
<1>4. ASSUME NEW w \in Workers, Steps(w) \/ Commands(w) PROVE ReadInv'
  <2>1. ASSUME NEW s, Continue(w, s), UNCHANGED fstab, s # "write" PROVE ReadInv'
    BY <1>a, <1>b, <2>1 DEF Continue, Goto
  <2>2. ASSUME NEW r, Finish(w, r), UNCHANGED fstab PROVE ReadInv'
    BY <1>a, <1>b, <2>2 DEF Finish, Goto
  <2>3. CASE WriteFstab(w)
    <3>1. \A v \in Workers \ {w} : pc[v] \in {"idle", "lock"}
      <4>1. pc[w] \in Inside
        BY <1>4, StepShape
      <4> QED BY <4>1 DEF LockInv, OneProcess, Inside
    <3>2. pc' = [pc EXCEPT ![w] = "idle"]
      BY <2>3 DEF WriteFstab, Succeed, Finish, Goto
    <3> QED BY <1>a, <3>1, <3>2 DEF ReadInv
  <2>4. CASE ReadFstab(w)
    BY <1>a, <1>b, <2>4 DEF ReadFstab, Goto, diskVars
  <2>5. CASE Validate(w) \/ List(w) \/ ListFails(w) \/ Temp(w) \/ TempFails(w)
             \/ WriteCreds(w) \/ PersistFails(w)
    <3>1. /\ UNCHANGED fstab
          /\ \/ \E r \in {"none", "failure"} : Finish(w, r)
             \/ \E s \in {"list", "mount", "umount", "temp", "read"} : Continue(w, s)
      BY <2>5 DEF Validate, List, ListFails, Temp, TempFails, WriteCreds, PersistFails, Fail,
         diskVars
    <3> QED BY <2>1, <2>2, <3>1
  <2>6. CASE Commands(w)
    <3>1. UNCHANGED fstab
          /\ \/ \E r \in {"success", "failure"} : Finish(w, r)
             \/ Continue(w, FirstStep(w))
      BY <2>6 DEF Commands, RunMount, MountFails, RunUmount, UmountFails, Fail, Succeed
    <3>2. FirstStep(w) # "write"
      BY DEF FirstStep
    <3> QED BY <2>1, <2>2, <3>1, <3>2
  <2> QED BY <1>4, <2>3, <2>4, <2>5, <2>6 DEF Steps
<1>5. ASSUME NEW p \in Procs, Crash(p) PROVE ReadInv'
  BY <1>5, <1>a, <1>b DEF Crash
<1>6. ASSUME NEW c \in stray, RunStray(c) PROVE ReadInv'
  BY <1>6, <1>b DEF RunStray, taskVars
<1> QED BY <1>1, <1>2, <1>3, <1>4, <1>5, <1>6 DEF Next

(* Only Persist changes fstab, and it leaves the other lines as they are and *)
(* in their order, also in a process that dies: mount.go, fstabPersister.    *)
THEOREM OthersAreKept ==
    ASSUME OneProcess
    PROVE  Spec => OtherLinesKept
<1>1. Init => ReadInv
  BY DEF Init, ReadInv
<1>2. (TypeOK /\ LockInv) /\ ReadInv /\ [Next]_vars => ReadInv'
  BY StepRead
<1>3. ASSUME TypeOK, ReadInv, [Next]_vars
      PROVE  [fstab' # fstab =>
                \E w \in Workers : pc[w] = "write" /\ SameOthers(fstab, fstab', Point(w))]_vars
  <2> SUFFICES ASSUME Next, fstab' # fstab
               PROVE  \E w \in Workers : pc[w] = "write" /\ SameOthers(fstab, fstab', Point(w))
    BY <1>3
  <2>1. PICK w \in Workers : WriteFstab(w)
    BY DEF Next, Call, Lock, Commands, Steps, RunMount, MountFails, RunUmount, UmountFails,
       Validate, List, ListFails, Temp, TempFails, WriteCreds, ReadFstab, PersistFails,
       Crash, RunStray, diskVars
  <2>2. pc[w] = "write" /\ req[w] \in MountRequest /\ lines[w] = fstab /\ fstab \in Seq(Line)
    BY <1>3, <2>1 DEF WriteFstab, TypeOK, ReadInv
  <2>3. Entry(w) \in Line /\ Entry(w).point = Point(w)
    BY <2>2, MountAssumption DEF Entry, Line, NeedsCreds, Point, MountRequest, Source
  <2>4. fstab' = WithEntry(fstab, Entry(w))
    BY <2>1, <2>2 DEF WriteFstab
  <2> QED BY <2>2, <2>3, <2>4, OthersStay
<1> QED BY <1>1, <1>2, <1>3, InitType, StepType, InitLock, StepLock, PTL
        DEF Spec, OtherLinesKept

=============================================================================
