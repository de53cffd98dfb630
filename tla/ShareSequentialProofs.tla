----------------------- MODULE ShareSequentialProofs -----------------------
EXTENDS ShareProofs

(***************************************************************************)
(* Theorems about Share when requests follow one another in one process    *)
(* that can read and write its files and is not killed, while reloads fail *)
(* and the process stops and starts: files, memory and answers agree, and  *)
(* the service implements ShareStore.                                      *)
(*                                                                         *)
(* TLC cannot compare a model value with SUBSET Shares, so that the three  *)
(* marks for a file that is not whole are no sets of shares is assumed     *)
(* here and not in ShareAssumption.                                        *)
(***************************************************************************)
Sequential ==
    /\ Procs = {Agent}
    /\ \A c \in {Absent, Empty, Torn} : c \notin SUBSET Shares
    /\ ~Overlap
    /\ FailingReads = {} /\ FailingWrites = {}
    /\ "crash" \notin Ends

Acked == acked[Agent]
Memory == mem[Agent]
-----------------------------------------------------------------------------
(* A file with content c, or none, tells the shares m. *)
Saved(f, c, m) == c \notin {Empty, Torn} /\ Parse(c) = Text(f, m)

Clean == \A f \in File : Saved(f, file[f], Acked)

(* The files a request has been through when it is at f, and those to come. *)
Done(f) == CASE f = "state" -> {}
             [] f = "smb"   -> {"state"}
             [] f = "nfs"   -> {"state", "smb"}
Ahead(f) == File \ (Done(f) \cup {f})

(* The change of w is in memory, and w remembers how to undo it. *)
Result(w) == IF req[w].op = "delete" THEN Without(Acked, Name(w)) ELSE Put(Acked, req[w].share)
Remembered(w) == req[w].op # "create" => local[w].prev = Named(Acked, Name(w))
InForce(w) ==
    /\ Memory = Result(w)
    /\ (Named(Acked, Name(w)) = {}) <=> (req[w].op = "create")
    /\ Remembered(w)

(* Reload has read the three files. *)
Held(w) ==
    /\ InForce(w)
    /\ local[w].snap = Memory
    /\ \A f \in File : Saved(f, local[w].old[f], Acked)

(* It writes them; it puts them back. *)
Saving(w) ==
    /\ Held(w)
    /\ \A f \in Done(local[w].at) : Saved(f, file[f], Memory)
    /\ \A f \in Ahead(local[w].at) : file[f] = local[w].old[f]
Restoring(w) ==
    /\ Held(w)
    /\ \A f \in Done(local[w].at) : file[f] = local[w].old[f]
    /\ \A f \in Ahead(local[w].at) : Saved(f, file[f], Memory)

Stage(w) ==
    /\ pc[w] = "apply" => Remembered(w)
    /\ pc[w] = "snapshot" => InForce(w) /\ Clean
    /\ pc[w] = "read" => /\ InForce(w) /\ Clean
                         /\ local[w].snap = Memory
                         /\ \A f \in Done(local[w].at) : local[w].old[f] = file[f]
    /\ pc[w] = "open" => Saving(w) /\ file[local[w].at] = local[w].old[local[w].at]
    /\ pc[w] = "write" => Saving(w) /\ file[local[w].at] = Empty
    /\ pc[w] = "command" => /\ Held(w)
                            /\ local[w].at # "state"
                            /\ \A f \in File : Saved(f, file[f], Memory)
    /\ pc[w] = "restore" => Restoring(w) /\ Saved(local[w].at, file[local[w].at], Memory)
    /\ pc[w] = "rewrite" => Restoring(w) /\ file[local[w].at] = Empty
    /\ pc[w] = "undo" => Held(w) /\ \A f \in File : file[f] = local[w].old[f]

Serial == \A v, w \in Workers : ~Idle(v) /\ ~Idle(w) => v = w
Settled ==
    (\A w \in Workers : pc[w] \notin Uncommitted) => Clean /\ (up[Agent] => Memory = Acked)

(* The inductive invariant: one request at a time; between requests memory  *)
(* and files tell what the answers promised; in between, how far the        *)
(* request is says what is old and what is new.                             *)
SeqInv ==
    /\ Serial
    /\ \A w \in Workers : ~Idle(w) => up[Agent]
    /\ orphan = {} /\ unsure = {}
    /\ Settled
    /\ \A w \in Workers : Stage(w)
-----------------------------------------------------------------------------
LEMMA HostIsAgent ==
    ASSUME Sequential, NEW w \in Workers
    PROVE  Host[w] = Agent /\ Agent \in Procs /\ Mine(w) = Memory /\ Hosted(Agent) = Workers
BY ShareAssumption DEF Sequential, Mine, Memory, Hosted

(* The text of a map of shares is whole, and tells that map. *)
LEMMA TextSaved ==
    ASSUME Sequential, NEW f \in File, NEW m \in SUBSET Shares
    PROVE  /\ Saved(f, Text(f, m), m)
           /\ Text(f, m) # Absent
           /\ Parse(Text(f, m)) = Text(f, m)
BY TextType DEF Sequential, Saved, Parse

(* A file that does not exist, or an old one, is not empty. *)
LEMMA FilesInOrder ==
    ASSUME NEW f \in File
    PROVE  /\ Done(f) \subseteq File /\ f \notin Done(f)
           /\ File = Done(f) \cup {f} \cup Ahead(f)
           /\ f # "nfs" => /\ Done(NextFile(f)) = Done(f) \cup {f}
                           /\ Ahead(f) = {NextFile(f)} \cup Ahead(NextFile(f))
           /\ f = "nfs" => Ahead(f) = {}
           /\ Done("state") = {}
BY DEF File, Service, Done, Ahead, NextFile

(* Undoing a change gives the shares from before. *)
LEMMA UndoneIsAcked ==
    ASSUME TypeOK, Sequential, NEW w \in Workers, ~Idle(w), InForce(w)
    PROVE  Undone(w) = Acked
<1>1. req[w].op \in {"create", "update", "delete"}
  BY DEF TypeOK, Idle, Request, ShareOp
<1>2. Mine(w) = Result(w)
  BY HostIsAgent DEF InForce
<1>3. CASE req[w].op = "create"
  <2>1. Mine(w) = Put(Acked, req[w].share) /\ Named(Acked, Name(w)) = {}
    BY <1>2, <1>3 DEF Result, InForce
  <2> QED
    BY <1>3, <2>1 DEF Undone, Put, Without, Named, Name
<1>4. CASE req[w].op = "update"
  <2>1. Mine(w) = Put(Acked, req[w].share) /\ local[w].prev = Named(Acked, Name(w))
    BY <1>2, <1>4 DEF Result, InForce, Remembered
  <2> QED
    BY <1>4, <2>1 DEF Undone, Found, Put, Without, Named, Name
<1>5. CASE req[w].op = "delete"
  <2>1. Mine(w) = Without(Acked, Name(w)) /\ local[w].prev = Named(Acked, Name(w))
    BY <1>2, <1>5 DEF Result, InForce, Remembered
  <2> QED
    BY <1>5, <2>1 DEF Undone, Found, Without, Named
<1> QED
  BY <1>1, <1>3, <1>4, <1>5

LEMMA InitSequential == Sequential /\ Init => SeqInv
<1> SUFFICES ASSUME Sequential, Init PROVE SeqInv
  OBVIOUS
<1>1. /\ Serial /\ orphan = {} /\ unsure = {} /\ \A w \in Workers : Idle(w) /\ Stage(w)
      /\ ~up[Agent] /\ Acked = Initial
  BY HostIsAgent DEF Init, Serial, Idle, Stage, Sequential, Acked
<1>2. Clean
  <2> SUFFICES ASSUME NEW f \in File PROVE Saved(f, file[f], Initial)
    BY <1>1 DEF Clean
  <2>1. CASE Initial = {}
    BY <2>1, ShareAssumption DEF Init, Saved, Parse, Text, File, Service
  <2>2. CASE Initial # {}
    BY <2>2, TextSaved, ShareAssumption DEF Init
  <2> QED
    BY <2>1, <2>2
<1> QED
  BY <1>1, <1>2 DEF SeqInv, Settled
-----------------------------------------------------------------------------
(* What a request remembers stays, whatever it does to the files. *)
LEMMA HeldKept ==
    ASSUME NEW w \in Workers, Held(w), UNCHANGED <<mem, acked, req>>,
           local'[w].prev = local[w].prev, local'[w].snap = local[w].snap,
           local'[w].old = local[w].old
    PROVE  Held(w)'
BY DEF Held, InForce, Remembered, Result, Acked, Memory, Name

(* A request that goes on to the next file. *)
LEMMA AtOnly ==
    ASSUME TypeOK, NEW w \in Workers, NEW g \in File, local' = [local EXCEPT ![w].at = g]
    PROVE  /\ local'[w].at = g
           /\ local'[w].prev = local[w].prev
           /\ local'[w].snap = local[w].snap
           /\ local'[w].old = local[w].old
BY DEF TypeOK, Locals

(* A worker changes no variable of another, and nothing else than w runs. *)
LEMMA OnlyOne ==
    ASSUME TypeOK, Sequential, SeqInv, NEW w \in Workers, Run(w)
    PROVE  /\ ~Idle(w) /\ up[Agent] /\ up' = up /\ unsure' = unsure
           /\ \A v \in Workers \ {w} : pc[v] = "idle" /\ pc'[v] = "idle"
<1>1. pc[w] # "idle" /\ up' = up /\ unsure' = unsure
  BY DEF Run, Reload, Check, Validate, GetPrev, Apply, Undo, Snapshot, Read, Open, Write,
     WriteFails, SkipCommand, Command, CommandFails, Remove, Reopen, Rewrite, RestoreFails,
     procVars, histVars
<1>2. DOMAIN pc = Workers
  BY DEF TypeOK
<1>3. \E q : pc' = [pc EXCEPT ![w] = q]
  BY <1>2 DEF TypeOK, Run, Reload, Check, Validate, GetPrev, Apply, Undo, Snapshot, Read, Open, Write,
     WriteFails, SkipCommand, Command, CommandFails, AfterCommand, Remove, Reopen, Rewrite,
     RestoreFails, AfterRestore, Goto, Succeed, Fail, Finish
<1>4. \A v \in Workers \ {w} : pc[v] = "idle"
  BY <1>1 DEF SeqInv, Serial, Idle
<1> QED
  BY <1>1, <1>2, <1>3, <1>4 DEF SeqInv, Idle

(* So a step of w keeps the invariant when w is where it should be after it. *)
LEMMA OneStep ==
    ASSUME TypeOK, Sequential, SeqInv, NEW w \in Workers, Run(w),
           Stage(w)', orphan' = {},
           pc'[w] \notin Uncommitted => Clean' /\ Memory' = Acked'
    PROVE  SeqInv'
<1>1. \A v \in Workers \ {w} : Stage(v)'
  BY OnlyOne DEF Stage
<1>2. Serial' /\ \A v \in Workers : ~Idle(v)' => up'[Agent]
  BY OnlyOne DEF Serial, Idle
<1> QED
  BY <1>1, <1>2, OnlyOne DEF SeqInv, Settled

(* The steps up to the change of memory, and the undoing of it. *)
LEMMA MemorySteps ==
    ASSUME TypeOK, Sequential, SeqInv, NEW w \in Workers, Run(w),
           Check(w) \/ Validate(w) \/ GetPrev(w) \/ Apply(w) \/ Undo(w)
    PROVE  SeqInv'
<1>1. DOMAIN pc = Workers /\ DOMAIN local = Workers /\ DOMAIN mem = Procs /\ DOMAIN acked = Procs
  BY DEF TypeOK
<1>2. orphan' = {} /\ UNCHANGED file
  BY DEF SeqInv, Check, Validate, GetPrev, Apply, Undo, diskVars
<1>3. pc[w] # "undo" => Clean /\ Memory = Acked
  <2>1. \A v \in Workers : pc[v] \notin Uncommitted \/ pc[w] = "undo"
    BY OnlyOne DEF Check, Validate, GetPrev, Apply, Undo, Uncommitted
  <2> QED
    BY <2>1, OnlyOne DEF SeqInv, Settled
<1>4. ASSUME UNCHANGED <<mem, acked>>, pc[w] # "undo" PROVE Clean' /\ Memory' = Acked'
  BY <1>2, <1>3, <1>4 DEF Clean, Memory, Acked
<1>5. ASSUME NEW r, Fail(w, r), UNCHANGED mem, pc[w] # "undo" PROVE SeqInv'
  <2>1. pc'[w] = "idle"
    BY <1>1, <1>5 DEF Fail, Finish, Goto
  <2>2. Stage(w)'
    BY <2>1 DEF Stage
  <2> QED
    BY <1>2, <1>4, <1>5, <2>2, OneStep DEF Fail
<1>6. ASSUME NEW q \in {"validate", "get", "apply"}, Goto(w, q), UNCHANGED <<mem, acked>>,
             q = "apply" => Remembered(w)', pc[w] # "undo"
      PROVE  SeqInv'
  <2>1. pc'[w] = q
    BY <1>1, <1>6 DEF Goto
  <2>2. Stage(w)'
    BY <1>6, <2>1 DEF Stage
  <2> QED
    BY <1>2, <1>4, <1>6, <2>2, OneStep
<1>7. CASE Check(w)
  BY <1>5, <1>6, <1>7 DEF Check, procVars
<1>8. CASE Validate(w)
  BY <1>5, <1>6, <1>8 DEF Validate, procVars, Remembered
<1>9. CASE GetPrev(w)
  <2>1. CASE Found(w) # {}
    <3>1. local'[w].prev = Found(w)
      BY <1>1, <1>9, <2>1 DEF GetPrev, TypeOK, Locals
    <3>2. Found(w) = Named(Acked, Name(w))
      BY <1>3, <1>9, HostIsAgent DEF GetPrev, Found
    <3>3. Remembered(w)'
      BY <1>9, <2>1, <3>1, <3>2 DEF GetPrev, Remembered, Acked, Name
    <3> QED
      BY <1>6, <1>9, <2>1, <3>3 DEF GetPrev, procVars
  <2>2. CASE Found(w) = {}
    BY <1>5, <1>9, <2>2 DEF GetPrev, procVars
  <2> QED
    BY <2>1, <2>2
<1>10. CASE Apply(w)
  <2>1. CASE Accepted(w)
    <3>1. mem' = [mem EXCEPT ![Agent] = Changed(w)] /\ UNCHANGED <<req, local, acked>>
          /\ pc'[w] = "snapshot"
      BY <1>1, <1>10, <2>1, HostIsAgent DEF Apply, SetMem, Goto
    <3>2. Changed(w) = Result(w)
      BY <1>3, <1>10, HostIsAgent DEF Apply, Changed, Result
    <3>3. Remembered(w) /\ ((Named(Acked, Name(w)) = {}) <=> (req[w].op = "create"))
      BY <1>3, <1>10, <2>1, HostIsAgent DEF Apply, SeqInv, Stage, Accepted, Found
    <3>4. InForce(w)'
      BY <1>1, <3>1, <3>2, <3>3, HostIsAgent DEF InForce, Remembered, Result, Acked, Memory, Name
    <3>5. Clean'
      BY <1>2, <1>3, <1>10, <3>1 DEF Apply, Clean, Acked
    <3>6. Stage(w)' /\ pc'[w] \in Uncommitted
      BY <3>1, <3>4, <3>5 DEF Stage, Uncommitted
    <3> QED
      BY <1>2, <3>6, OneStep
  <2>2. CASE ~Accepted(w)
    BY <1>5, <1>10, <2>2 DEF Apply
  <2> QED
    BY <2>1, <2>2
<1>11. CASE Undo(w)
  <2>1. Held(w) /\ \A f \in File : file[f] = local[w].old[f]
    BY <1>11 DEF Undo, SeqInv, Stage
  <2>2. mem' = [mem EXCEPT ![Agent] = Undone(w)] /\ UNCHANGED acked /\ pc'[w] = "idle"
    BY <1>1, <1>11, HostIsAgent DEF Undo, SetMem, Fail, Finish, Goto
  <2>3. Memory' = Acked'
    BY <1>1, <2>1, <2>2, OnlyOne, HostIsAgent, UndoneIsAcked DEF Memory, Acked, Held
  <2>4. Clean'
    BY <1>2, <2>1, <2>2 DEF Clean, Held, Acked
  <2>5. Stage(w)'
    BY <2>2 DEF Stage
  <2> QED
    BY <1>2, <2>3, <2>4, <2>5, OneStep
<1> QED
  BY <1>7, <1>8, <1>9, <1>10, <1>11

(* Reload up to the reload commands. *)
LEMMA SaveSteps ==
    ASSUME TypeOK, Sequential, SeqInv, NEW w \in Workers, Run(w),
           Snapshot(w) \/ Read(w) \/ Open(w) \/ Write(w) \/ WriteFails(w)
    PROVE  SeqInv'
<1> DEFINE f == local[w].at
<1>1. /\ DOMAIN pc = Workers /\ DOMAIN local = Workers /\ DOMAIN file = File
      /\ f \in File /\ local[w].old \in [File -> Content] /\ local[w].snap \in SUBSET Shares
      /\ local[w] \in Locals
  BY DEF TypeOK, Locals
<1>2. UNCHANGED <<mem, acked, req>> /\ orphan' = {} /\ orphan = {}
  BY DEF SeqInv, Snapshot, Read, Open, Write, WriteFails, procVars, diskVars, histVars
<1>3. UNCHANGED <<Memory, Acked>>
  BY <1>2 DEF Memory, Acked
<1>4. ASSUME NEW q \in Uncommitted, pc'[w] = q, Stage(w)' PROVE SeqInv'
  BY <1>2, <1>4, OneStep
<1>5. ~WriteFails(w)
  BY DEF WriteFails, Sequential
<1>6. CASE Snapshot(w)
  <2>1. InForce(w) /\ Clean
    BY <1>6 DEF Snapshot, SeqInv, Stage
  <2>2. /\ local'[w].prev = local[w].prev /\ local'[w].snap = Memory /\ local'[w].at = "state"
        /\ pc'[w] = "read" /\ UNCHANGED file
    BY <1>1, <1>6, HostIsAgent DEF Snapshot, Goto, Locals, diskVars
  <2>3. InForce(w)' /\ Clean'
    BY <1>2, <1>3, <2>1, <2>2 DEF InForce, Remembered, Result, Name, Clean
  <2>4. Stage(w)'
    BY <1>3, <2>2, <2>3, FilesInOrder DEF Stage, File
  <2> QED
    BY <1>4, <2>2, <2>4 DEF Uncommitted
<1>7. CASE Read(w)
  <2>1. /\ InForce(w) /\ Clean /\ local[w].snap = Memory
        /\ \A g \in Done(f) : local[w].old[g] = file[g]
    BY <1>7 DEF Read, SeqInv, Stage
  <2>2. /\ local'[w].prev = local[w].prev /\ local'[w].snap = Memory
        /\ local'[w].old = [local[w].old EXCEPT ![f] = file[f]]
        /\ local'[w].at = IF f = "nfs" THEN "state" ELSE NextFile(f)
        /\ pc'[w] = (IF f = "nfs" THEN "open" ELSE "read") /\ UNCHANGED file
    <3>1. ReadOf(f) = {file[f]}
      BY DEF ReadOf, Sequential
    <3>2. local' = [local EXCEPT ![w].old[f] = file[f],
                                ![w].at = IF f = "nfs" THEN "state" ELSE NextFile(f)]
      BY <1>7, <3>1 DEF Read
    <3> QED
      BY <1>1, <1>7, <2>1, <3>2 DEF Read, Goto, Locals, diskVars
  <2>3. InForce(w)' /\ Clean'
    BY <1>2, <1>3, <2>1, <2>2 DEF InForce, Remembered, Result, Name, Clean
  <2>4. \A g \in Done(f) \cup {f} : local'[w].old[g] = file[g]
    BY <1>1, <2>1, <2>2, FilesInOrder
  <2>5. CASE f # "nfs"
    <3>1. local'[w].at = NextFile(f) /\ Done(NextFile(f)) = Done(f) \cup {f}
      BY <1>1, <2>2, <2>5, FilesInOrder
    <3>2. Stage(w)'
      BY <1>3, <2>2, <2>3, <2>4, <2>5, <3>1 DEF Stage
    <3> QED
      BY <1>4, <2>2, <2>5, <3>2 DEF Uncommitted
  <2>6. CASE f = "nfs"
    <3>1. \A g \in File : local'[w].old[g] = file[g]
      BY <1>1, <2>4, <2>6, FilesInOrder
    <3>2. Held(w)'
      BY <1>3, <2>1, <2>2, <2>3, <3>1 DEF Held, Clean
    <3>3. Saving(w)' /\ file'[local'[w].at] = local'[w].old[local'[w].at]
      BY <1>1, <2>2, <2>6, <3>1, <3>2, FilesInOrder DEF Saving, File, Ahead
    <3>4. Stage(w)'
      BY <2>2, <2>6, <3>3 DEF Stage
    <3> QED
      BY <1>4, <2>2, <2>6, <3>4 DEF Uncommitted
  <2> QED
    BY <2>5, <2>6
<1>8. CASE Open(w)
  <2>1. Saving(w)
    BY <1>8 DEF Open, SeqInv, Stage
  <2>2. file' = [file EXCEPT ![f] = Empty] /\ UNCHANGED local /\ pc'[w] = "write"
    BY <1>1, <1>8 DEF Open, Goto
  <2>3. Held(w)'
    BY <1>2, <2>1, <2>2, HeldKept DEF Saving
  <2>4. \A g \in File \ {f} : file'[g] = file[g]
    BY <1>1, <2>2
  <2>5. Done(f) \subseteq File \ {f} /\ Ahead(f) \subseteq File \ {f}
    BY <1>1, FilesInOrder DEF Ahead
  <2>6. Saving(w)' /\ file'[f] = Empty
    BY <1>1, <1>3, <2>1, <2>2, <2>3, <2>4, <2>5 DEF Saving
  <2>7. Stage(w)'
    BY <2>2, <2>6 DEF Stage
  <2> QED
    BY <1>4, <2>2, <2>7 DEF Uncommitted
<1>9. CASE Write(w)
  <2>1. Saving(w) /\ file[f] = Empty /\ local[w].snap = Memory
    BY <1>9 DEF Write, SeqInv, Stage, Saving, Held
  <2>2. PICK c \in Mixed(w, f, Text(f, Memory)) : file' = [file EXCEPT ![f] = c]
    BY <1>9, <2>1 DEF Write
  <2>3. c = Text(f, Memory)
    BY <1>2, <2>1, <2>2 DEF Mixed
  <2>4. \A g \in File \ {f} : file'[g] = file[g]
    BY <1>1, <2>2
  <2>5. Saved(f, file'[f], Memory)
    BY <1>1, <2>1, <2>2, <2>3, TextSaved
  <2>6. PICK g \in File : /\ local' = [local EXCEPT ![w].at = g]
                          /\ g = IF f = "nfs" THEN "smb" ELSE NextFile(f)
    BY <1>9, NextFileType DEF Write, File, Service
  <2>7. Held(w)' /\ local'[w].at = g /\ local'[w].old = local[w].old
    BY <1>2, <2>1, <2>6, AtOnly, HeldKept DEF Saving
  <2>8. pc'[w] = IF f = "nfs" THEN "command" ELSE "open"
    BY <1>1, <1>9 DEF Write, Goto
  <2>9. \A h \in Done(f) \cup {f} : Saved(h, file'[h], Memory)
    BY <1>1, <2>1, <2>4, <2>5, FilesInOrder DEF Saving
  <2>10. CASE f = "nfs"
    <3>1. \A h \in File : Saved(h, file'[h], Memory)
      BY <1>1, <2>9, <2>10, FilesInOrder
    <3>2. Stage(w)'
      BY <1>3, <2>6, <2>7, <2>8, <2>10, <3>1 DEF Stage
    <3> QED
      BY <1>4, <2>8, <2>10, <3>2 DEF Uncommitted
  <2>11. CASE f # "nfs"
    <3>1. Done(g) = Done(f) \cup {f} /\ Ahead(f) = {g} \cup Ahead(g)
      BY <1>1, <2>6, <2>11, FilesInOrder
    <3>2. \A h \in Ahead(f) : file'[h] = local[w].old[h]
      BY <2>1, <2>4 DEF Saving, Ahead
    <3>3. Saving(w)' /\ file'[g] = local'[w].old[g]
      BY <1>3, <2>7, <2>9, <3>1, <3>2 DEF Saving
    <3>4. Stage(w)'
      BY <2>7, <2>8, <2>11, <3>3 DEF Stage
    <3> QED
      BY <1>4, <2>8, <2>11, <3>4 DEF Uncommitted
  <2> QED
    BY <2>10, <2>11
<1> QED
  BY <1>5, <1>6, <1>7, <1>8, <1>9

(* The reload commands. *)
LEMMA CommandSteps ==
    ASSUME TypeOK, Sequential, SeqInv, NEW w \in Workers, Run(w),
           SkipCommand(w) \/ Command(w) \/ CommandFails(w)
    PROVE  SeqInv'
<1>1. /\ DOMAIN pc = Workers /\ DOMAIN acked = Procs /\ local[w].at \in File
      /\ UNCHANGED <<mem, file>> /\ orphan' = {} /\ pc[w] = "command"
  BY DEF TypeOK, Locals, SeqInv, SkipCommand, Command, CommandFails, procVars, diskVars
<1>2. Held(w) /\ local[w].at # "state" /\ \A f \in File : Saved(f, file[f], Memory)
  BY <1>1 DEF SeqInv, Stage
<1>3. UNCHANGED Memory
  BY <1>1 DEF Memory
<1>4. CASE AfterCommand(w) /\ local[w].at = "smb"
  <2>1. local' = [local EXCEPT ![w].at = "nfs"] /\ UNCHANGED <<pc, req, acked>>
    BY <1>4 DEF AfterCommand
  <2>2. Held(w)' /\ local'[w].at = "nfs"
    BY <1>1, <1>2, <2>1, AtOnly, HeldKept DEF File, Service
  <2>3. Stage(w)' /\ pc'[w] \in Uncommitted
    BY <1>1, <1>2, <1>3, <2>1, <2>2 DEF Stage, Uncommitted
  <2> QED
    BY <1>1, <2>3, OneStep
<1>5. CASE AfterCommand(w) /\ local[w].at # "smb"
  <2>1. Succeed(w)
    BY <1>5 DEF AfterCommand
  <2>2. pc'[w] = "idle" /\ Acked' = Result(w)
    BY <1>1, <2>1, HostIsAgent DEF Succeed, Finish, Goto, Acked, Result
  <2>3. Memory' = Acked'
    BY <1>2, <1>3, <2>2 DEF Held, InForce
  <2>4. Clean'
    BY <1>1, <1>2, <1>3, <2>3 DEF Clean
  <2>5. Stage(w)'
    BY <2>2 DEF Stage
  <2> QED
    BY <1>1, <2>3, <2>4, <2>5, OneStep
<1>6. CASE CommandFails(w)
  <2>1. local' = [local EXCEPT ![w].at = "state"] /\ UNCHANGED <<req, acked>> /\ pc'[w] = "restore"
    BY <1>1, <1>6 DEF CommandFails, Goto, histVars
  <2>2. Held(w)' /\ local'[w].at = "state"
    BY <1>1, <1>2, <2>1, AtOnly, HeldKept DEF File
  <2>3. Restoring(w)' /\ Saved("state", file'["state"], Memory')
    BY <1>1, <1>2, <1>3, <2>2, FilesInOrder DEF Restoring, File, Ahead
  <2>4. Stage(w)' /\ pc'[w] \in Uncommitted
    BY <2>1, <2>2, <2>3 DEF Stage, Uncommitted
  <2> QED
    BY <1>1, <2>4, OneStep
<1> QED
  BY <1>4, <1>5, <1>6 DEF SkipCommand, Command

(* restoreDisk. *)
LEMMA RestoreSteps ==
    ASSUME TypeOK, Sequential, SeqInv, NEW w \in Workers, Run(w),
           Remove(w) \/ Reopen(w) \/ Rewrite(w) \/ RestoreFails(w)
    PROVE  SeqInv'
<1> DEFINE f == local[w].at
<1>1. /\ DOMAIN pc = Workers /\ DOMAIN file = File /\ f \in File
      /\ UNCHANGED <<mem, acked, req>>
  BY DEF TypeOK, Locals, Remove, Reopen, Rewrite, RestoreFails, procVars, histVars
<1>2. UNCHANGED <<Memory, Acked>>
  BY <1>1 DEF Memory, Acked
<1>3. ~RestoreFails(w)
  BY DEF RestoreFails, Sequential
<1>4. Restoring(w)
  BY <1>3 DEF Remove, Reopen, Rewrite, SeqInv, Stage
<1>5. orphan' = {}
  BY <1>3, OnlyOne DEF Remove, Reopen, Rewrite, SeqInv
<1>6. ASSUME file' = [file EXCEPT ![f] = local[w].old[f]], AfterRestore(w) PROVE SeqInv'
  <2>1. PICK g \in File : local' = [local EXCEPT ![w].at = g] /\ g = NextFile(f)
    BY <1>6, NextFileType DEF AfterRestore
  <2>2. Held(w)' /\ local'[w].at = g /\ local'[w].old = local[w].old
    BY <1>1, <1>4, <2>1, AtOnly, HeldKept DEF Restoring
  <2>3. \A h \in File \ {f} : file'[h] = file[h]
    BY <1>1, <1>6
  <2>4. \A h \in Done(f) \cup {f} : file'[h] = local[w].old[h]
    BY <1>1, <1>4, <1>6, <2>3, FilesInOrder DEF Restoring
  <2>5. pc'[w] = IF f = "nfs" THEN "undo" ELSE "restore"
    BY <1>1, <1>6 DEF AfterRestore, Goto
  <2>6. CASE f = "nfs"
    <3>1. \A h \in File : file'[h] = local'[w].old[h]
      BY <1>1, <2>2, <2>4, <2>6, FilesInOrder
    <3>2. Stage(w)' /\ pc'[w] \in Uncommitted
      BY <2>2, <2>5, <2>6, <3>1 DEF Stage, Uncommitted
    <3> QED
      BY <1>5, <3>2, OneStep
  <2>7. CASE f # "nfs"
    <3>1. Done(g) = Done(f) \cup {f} /\ Ahead(f) = {g} \cup Ahead(g)
      BY <1>1, <2>1, <2>7, FilesInOrder
    <3>2. \A h \in Ahead(f) : Saved(h, file'[h], Memory)
      BY <1>4, <2>3 DEF Restoring, Ahead
    <3>3. Restoring(w)' /\ Saved(g, file'[g], Memory')
      BY <1>2, <2>2, <2>4, <3>1, <3>2 DEF Restoring
    <3>4. Stage(w)' /\ pc'[w] \in Uncommitted
      BY <2>2, <2>5, <2>7, <3>3 DEF Stage, Uncommitted
    <3> QED
      BY <1>5, <3>4, OneStep
  <2> QED
    BY <2>6, <2>7
<1>7. CASE Remove(w)
  BY <1>6, <1>7 DEF Remove
<1>8. CASE Reopen(w)
  <2>1. file' = [file EXCEPT ![f] = Empty] /\ UNCHANGED local /\ pc'[w] = "rewrite"
    BY <1>1, <1>8 DEF Reopen, Goto
  <2>2. Held(w)'
    BY <1>1, <1>4, <2>1, HeldKept DEF Restoring
  <2>3. \A g \in File \ {f} : file'[g] = file[g]
    BY <1>1, <2>1
  <2>4. Done(f) \subseteq File \ {f} /\ Ahead(f) \subseteq File \ {f}
    BY <1>1, FilesInOrder DEF Ahead
  <2>5. Restoring(w)' /\ file'[f] = Empty
    BY <1>1, <1>2, <1>4, <2>1, <2>2, <2>3, <2>4 DEF Restoring
  <2>6. Stage(w)' /\ pc'[w] \in Uncommitted
    BY <2>1, <2>5 DEF Stage, Uncommitted
  <2> QED
    BY <1>5, <2>6, OneStep
<1>9. CASE Rewrite(w)
  <2>1. file[f] = Empty /\ orphan = {}
    BY <1>9 DEF Rewrite, SeqInv, Stage
  <2>2. \A c \in Mixed(w, f, local[w].old[f]) : c = local[w].old[f]
    BY <2>1 DEF Mixed
  <2> QED
    BY <1>6, <1>9, <2>2 DEF Rewrite
<1> QED
  BY <1>3, <1>7, <1>8, <1>9
-----------------------------------------------------------------------------
(* Every step keeps the invariant: a process that starts loads what the     *)
(* answers promised.                                                        *)
LEMMA StepSequential == TypeOK /\ Sequential /\ SeqInv /\ [Next]_vars => SeqInv'
<1> SUFFICES ASSUME TypeOK, Sequential, SeqInv, [Next]_vars PROVE SeqInv'
  OBVIOUS
<1>1. ASSUME NEW w \in Workers, Run(w) PROVE SeqInv'
  BY <1>1, MemorySteps, SaveSteps, CommandSteps, RestoreSteps DEF Run, Reload
<1>2. ASSUME NEW w \in Workers, NEW r \in Requests, Begin(w, r) PROVE SeqInv'
  <2>1. \A v \in Workers : pc[v] = "idle"
    BY <1>2 DEF Begin, Sequential, Idle
  <2>2. /\ UNCHANGED <<up, file, orphan, unsure, Memory, Acked>>
        /\ up[Agent]
        /\ pc' = [pc EXCEPT ![w] = FirstStep(r)]
    BY <1>2, <2>1, HostIsAgent DEF Begin, Idle, procVars, diskVars, Memory, Acked, Goto
  <2>3. Clean /\ Memory = Acked
    BY <2>1, <2>2 DEF SeqInv, Settled, Uncommitted
  <2>4. \A v \in Workers : pc'[v] = "idle" \/ (v = w /\ pc'[v] \in {"check", "validate"})
    BY <2>1, <2>2 DEF TypeOK, FirstStep
  <2>5. \A v \in Workers : Stage(v)'
    BY <2>4 DEF Stage
  <2>6. Settled' /\ Serial'
    BY <2>2, <2>3, <2>4 DEF Settled, Clean, Serial, Idle
  <2> QED
    BY <2>2, <2>5, <2>6 DEF SeqInv, Idle
<1>3. ASSUME NEW p \in Procs, Start(p) PROVE SeqInv'
  <2>1. p = Agent /\ ~up[Agent] /\ \A w \in Workers : pc[w] = "idle"
    BY <1>3 DEF Start, Sequential, SeqInv, Idle
  <2>2. Clean
    BY <2>1 DEF SeqInv, Settled, Uncommitted
  <2>3. Parse(file["state"]) = Acked
    BY <2>2 DEF Clean, Saved, Text, File
  <2>4. UNCHANGED <<file, Acked, pc, orphan, unsure>> /\ Memory' = Acked /\ up'[Agent]
    BY <1>3, <2>1, <2>3 DEF Start, ReadOf, Sequential, SetMem, Memory, Acked, TypeOK, diskVars, taskVars
  <2>5. Settled' /\ Serial' /\ \A w \in Workers : Stage(w)'
    BY <2>1, <2>2, <2>4 DEF Settled, Clean, Serial, Idle, Stage
  <2> QED
    BY <2>4, <2>5 DEF SeqInv, Idle
<1>4. ASSUME NEW p \in Procs, Stop(p) PROVE SeqInv'
  <2>1. p = Agent /\ \A w \in Workers : pc[w] = "idle"
    BY <1>4, HostIsAgent DEF Stop, Sequential, Idle
  <2>2. Clean
    BY <2>1 DEF SeqInv, Settled, Uncommitted
  <2>3. UNCHANGED <<file, Acked, pc, orphan, unsure>> /\ ~up'[Agent]
    BY <1>4, <2>1 DEF Stop, Acked, TypeOK, diskVars, taskVars, histVars
  <2>4. Settled' /\ Serial' /\ \A w \in Workers : Stage(w)'
    BY <2>1, <2>2, <2>3 DEF Settled, Clean, Serial, Idle, Stage
  <2> QED
    BY <2>1, <2>3, <2>4 DEF SeqInv, Idle
<1>5. ~\E p \in Procs : Crash(p)
  BY DEF Crash, Sequential
<1>6. CASE UNCHANGED vars
  <2>1. UNCHANGED <<up, mem, file, orphan, pc, req, local, acked, unsure, Memory, Acked>>
    BY <1>6 DEF vars, procVars, diskVars, taskVars, histVars, Memory, Acked
  <2>2. ASSUME NEW w \in Workers PROVE Stage(w)'
    <3>1. (Clean' <=> Clean) /\ (InForce(w)' <=> InForce(w)) /\ (Remembered(w)' <=> Remembered(w))
      BY <2>1 DEF Clean, InForce, Remembered, Result, Name
    <3>2. (Held(w)' <=> Held(w)) /\ (Saving(w)' <=> Saving(w)) /\ (Restoring(w)' <=> Restoring(w))
      BY <2>1, <3>1 DEF Held, Saving, Restoring
    <3> QED
      BY <2>1, <3>1, <3>2 DEF SeqInv, Stage
  <2> QED
    BY <2>1, <2>2 DEF SeqInv, Serial, Idle, Settled, Clean
<1> QED
  BY <1>1, <1>2, <1>3, <1>4, <1>5, <1>6 DEF Next

(* The sequential invariant holds in every behaviour. *)
LEMMA SequentialHolds == ASSUME Sequential PROVE Spec => [](TypeOK /\ SeqInv)
<1>1. Init => TypeOK /\ SeqInv
  BY InitType, InitSequential
<1>2. TypeOK /\ SeqInv /\ [Next]_vars => (TypeOK /\ SeqInv)'
  BY StepType, StepSequential
<1> QED
  BY <1>1, <1>2, PTL DEF Spec
-----------------------------------------------------------------------------
LEMMA Between == ASSUME SeqInv, Quiescent PROVE Clean
BY DEF SeqInv, Settled, Quiescent, Idle, Uncommitted

(* When no request is in progress, shares.json holds what the answers so    *)
(* far promised: successes survive a restart and failures leave no trace.   *)
THEOREM AnswersPersist == ASSUME Sequential PROVE Spec => []AckedPersisted
<1>1. SeqInv => AckedPersisted
  <2> SUFFICES ASSUME SeqInv, Quiescent, NEW p \in Procs
               PROVE  Parse(file["state"]) = acked[p]
    BY DEF AckedPersisted
  <2> QED
    BY Between DEF Clean, Saved, Text, File, Sequential, Acked
<1> QED
  BY <1>1, SequentialHolds, PTL

(* When no request is in progress, the three files describe the same shares.*)
THEOREM FilesInAgreement == ASSUME Sequential PROVE Spec => []FilesAgree
<1>1. TypeOK /\ SeqInv => FilesAgree
  <2> SUFFICES ASSUME TypeOK, SeqInv, Quiescent, NEW s \in Service
               PROVE  Served(file[s]) = Served(Text(s, Parse(file["state"])))
    BY DEF FilesAgree
  <2>1. Saved(s, file[s], Acked) /\ Parse(file["state"]) = Acked /\ Acked \in SUBSET Shares
    BY Between, HostIsAgent DEF Clean, Saved, Text, File, Sequential, Acked, TypeOK
  <2>2. Text(s, Acked) # Torn /\ Parse(Text(s, Acked)) = Text(s, Acked)
    BY <2>1, TextSaved DEF File, Saved
  <2> QED
    BY <2>1, <2>2 DEF Served, Saved
<1> QED
  BY <1>1, SequentialHolds, PTL

(* A process killed in the middle of a request would load the shares from   *)
(* before or after it, unless it dies between the truncation of the state   *)
(* file and its write.                                                      *)
THEOREM LossIsBounded == ASSUME Sequential PROVE Spec => []LossWindow
<1>1. ASSUME TypeOK, SeqInv, NEW w \in Workers, ~Idle(w)
      PROVE  IF file["state"] \in {Empty, Torn}
             THEN pc[w] \in {"write", "rewrite"} /\ local[w].at = "state"
             ELSE Parse(file["state"]) \in {Mine(w), Undone(w)}
  <2> DEFINE Known(m) == file["state"] \notin {Empty, Torn} /\ Parse(file["state"]) = m
  <2>1. /\ \A m : Saved("state", file["state"], m) => Known(m)
        /\ "state" \in File /\ local[w].at \in File /\ Mine(w) = Memory
    BY <1>1, HostIsAgent DEF Saved, Text, File, TypeOK, Locals
  <2>2. CASE pc[w] \notin Uncommitted
    <3>1. \A v \in Workers : pc[v] \notin Uncommitted
      BY <1>1, <2>2 DEF SeqInv, Serial, Idle, Uncommitted
    <3> QED
      BY <1>1, <2>1, <3>1 DEF SeqInv, Settled, Clean
  <2>3. CASE pc[w] \in Uncommitted
    <3>1. Stage(w) /\ InForce(w)
      BY <1>1, <2>3 DEF SeqInv, Stage, Saving, Restoring, Held, Uncommitted
    <3>2. Undone(w) = Acked
      BY <1>1, <3>1, UndoneIsAcked
    <3>3. "state" \in Done(local[w].at) \/ local[w].at = "state"
      BY <2>1 DEF Done, File, Service
    <3>4. CASE pc[w] \in {"snapshot", "read", "undo"}
      BY <2>1, <3>1, <3>2, <3>4 DEF Stage, Clean, Held
    <3>5. CASE pc[w] \in {"open", "write"}
      BY <2>1, <3>1, <3>2, <3>3, <3>5 DEF Stage, Saving, Held
    <3>6. CASE pc[w] = "command"
      BY <2>1, <3>1, <3>6 DEF Stage
    <3>7. CASE pc[w] \in {"restore", "rewrite"}
      BY <2>1, <3>1, <3>2, <3>3, <3>7 DEF Stage, Restoring, Held
    <3> QED
      BY <2>3, <3>4, <3>5, <3>6, <3>7 DEF Uncommitted
  <2> QED
    BY <2>2, <2>3
<1>2. TypeOK /\ SeqInv => LossWindow
  BY <1>1 DEF LossWindow
<1> QED
  BY <1>2, SequentialHolds, PTL
-----------------------------------------------------------------------------
(* What the services serve.  Between the reading of the old files and the   *)
(* answer that is what the old files said, until the command has run.       *)
Replacing == {"open", "write", "command", "restore", "rewrite", "undo"}
Told(w, s) == IF pc[w] = "command" /\ local[w].at = "nfs" /\ s = "smb" THEN file[s]
                                                               ELSE local[w].old[s]
LoadInv ==
    \A s \in Service \ FailingCommands :
       /\ (\A w \in Workers : pc[w] \notin Replacing) => loaded[s] = Served(file[s])
       /\ \A w \in Workers : pc[w] \in Replacing => loaded[s] = Served(Told(w, s))

(* A service that has no share before and after a change is not reloaded,   *)
(* and need not be.                                                         *)
LEMMA SkippedSame ==
    ASSUME TypeOK, Sequential, SeqInv, NEW w \in Workers, pc[w] = "command",
           NEW s \in Service, s \notin Affected(w)
    PROVE  Served(local[w].old[s]) = Served(file[s])
<1>1. /\ local[w].snap = Memory
      /\ Saved("state", local[w].old["state"], Acked)
      /\ Saved(s, local[w].old[s], Acked) /\ Saved(s, file[s], Memory)
  BY DEF SeqInv, Stage, Held, File
<1>2. Parse(local[w].old["state"]) = Acked
  BY <1>1 DEF Saved, Text
<1>3. Text(s, Acked) = {} /\ Text(s, Memory) = {}
  BY <1>1, <1>2 DEF Affected, TypesIn, Text, Service
<1> QED
  BY <1>1, <1>3 DEF Saved, Served

LEMMA StepLoad ==
    ASSUME TypeOK, Sequential, "nfs" \notin FailingCommands, SeqInv, LoadInv, [Next]_vars
    PROVE  LoadInv'
<1> SUFFICES ASSUME NEW s \in Service \ FailingCommands
             PROVE  /\ (\A w \in Workers : pc'[w] \notin Replacing)
                         => loaded'[s] = Served(file'[s])
                    /\ \A w \in Workers : pc'[w] \in Replacing => loaded'[s] = Served(Told(w, s)')
  BY DEF LoadInv
<1>1. ASSUME NEW w \in Workers, Run(w),
             pc'[w] \in Replacing => loaded'[s] = Served(Told(w, s)'),
             pc'[w] \notin Replacing => loaded'[s] = Served(file'[s])
      PROVE  /\ (\A v \in Workers : pc'[v] \notin Replacing)
                   => loaded'[s] = Served(file'[s])
             /\ \A v \in Workers : pc'[v] \in Replacing => loaded'[s] = Served(Told(v, s)')
  BY <1>1, OnlyOne DEF Replacing
<1>2. ASSUME NEW w \in Workers, Run(w)
      PROVE  /\ pc'[w] \in Replacing => loaded'[s] = Served(Told(w, s)')
             /\ pc'[w] \notin Replacing => loaded'[s] = Served(file'[s])
  <2>1. /\ DOMAIN pc = Workers /\ DOMAIN local = Workers /\ DOMAIN file = File
        /\ local[w].at \in File /\ local[w] \in Locals /\ s \in File
        /\ DOMAIN loaded = Service
    BY DEF TypeOK, Locals, File
  <2>2. pc[w] \notin Replacing => loaded[s] = Served(file[s])
    BY <1>2, OnlyOne DEF LoadInv, Replacing
  <2>3. pc[w] \in Replacing => loaded[s] = Served(Told(w, s))
    BY DEF LoadInv
  <2>4. CASE Check(w) \/ Validate(w) \/ GetPrev(w) \/ Apply(w) \/ Snapshot(w)
    <3>1. UNCHANGED <<file, loaded>> /\ pc[w] \notin Replacing
      BY <2>4 DEF Check, Validate, GetPrev, Apply, Snapshot, diskVars, Replacing
    <3>2. pc'[w] \notin Replacing
      BY <2>1, <2>4 DEF Check, Validate, GetPrev, Apply, Snapshot, Fail, Finish, Goto, Replacing
    <3> QED
      BY <2>2, <3>1, <3>2
  <2>5. CASE Read(w)
    <3>1. UNCHANGED <<file, loaded>> /\ pc[w] = "read" /\ loaded[s] = Served(file[s])
      BY <2>2, <2>5 DEF Read, diskVars, Replacing
    <3>2. pc'[w] = IF local[w].at = "nfs" THEN "open" ELSE "read"
      BY <2>1, <2>5 DEF Read, Goto
    <3>3. CASE local[w].at = "nfs"
      <4>1. \A g \in File : local'[w].old[g] = file[g]
        <5>1. \A g \in Done("nfs") : local[w].old[g] = file[g]
          BY <3>1, <3>3 DEF SeqInv, Stage
        <5>2. local'[w].old = [local[w].old EXCEPT !["nfs"] = file["nfs"]]
          BY <2>1, <2>5, <3>3 DEF Read, ReadOf, Sequential, Locals
        <5> QED
          BY <2>1, <3>3, <5>1, <5>2 DEF Done, File, Service, Locals
      <4> QED
        BY <2>1, <3>1, <3>2, <3>3, <4>1 DEF Told, Replacing
    <3>4. CASE local[w].at # "nfs"
      BY <3>1, <3>2, <3>4 DEF Replacing
    <3> QED
      BY <3>3, <3>4
  <2>6. ASSUME UNCHANGED loaded, local'[w].old = local[w].old, pc[w] \in Replacing,
               pc'[w] \in Replacing, pc[w] # "command",
               pc'[w] = "command" => local'[w].at = "smb"
        PROVE  loaded'[s] = Served(Told(w, s)')
    BY <2>3, <2>6 DEF Told
  <2>7. CASE Open(w) \/ Write(w) \/ Remove(w) \/ Reopen(w) \/ Rewrite(w)
    <3>1. UNCHANGED loaded /\ pc[w] \in Replacing /\ pc[w] # "command"
      BY <2>7 DEF Open, Write, Remove, Reopen, Rewrite, Replacing
    <3>2. pc'[w] \in Replacing
      BY <2>1, <2>7 DEF Open, Write, Remove, Reopen, Rewrite, AfterRestore, Goto, Replacing
    <3>3. UNCHANGED local \/ \E g \in File : local' = [local EXCEPT ![w].at = g]
      BY <2>7, NextFileType DEF Open, Write, Remove, Reopen, Rewrite, AfterRestore, File, Service
    <3>4. local'[w].old = local[w].old
      BY <3>3, AtOnly
    <3>5. pc'[w] = "command" => local'[w].at = "smb"
      BY <2>1, <2>7 DEF Open, Write, Remove, Reopen, Rewrite, AfterRestore, Goto, Locals
    <3> QED
      BY <2>6, <3>1, <3>2, <3>4, <3>5
  <2>8. CASE SkipCommand(w) \/ Command(w)
    <3>1. pc[w] = "command" /\ AfterCommand(w) /\ UNCHANGED file /\ local[w].at \in Service
      BY <2>1, <2>8 DEF SkipCommand, Command, SeqInv, Stage, diskVars, File
    <3>2. s = local[w].at => loaded'[s] = Served(file[s])
      BY <2>1, <2>3, <2>8, <3>1, SkippedSame DEF SkipCommand, Command, Told, diskVars, Replacing
    <3>3. s # local[w].at => loaded'[s] = loaded[s]
      BY <2>1, <2>8 DEF SkipCommand, Command, diskVars
    <3>4. CASE local[w].at = "smb"
      <4>1. pc'[w] = "command" /\ local'[w].at = "nfs" /\ local'[w].old = local[w].old
        BY <2>1, <3>1, <3>4 DEF AfterCommand, Locals
      <4> QED
        BY <2>3, <3>1, <3>2, <3>3, <3>4, <4>1 DEF Told, Replacing
    <3>5. CASE local[w].at = "nfs"
      <4>1. pc'[w] = "idle"
        BY <2>1, <3>1, <3>5 DEF AfterCommand, Succeed, Finish, Goto
      <4>2. s = "smb" => loaded[s] = Served(file[s])
        BY <2>3, <3>1, <3>5 DEF Told, Replacing
      <4> QED
        BY <3>1, <3>2, <3>3, <3>5, <4>1, <4>2 DEF Service, Replacing
    <3> QED
      BY <3>1, <3>4, <3>5 DEF Service
  <2>9. CASE CommandFails(w)
    <3>1. local[w].at = "smb" /\ s = "nfs" /\ pc[w] = "command"
      BY <2>1, <2>9, ShareAssumption DEF CommandFails, Service
    <3>2. loaded'[s] = loaded[s] /\ pc'[w] = "restore" /\ local'[w].old = local[w].old
      BY <2>1, <2>9, <3>1 DEF CommandFails, Goto, Locals
    <3> QED
      BY <2>3, <3>1, <3>2 DEF Told, Replacing
  <2>10. CASE Undo(w)
    <3>1. UNCHANGED <<file, loaded>> /\ pc[w] = "undo" /\ pc'[w] = "idle"
      BY <2>1, <2>10 DEF Undo, Fail, Finish, Goto, diskVars
    <3>2. file[s] = local[w].old[s]
      BY <2>1, <3>1 DEF SeqInv, Stage
    <3> QED
      BY <2>3, <3>1, <3>2 DEF Told, Replacing
  <2>11. ~WriteFails(w) /\ ~RestoreFails(w)
    BY DEF WriteFails, RestoreFails, Sequential
  <2> QED
    BY <1>2, <2>4, <2>5, <2>7, <2>8, <2>9, <2>10, <2>11 DEF Run, Reload
<1>3. ASSUME NEW w \in Workers, NEW r \in Requests, Begin(w, r)
      PROVE  \A v \in Workers : pc[v] \notin Replacing /\ pc'[v] \notin Replacing
  BY <1>3 DEF Begin, Sequential, Idle, Goto, FirstStep, TypeOK, Replacing
<1>4. ASSUME NEW p \in Procs, Start(p) \/ Stop(p) PROVE UNCHANGED <<pc, local, file, loaded>>
  BY <1>4 DEF Start, Stop, diskVars, taskVars
<1>5. ~\E p \in Procs : Crash(p)
  BY DEF Crash, Sequential
<1>6. CASE UNCHANGED <<pc, local, file, loaded>>
  BY <1>6 DEF LoadInv, Told
<1> QED
  BY <1>1, <1>2, <1>3, <1>4, <1>5, <1>6 DEF Next, Begin, LoadInv, vars, diskVars, taskVars

(* When no request is in progress, smbd and nfsd serve what their files say *)
(* if exportfs does not fail: no reload that was needed was skipped, and a  *)
(* rollback leaves a service whose command works where it was.              *)
THEOREM ServicesFollowFiles ==
    ASSUME Sequential, "nfs" \notin FailingCommands
    PROVE  Spec => []ServicesCurrent
<1>1. Init => LoadInv
  <2> SUFFICES ASSUME Init PROVE LoadInv
    OBVIOUS
  <2>1. \A s \in Service : loaded[s] = Served(Text(s, Initial))
    BY DEF Init
  <2>2. \A s \in Service : Initial = {} => Served(Text(s, Initial)) = Served(Absent)
    <3>1. Absent # Torn
      BY ShareAssumption
    <3>2. \A s \in Service : Text(s, {}) = {}
      BY DEF Text, Service
    <3>3. Parse({}) = {} /\ Parse(Absent) = {} /\ {} # Torn
      BY DEF Parse, Sequential
    <3> QED
      BY <3>1, <3>2, <3>3 DEF Served
  <2> QED
    BY <2>1, <2>2 DEF LoadInv, Init, File, Replacing
<1>2. LoadInv => ServicesCurrent
  BY DEF LoadInv, ServicesCurrent, Quiescent, Idle, Replacing
<1>3. (TypeOK /\ SeqInv) /\ LoadInv /\ [Next]_vars => LoadInv'
  BY StepLoad
<1> QED
  BY <1>1, <1>2, <1>3, SequentialHolds, PTL DEF Spec
-----------------------------------------------------------------------------
(* What the process has committed to is what its answers promised. *)
LEMMA CommittedIsAcked == ASSUME TypeOK, Sequential, SeqInv PROVE Committed(Agent) = Acked
<1>1. CASE ~up[Agent]
  <2>1. \A w \in Workers : pc[w] \notin Uncommitted
    BY <1>1 DEF SeqInv, Idle, Uncommitted
  <2> QED
    BY <1>1, <2>1 DEF Committed, SeqInv, Settled, Clean, Saved, Text, File
<1>2. CASE up[Agent] /\ \E w \in Workers : pc[w] \in Uncommitted
  <2>1. \A w \in Workers : pc[w] \in Uncommitted => Undone(w) = Acked
    BY UndoneIsAcked DEF SeqInv, Stage, Saving, Restoring, Held, Uncommitted, Idle
  <2>2. PICK w \in Workers : pc[w] \in Uncommitted
    BY <1>2
  <2> DEFINE v == CHOOSE u \in Hosted(Agent) : pc[u] \in Uncommitted
  <2>3. v \in Workers /\ pc[v] \in Uncommitted
    BY <2>2, HostIsAgent
  <2> QED
    BY <1>2, <2>1, <2>3, HostIsAgent DEF Committed
<1>3. CASE up[Agent] /\ \A w \in Workers : pc[w] \notin Uncommitted
  BY <1>3 DEF Committed, Hosted, SeqInv, Settled, Memory
<1> QED
  BY <1>1, <1>2, <1>3

(* A worker that has nothing to do has no request. *)
Unasked == \A w \in Workers : Idle(w) => req[w] = NoRequest

LEMMA StepUnasked == TypeOK /\ Unasked /\ [Next]_vars => Unasked'
<1> SUFFICES ASSUME TypeOK, Unasked, [Next]_vars PROVE Unasked'
  OBVIOUS
<1> USE DEF Unasked, Idle
<1>1. DOMAIN pc = Workers /\ DOMAIN req = Workers
  BY DEF TypeOK
<1>2. ASSUME NEW w \in Workers, Run(w) PROVE Unasked'
  <2>1. ASSUME NEW r, Finish(w, r) PROVE Unasked'
    BY <1>1, <2>1 DEF Finish, Goto
  <2>2. ASSUME UNCHANGED req, NEW q, q # "idle", Goto(w, q) PROVE Unasked'
    BY <1>1, <2>2 DEF Goto
  <2>3. ASSUME UNCHANGED <<req, pc>> PROVE Unasked'
    BY <2>3
  <2>4. CASE Check(w) \/ Validate(w) \/ GetPrev(w) \/ Apply(w) \/ Undo(w)
    BY <2>1, <2>2, <2>4 DEF Check, Validate, GetPrev, Apply, Undo, Fail
  <2>5. CASE Snapshot(w) \/ Read(w) \/ Open(w) \/ Write(w) \/ WriteFails(w)
    BY <2>2, <2>5 DEF Snapshot, Read, Open, Write, WriteFails
  <2>6. CASE SkipCommand(w) \/ Command(w) \/ CommandFails(w)
    BY <2>1, <2>2, <2>3, <2>6 DEF SkipCommand, Command, CommandFails, AfterCommand, Succeed
  <2>7. CASE Remove(w) \/ Reopen(w) \/ Rewrite(w) \/ RestoreFails(w)
    BY <2>2, <2>7 DEF Remove, Reopen, Rewrite, RestoreFails, AfterRestore
  <2> QED
    BY <1>2, <2>4, <2>5, <2>6, <2>7 DEF Run, Reload
<1>3. ASSUME NEW w \in Workers, NEW r \in Requests, Begin(w, r) PROVE Unasked'
  BY <1>1, <1>3 DEF Begin, Goto, FirstStep
<1>4. ASSUME NEW p \in Procs, Start(p) \/ Stop(p) \/ Crash(p) PROVE Unasked'
  BY <1>4 DEF Start, Stop, Crash, taskVars
<1>5. CASE UNCHANGED vars
  BY <1>5 DEF vars, taskVars
<1> QED
  BY <1>2, <1>3, <1>4, <1>5 DEF Next

(* What the refinement rests on, in one formula. *)
Promise == TypeOK /\ SeqInv /\ Unasked /\ Committed(Agent) = Acked

LEMMA PromiseHolds == ASSUME Sequential PROVE Spec => []Promise
<1>1. Init => Unasked
  BY DEF Init, Unasked
<1>2. Spec => []TypeOK /\ []Unasked
  BY <1>1, InitType, StepType, StepUnasked, PTL DEF Spec
<1>3. TypeOK /\ SeqInv /\ Unasked => Promise
  BY CommittedIsAcked DEF Promise
<1> QED
  BY <1>2, <1>3, SequentialHolds, PTL

(* One after another, requests implement the contract: a request is         *)
(* answered with success in the one step in which its change is promised,   *)
(* and everything else that a worker or the process does changes nothing.   *)
THEOREM Implements == ASSUME Sequential PROVE Spec => ImplementsStore
<1>1. ASSUME Init PROVE Contract!Init
  <2>1. Committed(Agent) = Initial
    <3>1. TypeOK /\ SeqInv /\ Acked = Initial
      BY <1>1, InitType, InitSequential, HostIsAgent DEF Init, Acked, Sequential
    <3> QED
      BY <3>1, CommittedIsAcked
  <2> QED
    BY <1>1, <2>1 DEF Contract!Init, Init
<1>2. ASSUME Promise, Promise', [Next]_vars PROVE [Contract!Next]_Contract!vars
  <2> USE DEF Promise
  <2>1. Committed(Agent) = Acked /\ Committed(Agent)' = Acked'
    BY <1>2
  <2>2. DOMAIN req = Workers /\ DOMAIN acked = Procs
    BY <1>2 DEF TypeOK
  <2>3. ASSUME UNCHANGED <<Acked, req>> PROVE UNCHANGED Contract!vars
    BY <2>1, <2>3 DEF Contract!vars
  <2>4. ASSUME NEW w \in Workers, NEW r, Fail(w, r), pc[w] # "idle" PROVE Contract!Next
    <3>1. req[w] # NoRequest /\ req' = [req EXCEPT ![w] = NoRequest] /\ UNCHANGED Acked
      BY <1>2, <2>4, ShareAssumption DEF Fail, Finish, Acked, TypeOK
    <3> QED
      BY <2>1, <3>1 DEF Contract!Next, Contract!Abort, Contract!Answer
  <2>5. ASSUME NEW w \in Workers, AfterCommand(w), pc[w] = "command"
        PROVE  [Contract!Next]_Contract!vars
    <3>1. CASE local[w].at = "smb"
      BY <2>3, <2>5, <3>1 DEF AfterCommand, Acked
    <3>2. CASE local[w].at # "smb"
      <4>1. req[w] # NoRequest /\ req' = [req EXCEPT ![w] = NoRequest]
        BY <1>2, <2>5, <3>2, ShareAssumption DEF AfterCommand, Succeed, Finish, TypeOK
      <4>2. (Named(Acked, Name(w)) = {}) <=> (req[w].op = "create")
        BY <1>2, <2>5 DEF SeqInv, Stage, Held, InForce
      <4>3. Acked' = IF req[w].op = "delete" THEN Without(Acked, Name(w))
                                            ELSE Put(Acked, req[w].share)
        BY <2>2, <2>5, <3>2, HostIsAgent DEF AfterCommand, Succeed, Acked
      <4>4. Acked' = (Acked \ {s \in Acked : s.name = Name(w)})
                     \cup (IF req[w].op = "delete" THEN {} ELSE {req[w].share})
        BY <4>3 DEF Put, Without, Name
      <4>5. Contract!Commit(w)
        BY <2>1, <4>1, <4>2, <4>4 DEF Contract!Commit, Contract!Answer, Contract!Named, Named, Name
      <4> QED
        BY <4>5 DEF Contract!Next
    <3> QED
      BY <3>1, <3>2
  <2>6. ASSUME NEW w \in Workers, Run(w) PROVE [Contract!Next]_Contract!vars
    <3>1. CASE Check(w)
      BY <2>3, <2>4, <3>1 DEF Check, Acked
    <3>2. CASE Validate(w)
      BY <2>3, <2>4, <3>2 DEF Validate, Acked
    <3>3. CASE GetPrev(w)
      BY <2>3, <2>4, <3>3 DEF GetPrev, Acked
    <3>4. CASE Apply(w)
      BY <2>3, <2>4, <3>4 DEF Apply, Acked
    <3>5. CASE Undo(w)
      BY <2>4, <3>5 DEF Undo
    <3>6. CASE SkipCommand(w) \/ Command(w)
      BY <2>5, <3>6 DEF SkipCommand, Command
    <3>7. CASE Snapshot(w) \/ Read(w) \/ Open(w) \/ Write(w) \/ WriteFails(w) \/ CommandFails(w)
               \/ Remove(w) \/ Reopen(w) \/ Rewrite(w) \/ RestoreFails(w)
      BY <2>3, <3>7 DEF Snapshot, Read, Open, Write, WriteFails, CommandFails, Remove, Reopen,
         Rewrite, RestoreFails, histVars, Acked
    <3> QED
      BY <2>6, <3>1, <3>2, <3>3, <3>4, <3>5, <3>6, <3>7 DEF Run, Reload
  <2>7. ASSUME NEW w \in Workers, NEW r \in Requests, Begin(w, r) PROVE Contract!Next
    <3>1. [r EXCEPT !.share = Typed(r)] \in Request
      BY ShareAssumption DEF Typed, Request, Shares, Service
    <3>2. req[w] = NoRequest
      BY <1>2, <2>7 DEF Begin, Unasked
    <3> QED
      BY <2>1, <2>7, <3>1, <3>2 DEF Begin, Contract!Next, Contract!Begin, Acked
  <2>8. ASSUME NEW p \in Procs, Start(p) \/ Stop(p) \/ Crash(p) PROVE UNCHANGED Contract!vars
    <3>1. ~Crash(p) /\ p = Agent /\ UNCHANGED req
      BY <2>8 DEF Start, Stop, Crash, Sequential, taskVars
    <3>2. ~up[Agent] => Parse(file["state"]) = Acked
      BY <2>1 DEF Committed
    <3>3. UNCHANGED Acked
      <4>1. ReadOf("state") = {file["state"]}
        BY <2>2 DEF ReadOf, Sequential
      <4> QED
        BY <2>2, <2>8, <3>1, <3>2, <4>1 DEF Start, Stop, histVars, Acked
    <3> QED
      BY <2>3, <3>1, <3>3
  <2>9. CASE UNCHANGED vars
    BY <2>3, <2>9 DEF vars, taskVars, histVars, Acked
  <2> QED
    BY <1>2, <2>6, <2>7, <2>8, <2>9 DEF Next
<1> QED
  BY <1>1, <1>2, PromiseHolds, PTL DEF Spec, ImplementsStore, Contract!Spec
=============================================================================
