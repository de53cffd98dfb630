--------------------------- MODULE KeyStoreProofs ---------------------------
(***************************************************************************)
(* Proofs about KeyStore, for any keys, agents and tools.                  *)
(***************************************************************************)
EXTENDS KeyStore, TLAPS

Starts(p) == Keygen(p) \/ StartAgent(p) \/ \E k \in Keys : Revoke(p, k)

(* One step of the system, split into its actions.                         *)
LEMMA Steps ==
    ASSUME Next
    PROVE  \E p \in Procs :
              \/ Starts(p) \/ Load(p) \/ LoadFails(p) \/ StopAgent(p)
              \/ Read(p) \/ Write(p) \/ SaveFails(p) \/ Crash(p)
  BY DEF Next, Procs, Starts

(* No action takes a variable out of its type. *)
LEMMA TypeStep ==
    ASSUME TypeOK, [Next]_vars
    PROVE  TypeOK'
<1> USE KeyStoreAssumption
<1>1. CASE UNCHANGED vars
  <2>1. raced' \in BOOLEAN
    BY <1>1 DEF TypeOK, vars, histVars
  <2> QED BY <1>1, <2>1 DEF TypeOK, PCs, vars, histVars
<1>2. ASSUME NEW p \in Procs, Starts(p)
      PROVE  TypeOK'
  <2>1. PICK what \in {"keygen", "revoke", "start"}, k \in Keys \cup {NoKey},
             step \in {"read", "load"} :
           Begin(p, what, k, step) /\ (step = "read" => k \in Keys)
    BY <1>2 DEF Starts, Keygen, StartAgent, Revoke, Generate
  <2>2. issued' \subseteq Keys
    BY <1>2 DEF TypeOK, Starts, Keygen, StartAgent, Revoke, Generate
  <2>3. raced' \in BOOLEAN
    BY <2>1 DEF Begin
  <2>4. runs' \in 0 .. MaxRuns
    BY <2>1 DEF Begin, TypeOK
  <2> QED BY <2>1, <2>2, <2>3, <2>4 DEF TypeOK, PCs, Begin, Goto
<1>3. ASSUME NEW p \in Procs, Load(p)
      PROVE  TypeOK'
  <2>1. CASE store # {}
    BY <1>3, <2>1 DEF TypeOK, PCs, Load, Goto, histVars
  <2>2. CASE store = {}
    BY <1>3, <2>2 DEF TypeOK, PCs, Load, Generate, Goto, histVars
  <2> QED BY <2>1, <2>2
<1>4. ASSUME NEW p \in Procs, LoadFails(p) \/ StopAgent(p) \/ Read(p)
      PROVE  TypeOK'
  BY <1>4 DEF TypeOK, PCs, LoadFails, StopAgent, Read, Exit, Goto, histVars
<1>5. ASSUME NEW p \in Procs, Write(p)
      PROVE  TypeOK'
  BY <1>5 DEF TypeOK, PCs, Write, NewEntries, Exit, Goto
<1>6. ASSUME NEW p \in Procs, SaveFails(p)
      PROVE  TypeOK'
  BY <1>6 DEF TypeOK, PCs, SaveFails, AfterFailure, NewEntries, Fallback, Exit, Goto
<1>7. ASSUME NEW p \in Procs, Crash(p)
      PROVE  TypeOK'
  <2>1. key[p] \in Keys \cup {NoKey} /\ (pc[p] = "write" => key[p] \in Keys)
    BY <1>7 DEF TypeOK
  <2>2. store' \subseteq Keys
    BY <1>7, <2>1 DEF TypeOK, Crash, AfterFailure, NewEntries
  <2>3. UNCHANGED <<runs, issued, granted, raced>> /\ unsure' = unsure \cup {key[p]} /\ Exit(p)
    BY <1>7 DEF Crash
  <2> QED BY <2>1, <2>2, <2>3 DEF TypeOK, PCs, Exit, Goto
<1> QED BY Steps, <1>1, <1>2, <1>3, <1>4, <1>5, <1>6, <1>7

(* Every variable of the key store model stays within its type. *)
THEOREM TypeCorrect == Spec => []TypeOK
<1>1. Init => TypeOK
  <2>1. Init => raced \in BOOLEAN
    BY DEF Init
  <2> QED BY <2>1, KeyStoreAssumption DEF Init, TypeOK, PCs
<1> QED BY <1>1, TypeStep, PTL DEF Spec
-----------------------------------------------------------------------------
(* Any process that serves holds a key. *)
Armed == \A p \in Procs : pc[p] = "serve" => mem[p] # {}

(* A process that starts to serve has loaded a key or made one itself. *)
LEMMA ArmedStep ==
    ASSUME TypeOK, Armed, [Next]_vars
    PROVE  Armed'
<1>1. CASE UNCHANGED vars
  BY <1>1 DEF Armed, vars
<1>2. ASSUME NEW p \in Procs, Starts(p)
      PROVE  Armed'
  BY <1>2 DEF TypeOK, Armed, Starts, Keygen, StartAgent, Revoke, Begin, Goto
<1>3. ASSUME NEW p \in Procs, Load(p)
      PROVE  Armed'
  <2>1. CASE store # {}
    BY <1>3, <2>1 DEF TypeOK, Armed, Load, Goto
  <2>2. CASE store = {}
    BY <1>3, <2>2 DEF TypeOK, Armed, Load, Goto
  <2> QED BY <2>1, <2>2
<1>4. ASSUME NEW p \in Procs, LoadFails(p) \/ StopAgent(p) \/ Read(p) \/ Crash(p)
      PROVE  Armed'
  BY <1>4 DEF TypeOK, Armed, LoadFails, StopAgent, Read, Crash, Exit, Goto
<1>5. ASSUME NEW p \in Procs, Write(p) \/ SaveFails(p)
      PROVE  Armed'
  BY <1>5 DEF TypeOK, Armed, Write, SaveFails, Fallback, Exit, Goto
<1> QED BY Steps, <1>1, <1>2, <1>3, <1>4, <1>5

(* An agent that serves accepts some key, whatever fails, dies or overlaps  *)
(* with it: the fallback of agent start to a key in memory.                 *)
THEOREM NobodyLockedOut == Spec => []NeverLockedOut
<1>1. Init => Armed
  BY DEF Init, Armed
<1>2. TypeOK /\ Armed => NeverLockedOut
  BY DEF TypeOK, Armed, NeverLockedOut, Accepts, Procs
<1> QED BY <1>1, <1>2, ArmedStep, TypeCorrect, PTL DEF Spec
-----------------------------------------------------------------------------
(* As long as no process starts while another is at work, what a process    *)
(* has read is what the file holds when it writes.                          *)
LEMMA SerialStep ==
    ASSUME TypeOK, SerialInv, [Next]_vars
    PROVE  SerialInv'
<1> SUFFICES ASSUME ~raced'
             PROVE  Serial'
  BY DEF SerialInv
<1>1. CASE UNCHANGED vars
  BY <1>1 DEF SerialInv, Serial, Settled, Busy, vars, histVars
<1>2. ASSUME NEW p \in Procs, Starts(p)
      PROVE  Serial'
  <2>1. Serial /\ \A q \in Procs : ~Busy(q)
    BY <1>2 DEF SerialInv, TypeOK, Starts, Keygen, StartAgent, Revoke, Begin
  <2> QED BY <1>2, <2>1 DEF Serial, Settled, Busy, TypeOK, Starts, Keygen, StartAgent, Revoke, Begin, Goto
<1>3. ASSUME NEW p \in Procs, Load(p)
      PROVE  Serial'
  <2>1. Serial /\ Busy(p)
    BY <1>3 DEF SerialInv, Load, Busy, histVars
  <2> QED BY <1>3, <2>1 DEF Serial, Settled, Busy, TypeOK, Load, Goto, histVars
<1>4. ASSUME NEW p \in Procs, LoadFails(p) \/ StopAgent(p) \/ Read(p)
      PROVE  Serial'
  BY <1>4 DEF SerialInv, Serial, Settled, Busy, TypeOK, LoadFails, StopAgent, Read, Exit,
              Goto, histVars
<1>5. ASSUME NEW p \in Procs, Write(p)
      PROVE  Serial'
  <2>1. Serial /\ Busy(p) /\ copy[p] = store
    BY <1>5 DEF SerialInv, Serial, Write, Busy
  <2>2. Settled(store)'
    BY <1>5, <2>1 DEF Serial, Settled, Write, NewEntries
  <2>3. \A q \in Procs : Busy(q)' => FALSE
    BY <1>5, <2>1 DEF Serial, Write, Busy, TypeOK, Exit, Goto
  <2> QED BY <2>2, <2>3 DEF Serial, Busy
<1>6. ASSUME NEW p \in Procs, SaveFails(p) \/ Crash(p)
      PROVE  Serial'
  <2>1. Serial /\ Busy(p) /\ (pc[p] = "write" => copy[p] = store)
    BY <1>6 DEF SerialInv, Serial, SaveFails, Crash, Busy
  <2>2. Settled(store)'
    BY <1>6, <2>1 DEF Serial, Settled, SaveFails, Crash, AfterFailure, NewEntries
  <2>3. \A q \in Procs : Busy(q)' => FALSE
    BY <1>6, <2>1 DEF Serial, SaveFails, Crash, Busy, TypeOK, Exit, Goto
  <2> QED BY <2>2, <2>3 DEF Serial, Busy
<1> QED BY Steps, <1>1, <1>2, <1>3, <1>4, <1>5, <1>6

LEMMA SerialCorrect == Spec => []SerialInv
<1>1. Init => SerialInv
  BY DEF Init, SerialInv, Serial, Settled, Busy
<1> QED BY <1>1, SerialStep, TypeCorrect, PTL DEF Spec

(* The file holds the keys that were handed out and not revoked, as long as *)
(* no two processes were at work at the same time.                          *)
THEOREM FileKeepsKeys == Spec => []KeysKept
<1>1. SerialInv => KeysKept
  BY DEF SerialInv, Serial, Settled, KeysKept
<1> QED BY <1>1, SerialCorrect, PTL

(* An agent that starts while nobody else is at work accepts exactly the    *)
(* keys in force.                                                           *)
THEOREM RestartsEnforce == Spec => RestartEnforces
<1> DEFINE Enforced ==
       \A a \in Agents :
          pc[a] # "serve" /\ pc'[a] = "serve" /\ ~raced' =>
             mem'[a] \ unsure' = granted' \ unsure'
<1>1. TypeOK /\ SerialInv /\ [Next]_vars => [Enforced]_vars
  <2> SUFFICES ASSUME TypeOK, SerialInv, Next, NEW a \in Agents,
                      pc[a] # "serve", pc'[a] = "serve", ~raced'
               PROVE  mem'[a] \ unsure' = granted' \ unsure'
    OBVIOUS
  <2>1. a \in Procs /\ mem \in [Procs -> SUBSET Keys] /\ store \subseteq Keys /\ granted \subseteq Keys
    BY DEF TypeOK, Procs
  <2>2. ASSUME NEW p \in Procs, Load(p)
        PROVE  mem'[a] \ unsure' = granted' \ unsure'
    <3>1. p = a /\ Serial /\ mem'[a] = store
      BY <2>1, <2>2 DEF Load, Goto, SerialInv, TypeOK, histVars
    <3> QED BY <2>1, <2>2, <3>1 DEF Serial, Settled, Load, histVars
  <2>3. ASSUME NEW p \in Procs, Write(p) \/ SaveFails(p)
        PROVE  mem'[a] \ unsure' = granted' \ unsure'
    <3>1. p = a /\ Serial /\ op[a] = "start"
      BY <2>1, <2>3 DEF Write, SaveFails, Exit, Goto, SerialInv, TypeOK
    <3>2. mem'[a] = {key[a]}
      BY <2>1, <2>3, <3>1 DEF Serial, Write, SaveFails, Fallback, TypeOK
    <3>3. granted \subseteq unsure
      BY <2>1, <2>3, <3>1 DEF Serial, Settled, Write, SaveFails
    <3> QED BY <2>3, <3>1, <3>2, <3>3 DEF Write, SaveFails
  <2>4. ASSUME NEW p \in Procs,
               Starts(p) \/ LoadFails(p)
               \/ StopAgent(p) \/ Read(p) \/ Crash(p)
        PROVE  FALSE
    BY <2>1, <2>4 DEF Starts, Keygen, StartAgent, Revoke, Begin, LoadFails, StopAgent, Read, Crash,
                      Exit, Goto, TypeOK
  <2> QED BY Steps, <2>2, <2>3, <2>4
<1> QED BY <1>1, SerialCorrect, TypeCorrect, PTL DEF Spec, RestartEnforces
=============================================================================
