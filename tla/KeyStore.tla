------------------------------ MODULE KeyStore ------------------------------
EXTENDS Naturals

(***************************************************************************)
(* API keys: internal/auth (keystore.go, auth.go), the commands of          *)
(* internal/cli/auth.go, and the start of the agent in internal/cli/agent.go*)
(*                                                                         *)
(* The keys live in apikeys.json, which keygen and revoke read, change and  *)
(* rename into place from processes of their own, and in the memory of an   *)
(* agent, which loads them once, when it starts.  No lock spans processes.  *)
(*                                                                         *)
(* A keystore is a set of keys: an absent, an empty and a keyless file are  *)
(* the same to every reader, and the rename never leaves half a file.  The  *)
(* role and subject of a key go with it and are not inspected here.         *)
(***************************************************************************)
CONSTANTS
    Keys,         \* random keys
    NoKey,
    Agents,       \* processes of mingyue agent start
    Tools,        \* processes of mingyue auth keygen and revoke
    MayFail,      \* may reading or writing the file fail
    Crashes,      \* may a process die while it runs
    MaxRuns       \* bound on the number of processes started

Procs == Agents \cup Tools

VARIABLES
    store,    \* the keys in apikeys.json
    mem,      \* mem[p]: the map keys of process p
    pc,       \* pc[p]: what process p does next
    op,       \* op[p]: "keygen", "revoke" or "start"
    key,      \* key[p]: the key it makes or revokes
    copy,     \* copy[p]: the entries it has read
    runs,     \* processes started so far
    issued,   \* keys that GenerateKey has returned
    granted,  \* history: keys made and not revoked, according to the answers
    unsure,   \* history: keys whose save or revocation failed or was killed
    raced     \* history: a process started while another was at work

histVars == <<granted, unsure, raced>>
vars == <<store, mem, pc, op, key, copy, runs, issued, histVars>>

ASSUME KeyStoreAssumption ==
    /\ NoKey \notin Keys
    /\ Agents \cap Tools = {}
    /\ MayFail \in BOOLEAN
    /\ Crashes \in BOOLEAN
    /\ MaxRuns \in Nat
-----------------------------------------------------------------------------
Init ==
    /\ store = {}
    /\ mem = [p \in Procs |-> {}]
    /\ pc = [p \in Procs |-> "off"]
    /\ op = [p \in Procs |-> "none"]
    /\ key = [p \in Procs |-> NoKey]
    /\ copy = [p \in Procs |-> {}]
    /\ runs = 0
    /\ issued = {}
    /\ granted = {}
    /\ unsure = {}
    /\ raced = FALSE

Goto(p, step) == pc' = [pc EXCEPT ![p] = step]
Busy(p) == pc[p] \notin {"off", "serve"}

(* A process ends; its memory is gone.                                      *)
Exit(p) ==
    /\ Goto(p, "off")
    /\ mem' = [mem EXCEPT ![p] = {}]
    /\ op' = [op EXCEPT ![p] = "none"]
    /\ key' = [key EXCEPT ![p] = NoKey]
    /\ copy' = [copy EXCEPT ![p] = {}]

Begin(p, what, k, step) ==
    /\ pc[p] = "off"
    /\ runs < MaxRuns
    /\ runs' = runs + 1
    /\ op' = [op EXCEPT ![p] = what]
    /\ key' = [key EXCEPT ![p] = k]
    /\ Goto(p, step)
    /\ raced' = (raced \/ \E q \in Procs : Busy(q))
    /\ UNCHANGED <<store, mem, copy, granted, unsure>>

(* GenerateKey: 32 random bytes are a key that nobody has. *)
Generate(k) == k \in Keys \ issued /\ issued' = issued \cup {k}
-----------------------------------------------------------------------------
(* mingyue auth keygen, mingyue auth revoke, mingyue agent start.           *)
Keygen(t) == \E k \in Keys : Generate(k) /\ Begin(t, "keygen", k, "read")
Revoke(t, k) == Begin(t, "revoke", k, "read") /\ UNCHANGED issued
StartAgent_Unloaded(a) == Begin(a, "start", NoKey, "read") /\ UNCHANGED issued
StartAgent(a) == Begin(a, "start", NoKey, "load") /\ UNCHANGED issued

(* The agent registers the keys of the file; when there are none it makes   *)
(* the first.                                                               *)
Load_Unregistered(a) ==
    /\ pc[a] = "load"
    /\ mem' = [mem EXCEPT ![a] = {}]
    /\ IF store # {}
       THEN Goto(a, "serve") /\ UNCHANGED <<key, issued>>
       ELSE /\ \E k \in Keys : Generate(k) /\ key' = [key EXCEPT ![a] = k]
            /\ Goto(a, "read")
    /\ UNCHANGED <<store, op, copy, runs, histVars>>
Load(a) ==
    /\ pc[a] = "load"
    /\ mem' = [mem EXCEPT ![a] = store]
    /\ IF store # {}
       THEN Goto(a, "serve") /\ UNCHANGED <<key, issued>>
       ELSE /\ \E k \in Keys : Generate(k) /\ key' = [key EXCEPT ![a] = k]
            /\ Goto(a, "read")
    /\ UNCHANGED <<store, op, copy, runs, histVars>>

(* The file cannot be read or parsed: the agent does not start. *)
LoadFails(a) ==
    /\ MayFail
    /\ pc[a] = "load"
    /\ Exit(a)
    /\ UNCHANGED <<store, runs, issued, histVars>>

(* SaveKeyEntry and RevokeKey read the file.  To revoke a key that is not   *)
(* there is an error.                                                       *)
Read(p) ==
    /\ pc[p] = "read"
    /\ IF op[p] = "revoke" /\ key[p] \notin store
       THEN Exit(p)
       ELSE /\ copy' = [copy EXCEPT ![p] = store]
            /\ Goto(p, "write")
            /\ UNCHANGED <<mem, op, key>>
    /\ UNCHANGED <<store, runs, issued, histVars>>

(* What is written: the entries that were read, with or without the key.    *)
NewEntries_Kept(p) == copy[p] \cup {key[p]}
NewEntries(p) == IF op[p] = "revoke" THEN copy[p] \ {key[p]} ELSE copy[p] \cup {key[p]}

(* After its save a tool prints the key, or that it is revoked; the agent   *)
(* registers its key and serves.                                            *)
Write(p) ==
    /\ pc[p] = "write"
    /\ store' = NewEntries(p)
    /\ granted' = IF op[p] = "revoke" THEN granted \ {key[p]} ELSE granted \cup {key[p]}
    /\ IF op[p] = "start"
       THEN /\ mem' = [mem EXCEPT ![p] = @ \cup {key[p]}]
            /\ Goto(p, "serve")
            /\ UNCHANGED <<op, key, copy>>
       ELSE Exit(p)
    /\ UNCHANGED <<runs, issued, unsure, raced>>

(* loadEntries or writeEntries fails, maybe in the chmod that follows the    *)
(* rename.  A tool ends with an error; the agent goes on with the key in    *)
(* memory only.                                                             *)
AfterFailure(p) == IF pc[p] = "write" THEN {store, NewEntries(p)} ELSE {store}
Fallback_None(p) == mem[p]
Fallback(p) == mem[p] \cup {key[p]}

SaveFails(p) ==
    /\ MayFail
    /\ pc[p] \in {"read", "write"}
    /\ store' \in AfterFailure(p)
    /\ unsure' = unsure \cup {key[p]}
    /\ IF op[p] = "start"
       THEN /\ mem' = [mem EXCEPT ![p] = Fallback(p)]
            /\ Goto(p, "serve")
            /\ UNCHANGED <<op, key, copy>>
       ELSE Exit(p)
    /\ UNCHANGED <<runs, issued, granted, raced>>

(* The agent is stopped. *)
StopAgent(a) ==
    /\ pc[a] = "serve"
    /\ Exit(a)
    /\ UNCHANGED <<store, runs, issued, histVars>>

(* A process dies before its answer, before or after its rename. *)
Crash(p) ==
    /\ Crashes
    /\ Busy(p)
    /\ store' \in AfterFailure(p)
    /\ unsure' = unsure \cup {key[p]}
    /\ Exit(p)
    /\ UNCHANGED <<runs, issued, granted, raced>>

Next ==
    \/ \E t \in Tools : Keygen(t) \/ \E k \in Keys : Revoke(t, k)
    \/ \E a \in Agents : StartAgent(a) \/ Load(a) \/ LoadFails(a) \/ StopAgent(a)
    \/ \E p \in Procs : Read(p) \/ Write(p) \/ SaveFails(p) \/ Crash(p)

Spec == Init /\ [][Next]_vars
-----------------------------------------------------------------------------
PCs == {"off", "load", "read", "write", "serve"}

(* Every variable stays within its type, and an agent that does not load    *)
(* keys from the file has one of its own.                                   *)
TypeOK ==
    /\ store \subseteq Keys
    /\ mem \in [Procs -> SUBSET Keys]
    /\ pc \in [Procs -> PCs]
    /\ op \in [Procs -> {"none", "keygen", "revoke", "start"}]
    /\ key \in [Procs -> Keys \cup {NoKey}]
    /\ \A p \in Procs : pc[p] \in {"read", "write"} => key[p] \in Keys
    /\ copy \in [Procs -> SUBSET Keys]
    /\ runs \in 0 .. MaxRuns
    /\ issued \subseteq Keys
    /\ granted \subseteq Keys
    /\ unsure \subseteq Keys \cup {NoKey}
    /\ raced \in BOOLEAN

Accepts(a, k) == pc[a] = "serve" /\ k \in mem[a]

(* An agent that serves accepts some key, however the save of the first one *)
(* fails and whoever changes the file meanwhile: nobody is locked out of a  *)
(* new installation (agent.go, "carry on with the in-memory key only").     *)
NeverLockedOut == \A a \in Agents : pc[a] = "serve" => \E k \in Keys : Accepts(a, k)

(* Between two changes, apikeys.json holds the keys that were handed out    *)
(* and not revoked: a later save neither drops a key nor brings one back,   *)
(* as long as no two processes were at work at the same time.               *)
KeysKept ==
    ~raced /\ (\A p \in Procs : ~Busy(p)) =>
        \A k \in Keys \ unsure : k \in store <=> k \in granted

(* An agent that starts while nobody else is at work accepts exactly the     *)
(* keys in force: a restart is what makes keygen and revoke take effect.    *)
RestartEnforces ==
    [][\A a \in Agents :
          pc[a] # "serve" /\ pc'[a] = "serve" /\ ~raced' =>
             mem'[a] \ unsure' = granted' \ unsure']_vars

(* The inductive invariant behind these two.                               *)
Settled(s) == \A k \in Keys \ unsure : k \in s <=> k \in granted
Serial ==
    /\ \A p, q \in Procs : Busy(p) /\ Busy(q) => p = q
    /\ Settled(store)
    /\ \A p \in Procs :
          /\ pc[p] = "write" => copy[p] = store
          /\ pc[p] \in {"read", "write"} /\ op[p] = "start" =>
                store = {} /\ mem[p] = {}
SerialInv == ~raced => Serial

(* A key that was revoked is no longer accepted ("Remove an API key from    *)
(* the keystore and from the running agent's memory", auth.go).             *)
RevokedRefused ==
    \A a \in Agents, k \in Keys \ unsure :
        k \in issued /\ k \notin granted /\ Accepts(a, k) =>
            \E p \in Procs : Busy(p) /\ key[p] = k
=============================================================================
