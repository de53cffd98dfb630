----------------------------- MODULE ShareStore -----------------------------
(***************************************************************************)
(* What the share service promises its clients: one map of shares, keyed   *)
(* by name.  A request is answered in a single step, and then it has had   *)
(* its whole effect or none.  This is the contract of Manager.Create,      *)
(* Update and Delete (service/share/manager.go) without files, services,   *)
(* processes or partial progress; Share.tla is shown to implement it.      *)
(***************************************************************************)
CONSTANTS Workers,      \* those who serve requests
          Request,      \* what can be asked: an operation and a share
          NoRequest,    \* a worker that has nothing to do
          Initial       \* the shares there are at the start

VARIABLES store,        \* the shares in force, at most one per name
          task          \* task[w]: the request w has not answered yet

vars == <<store, task>>

Named(n) == {s \in store : s.name = n}

Init == store = Initial /\ task = [w \in Workers |-> NoRequest]

Begin(w, r) == /\ task[w] = NoRequest
               /\ task' = [task EXCEPT ![w] = r]
               /\ UNCHANGED store

Answer(w) == task[w] # NoRequest /\ task' = [task EXCEPT ![w] = NoRequest]

(* The answer is an error: nothing has changed. *)
Abort(w) == Answer(w) /\ UNCHANGED store

(* The answer is success: a created share was new, an updated or deleted    *)
(* one existed, and no other share changes.                                 *)
Commit(w) ==
    LET s == task[w].share IN
    /\ Answer(w)
    /\ (Named(s.name) = {}) <=> (task[w].op = "create")
    /\ store' = (store \ Named(s.name)) \cup
                (IF task[w].op = "delete" THEN {} ELSE {s})

Next == \E w \in Workers : \/ \E r \in Request : Begin(w, r)
                           \/ Abort(w)
                           \/ Commit(w)

Spec == Init /\ [][Next]_vars
=============================================================================
