------------------------------ MODULE MCShare ------------------------------
(***************************************************************************)
(* Instances of Share for TLC: which processes, workers and requests.      *)
(***************************************************************************)
EXTENDS Share, TLC

Sh(n, t, e) == [name |-> n, type |-> t, enabled |-> e, data |-> "d"]
Req(o, v, s) == [op |-> o, via |-> v, share |-> s]

(* One process whose workers all share its memory: the agent. *)
AgentOnly == [w \in Workers |-> "agent"]

(* Every operation through every route, on a share that changes its type    *)
(* and its state, and on a second one; requests that validation refuses.    *)
AllRoutes ==
    {Req("create", "share", Sh("a", "smb", TRUE)), Req("create", "nfs", Sh("a", "smb", TRUE)),
     Req("update", "share", Sh("a", "nfs", TRUE)), Req("update", "smb", Sh("a", "nfs", FALSE)),
     Req("delete", "share", Sh("a", "smb", TRUE)), Req("delete", "nfs", Sh("a", "smb", TRUE)),
     Req("create", "smb", Sh("b", "smb", FALSE)),  Req("delete", "smb", Sh("b", "smb", TRUE)),
     Req("create", "share", Sh("/", "smb", TRUE)), Req("update", "share", Sh("a", "other", TRUE))}

(* Requests that meet on one name, one more on a name of its own. *)
Contended ==
    {Req("update", "smb", Sh("a", "smb", FALSE)), Req("delete", "share", Sh("a", "smb", TRUE)),
     Req("create", "share", Sh("b", "nfs", TRUE))}

(* A share left by an earlier run; no share. *)
LeftOver == {Sh("a", "smb", TRUE)}
Nothing == {}

(* Two creations of different shares. *)
TwoCreates ==
    {Req("create", "share", Sh("a", "smb", TRUE)), Req("create", "share", Sh("b", "smb", TRUE))}

Symmetry == Permutations(Workers)
=============================================================================
