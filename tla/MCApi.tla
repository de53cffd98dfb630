------------------------------- MODULE MCApi -------------------------------
(***************************************************************************)
(* The instance of Api for TLC.                                            *)
(***************************************************************************)
EXTENDS Api, TLC

Ask(op, target, role, form) ==
    [op |-> op, target |-> target, role |-> role, form |-> form]

(* Every operation, by someone who may and by someone who may just not, on   *)
(* two targets; by a command where one meets HTTP requests on its target;    *)
(* and one that is redirected, though it has no key.                         *)
Everyone ==
    {Ask("link", "eth", "admin", "ok"), Ask("link", "eth", "operator", "ok"),
     Ask("link", "eth", "shell", "ok"), Ask("dhcp", "eth", "admin", "ok"),
     Ask("kill", "pid", "operator", "ok"), Ask("kill", "pid", "viewer", "ok"),
     Ask("kill", "pid", "shell", "bad"), Ask("acl", "pid", "operator", "bad"),
     Ask("power", "pid", "admin", "odd"), Ask("user", "eth", "operator", "ok"),
     Ask("user", "eth", "shell", "ok"), Ask("share", "eth", "operator", "ok"),
     Ask("file", "pid", "operator", "ok"), Ask("read", "eth", "viewer", "ok"),
     Ask("read", "eth", "none", "ok"), Ask("mount", "eth", "none", "unclean")}

Symmetry == Permutations(Handlers)
=============================================================================
