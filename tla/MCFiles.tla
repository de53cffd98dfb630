------------------------------ MODULE MCFiles ------------------------------
(***************************************************************************)
(* An instance of Files for TLC: a directory /d with a file /d/e of two     *)
(* blocks, a file /f of one, and requests that meet each way of admitting,  *)
(* refusing, succeeding and failing.                                       *)
(***************************************************************************)
EXTENDS Files, TLC

Symmetry == Permutations(Workers)

root == <<>>
d == <<"d">>
f == <<"f">>
de == <<"d", "e">>
h == <<"h">>
dg == <<"d", "g">>
MCPaths == {root, d, f, h, de, dg, <<"h", "e">>, <<"h", "g">>}
MCInodes == 1..5
MCData == {<<3>>, <<4, 5>>}

MCNode == [p \in MCPaths |->
    IF p = de THEN 1 ELSE IF p = f THEN 2
    ELSE IF p \in {root, d} THEN Dir ELSE Absent]
MCContent == [i \in MCInodes |->
    IF i = 1 THEN <<1, 2>> ELSE IF i = 2 THEN <<3>> ELSE <<>>]

Ask(op, src, dst) ==
    [front |-> "http", role |-> "operator", root |-> root, valid |-> TRUE,
     op |-> op, src |-> src, dst |-> dst, recursive |-> FALSE, data |-> <<4, 5>>]
Cli(r) == [r EXCEPT !.front = "cli", !.role = "none"]
As(r, role) == [r EXCEPT !.role = role]
Recursively(r) == [r EXCEPT !.recursive = TRUE]

Changes == {
    Ask("write", f, f), Ask("write", d, d),
    Cli([Ask("write", dg, dg) EXCEPT !.data = <<3>>]),
    Ask("mkdir", dg, dg), Cli(Ask("mkdir", de, de)),
    Ask("remove", f, f), Cli(Ask("remove", d, d)),
    Recursively(Ask("remove", d, d)),
    Ask("move", f, dg), Ask("move", d, h), Cli(Ask("move", de, f)),
    Ask("copy", de, f), Cli(Ask("copy", f, dg)),
    Ask("copy", d, f), Cli(Ask("copy", f, f))}
Refused == {
    As(Ask("write", f, f), "viewer"), As(Ask("remove", f, f), "none"),
    [Ask("copy", de, f) EXCEPT !.valid = FALSE],
    [Cli(Ask("move", de, f)) EXCEPT !.root = d]}
Looks == {As(Ask("read", f, f), "viewer"), Ask("list", d, d)}
MCRequests == Changes \cup Refused \cup Looks
=============================================================================
