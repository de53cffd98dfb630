----------------------------- MODULE MCFrontend -----------------------------
EXTENDS Frontend, TLC

\* Two agents, a ticker of 3; at 8 s the timeout covers one loss, at 3 s (the
\* default of the command line) not even one interval and its delay.
MCKey == ("nas1" :> "nas1|:7070" @@ "nas2" :> "nas2|:7070")

\* Ints of 4 bits: (5 - 1) * 7 is beyond them.
MCPages == {-1, 0, 1, 2, 3, 5}
MCLimits == {-1, 0, 1, 2, 3, 7}
=============================================================================
