----------------------------- MODULE MCSessionID -----------------------------
(* Instances of SessionID for TLC: who calls what.                          *)
EXTENDS SessionID, FiniteSets

CONSTANTS p1, p2, w1, w2, s1, s2, h1, h2

Ask(t, o, s) == [by |-> t, op |-> o, sid |-> s, names |-> <<>>, flag |-> FALSE]
Name(t, o, s, n) == [Ask(t, o, s) EXCEPT !.names = n]

(* One thread polls for both sessions, one posts, clears and edits.         *)
OnePoller ==
    {Ask(p1, "read", s) : s \in {s1, s2}}
        \cup {Ask(w1, "write", s1), Ask(w1, "clear", s1), Ask(w1, "clearsid", s1),
              Name(w1, "hostinfo", s1, <<h1>>)}

(* Two io threads poll for the same session, and two edit its host list     *)
(* while one of them posts as well.                                         *)
SharedPollers ==
    {Ask(t, "read", s1) : t \in {p1, p2}}
        \cup {Name(t, "push", s1, <<h1, h2>>) : t \in {w1, w2}}
        \cup {Ask(p2, "get", s1), Ask(w1, "write", s1), Ask(w1, "clear", s1),
              Ask(w2, "clearsid", s1), [Ask(w2, "kill", s1) EXCEPT !.flag = TRUE]}

Both == {s1, s2}
One == {s1}
=============================================================================
