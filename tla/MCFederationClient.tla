------------------------- MODULE MCFederationClient -------------------------
(***************************************************************************)
(* An instance of FederationClient for TLC.                                *)
(***************************************************************************)
EXTENDS FederationClient

CONSTANTS f, g, a, u, v, w, x, y, z

At(federation, cfr, endpoint) ==
    [federation |-> federation, authority |-> a, cfr |-> cfr, endpoint |-> endpoint]

\* Two clients of the federation the authority serves, and one that has pinned another.
OneServer == {[federation |-> f, authority |-> a]}
Clients == {At(f, u, x), At(f, v, y), At(g, w, z)}

M(cfr, endpoint) == [cfr |-> cfr, endpoint |-> endpoint]

\* Three members; v gone and w moved to its endpoint; and the lists validate refuses:
\* an endpoint twice, a participant twice, too many members.
Lists ==
    {<<M(w, z), M(u, x), M(v, y)>>, <<M(u, x), M(w, y)>>,
     <<M(u, x), M(v, x)>>, <<M(u, x), M(u, y)>>,
     <<M(u, x), M(v, y), M(w, z), M(w, z)>>}

\* Connections the application of client u could try to insert from its endpoint: an
\* established one to each other endpoint, and one of each kind insert or route refuses.
L(federation, remote, established) ==
    [federation |-> federation, local |-> x, remote |-> remote, established |-> established]
Links == {L(f, y, TRUE), L(f, z, TRUE), L(f, y, FALSE), L(g, y, TRUE)}
=============================================================================
