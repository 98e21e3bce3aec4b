----------------------------- MODULE MCAccess -----------------------------
(* Small instances of Access.  Connections and requests are alike. *)
EXTENDS Access, TLC

CONSTANTS p1, c1, t1, t2, q1

MCPeople   == {p1}
MCClients  == {c1}
MCTxs      == {t1, t2}
MCRequests == {q1}

MCSymmetry == Permutations(MCTxs)
=============================================================================
