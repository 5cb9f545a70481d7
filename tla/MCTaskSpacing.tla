--------------------------- MODULE MCTaskSpacing ---------------------------
(* Model checking TaskSpacing: three runs of one provider.  Runs of several *)
(* providers share no row; the theorems cover them.                         *)
EXTENDS TaskSpacing

CONSTANTS r1, r2, r3, p1

TheRuns == {r1, r2, r3}
TheProviders == {p1}
TheProviderOf == [r \in TheRuns |-> p1]
=============================================================================
