----------------------------- MODULE MCDispatch -----------------------------
EXTENDS Dispatch

CONSTANTS r1, r2, p1

TwoRuns  == {r1, r2}
OnePost  == {p1}
=============================================================================
