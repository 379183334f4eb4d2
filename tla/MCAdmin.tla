------------------------------ MODULE MCAdmin -------------------------------
EXTENDS AdminApp

CONSTANTS c1, c2

TwoConns == {c1, c2}
=============================================================================
