----------------------------- MODULE MCGateway ------------------------------
(* Small instances of Gateway.  One protocol and one host are enough: the    *)
(* identifiers tell connections, and so their parameters, apart.             *)
EXTENDS Gateway

CONSTANTS c1, c2, s1, s2, ssh, hostA, t1

OneId        == {c1}
TwoIds       == {c1, c2}
MCSessionIds == {s1, s2}
OneSessionId == {s1}
OneProtocol  == {ssh}
OneHost      == {hostA}
OneThread    == {t1}

Object(id, p, t) == [id |-> id, proto |-> p, target |-> t, used |-> FALSE]

OneStored    == {<<Object(c1, ssh, hostA)>>}
FullStore    == {<<Object(c1, ssh, hostA), Object(c2, ssh, hostA)>>}
=============================================================================
