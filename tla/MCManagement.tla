---------------------------- MODULE MCManagement ----------------------------
(* A small instance of Management: two slots, three identifiers, two         *)
(* protocols of which one is probed before a connect, one host.              *)
EXTENDS Management

CONSTANTS c1, c2, c3, s1, s2, ssh, kubernetes, hostA

MCIds        == {c1, c2, c3}
TwoIds       == {c1, c2}
MCSessionIds == {s1, s2}
OneSessionId == {s1}
OneProtocol  == {ssh}
MCProtocols  == {ssh, kubernetes}
MCSupported  == {ssh, kubernetes}
MCProbeless  == {kubernetes}
MCTargets    == {hostA}

Object(id, p, t) == [id |-> id, proto |-> p, target |-> t, used |-> FALSE]

NoStore     == {<<>>}
OneStored   == {<<Object(c1, ssh, hostA)>>}

\* No store yet; a full store; a store whose first object names no host.
MCInitialFiles ==
    {<<>>,
     <<Object(c1, ssh, hostA), Object(c2, kubernetes, hostA)>>,
     <<Object(c1, ssh, Nil), Object(c2, ssh, hostA)>>}
=============================================================================
