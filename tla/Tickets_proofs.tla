--------------------------- MODULE Tickets_proofs ---------------------------
(* Proofs about the tunnel tickets, for any number of tickets and requests. *)
EXTENDS Tickets, TLAPS

USE DEF vars, ipc, clients, Time, Expiries, Known

\* The tunnel starts with well typed variables.
LEMMA TypeInit == Init => TypeOK
<1> SUFFICES ASSUME Init PROVE TypeOK
  OBVIOUS
<1>1. DOMAIN told = {}
  BY DEF Init
<1>2. \A v \in Known : told[v] \in Expiries
  BY <1>1
<1>3. now \in Time /\ when \in [Clients -> Time]
  BY TimeAssumption DEF Init
<1>4. /\ client \in [Clients -> {"new", "served", "refused"}]
      /\ shown \in [Clients -> Values \cup {Nil}]
      /\ granted \in [Clients -> Connections \cup {Nil}]
  BY DEF Init
<1>5. QED
  BY <1>1, <1>2, <1>3, <1>4 DEF Init, TypeOK

\* Every step of the tunnel keeps the types.
LEMMA TypeStep == TypeOK /\ [Next]_vars => TypeOK'
<1> USE TimeAssumption, NilAssumption
<1> SUFFICES ASSUME TypeOK, [Next]_vars PROVE TypeOK'
  OBVIOUS
<1>1. CASE Tick
  BY <1>1 DEF Tick, TypeOK
<1>2. ASSUME NEW v \in Values, NEW u \in Users, NEW c \in Connections,
             Build(v, u, c)
      PROVE  TypeOK'
  BY <1>2 DEF Build, TypeOK, Ticket
<1>3. CASE Insert
  BY <1>3 DEF Insert, TypeOK, Prune
<1>4. CASE Answer
  BY <1>4 DEF Answer, TypeOK, Ticket
<1>5. ASSUME NEW w \in Clients, NEW v \in Known \cup {Nil}, Serve(w, v)
      PROVE  TypeOK'
  BY <1>5 DEF Serve, TypeOK, Ticket, Prune
<1>6. ASSUME NEW w \in Clients, NEW v \in Known \cup {Nil}, Refuse(w, v)
      PROVE  TypeOK'
  BY <1>6 DEF Refuse, TypeOK, Prune
<1>7. CASE Cleanup
  BY <1>7 DEF Cleanup, TypeOK
<1>8. CASE UNCHANGED vars
  BY <1>8 DEF TypeOK
<1>9. QED
  BY <1>1, <1>2, <1>3, <1>4, <1>5, <1>6, <1>7, <1>8 DEF Next

\* The types hold in every reachable state.
THEOREM TypeCorrect == Spec => []TypeOK
  BY TypeInit, TypeStep, PTL DEF Spec

-----------------------------------------------------------------------------
(* The inductive invariant.                                                *)

\* A ticket is one that was asked for, with the expiry that follows.
IssuedAs(k) ==
    \E a \in asked :
        a.value = k.value /\ a.conn = k.conn /\ k.expires = a.at + Ttl

\* Nothing is asked for twice, and tickets, the one being issued included,
\* are what was asked for.
Genuine ==
    /\ \A a, b \in asked : a.value = b.value => a = b
    /\ issuing # "idle" => IssuedAs(item)
    /\ \A k \in tickets : IssuedAs(k)
    /\ \A v \in Known : v \in Minted

\* A value is in one place at a time: about to be listed, on the list once,
\* or used up by one request.
OnePlace ==
    /\ \A k, l \in tickets : k.value = l.value => k = l
    /\ issuing = "built" => \A k \in tickets : k.value # item.value
    /\ issuing # "idle" => item.value \notin Known
    /\ \A w \in Clients : Served(w) =>
          /\ shown[w] \in Known
          /\ \A k \in tickets : k.value # shown[w]

IInv == TypeOK /\ Genuine /\ OnePlace /\ SingleUse /\ GrantAsIssued

\* The inductive invariant holds before the first ticket is issued.
LEMMA InitIInv == Init => IInv
<1> SUFFICES ASSUME Init PROVE IInv
  OBVIOUS
<1>1. TypeOK
  BY TypeInit
<1>2. DOMAIN told = {}
  BY DEF Init
<1>3. \A w \in Clients : ~Served(w)
  BY DEF Init, Served
<1>4. asked = {} /\ tickets = {} /\ issuing = "idle"
  BY DEF Init
<1>5. Genuine
  BY <1>2, <1>4 DEF Genuine
<1>6. OnePlace
  BY <1>3, <1>4 DEF OnePlace
<1>7. SingleUse /\ GrantAsIssued
  BY <1>3 DEF SingleUse, GrantAsIssued
<1>8. QED
  BY <1>1, <1>5, <1>6, <1>7 DEF IInv

\* Building a ticket keeps the inductive invariant: its value is new.
LEMMA BuildIInv ==
  ASSUME IInv, TypeOK', NEW v \in Values, NEW u \in Users,
         NEW c \in Connections, Build(v, u, c)
  PROVE  IInv'
<1> DEFINE a0 == [value |-> v, user |-> u, conn |-> c, at |-> now]
<1> USE DEF IInv, Build, Served
<1>1. asked' = asked \cup {a0} /\ \A a \in asked : a.value # v
  BY DEF Minted
<1>2. Genuine'
  <2>1. (\A a, b \in asked : a.value = b.value => a = b)'
    BY <1>1 DEF Genuine
  <2>2. IssuedAs(item)'
    <3>1. /\ a0 \in asked' /\ a0.value = item'.value /\ a0.conn = item'.conn
          /\ item'.expires = a0.at + Ttl
      BY <1>1
    <3>2. QED
      BY <3>1 DEF IssuedAs
  <2>3. (\A k \in tickets : IssuedAs(k))'
    BY <1>1 DEF Genuine, IssuedAs
  <2>4. QED
    BY <2>1, <2>2, <2>3, <1>1 DEF Genuine, Minted
<1>3. OnePlace'
  <2>1. \A k \in tickets : k.value # v
    BY DEF Genuine, IssuedAs, Minted
  <2>2. v \notin Known
    BY DEF Genuine
  <2>3. QED
    BY <2>1, <2>2 DEF OnePlace
<1>4. SingleUse'
  BY DEF SingleUse
<1>5. GrantAsIssued'
  BY <1>1 DEF GrantAsIssued
<1>6. QED
  BY <1>2, <1>3, <1>4, <1>5

\* Pruning the list and inserting the new ticket keep it.
LEMMA InsertIInv ==
  ASSUME IInv, TypeOK', Insert
  PROVE  IInv'
<1> USE DEF IInv, Insert, Served
<1>1. tickets' \subseteq tickets \cup {item}
  BY DEF Prune
<1>2. Genuine'
  BY <1>1 DEF Genuine, IssuedAs, Minted
<1>3. OnePlace'
  BY <1>1 DEF OnePlace
<1>4. SingleUse' /\ GrantAsIssued'
  BY DEF SingleUse, GrantAsIssued
<1>5. QED
  BY <1>2, <1>3, <1>4

\* The reply to an issue keeps it, whatever expiry the reply reports.
LEMMA AnswerIInv ==
  ASSUME IInv, TypeOK', Answer
  PROVE  IInv'
<1> USE DEF IInv, Answer, Served
<1>1. DOMAIN told' = DOMAIN told \cup {item.value}
  OBVIOUS
<1>2. item.value \in Minted
  BY DEF Genuine, IssuedAs, Minted
<1>3. Genuine'
  BY <1>1, <1>2 DEF Genuine, IssuedAs, Minted
<1>4. OnePlace'
  BY <1>1 DEF OnePlace
<1>5. SingleUse' /\ GrantAsIssued'
  BY DEF SingleUse, GrantAsIssued
<1>6. QED
  BY <1>3, <1>4, <1>5

\* The critical step: the ticket that serves one request leaves the list, and
\* no request before it was served with that value.
LEMMA ServeIInv ==
  ASSUME IInv, TypeOK', NEW w \in Clients, NEW v \in Known \cup {Nil},
         Serve(w, v)
  PROVE  IInv'
<1> USE DEF IInv, Serve, Served
<1>1. PICK k \in Prune(tickets) :
          /\ k.value = v
          /\ tickets' = Prune(tickets) \ {k}
          /\ granted' = [granted EXCEPT ![w] = k.conn]
  OBVIOUS
<1>2. k \in tickets /\ k.expires > now /\ tickets' \subseteq tickets \ {k}
  BY <1>1 DEF Prune
<1>3. v \in Known
  BY <1>1, <1>2, NilAssumption DEF TypeOK, Ticket
<1>4. \A x \in Clients : x # w =>
          /\ client'[x] = client[x] /\ shown'[x] = shown[x]
          /\ granted'[x] = granted[x] /\ when'[x] = when[x]
  BY <1>1 DEF TypeOK
<1>5. /\ client'[w] = "served" /\ shown'[w] = v
      /\ granted'[w] = k.conn /\ when'[w] = now
  BY <1>1 DEF TypeOK
<1>6. Genuine'
  BY <1>2 DEF Genuine, IssuedAs, Minted
<1>7. OnePlace'
  <2>1. \A l \in tickets' : l.value # v
    BY <1>1, <1>2 DEF OnePlace
  <2>2. QED
    BY <2>1, <1>2, <1>3, <1>4, <1>5 DEF OnePlace
<1>8. SingleUse'
  <2>1. \A x \in Clients : Served(x) => shown[x] # v
    BY <1>1, <1>2 DEF OnePlace
  <2>2. QED
    BY <2>1, <1>4, <1>5 DEF SingleUse
<1>9. GrantAsIssued'
  <2>1. \E a \in asked : a.value = v /\ a.conn = k.conn /\ now < a.at + Ttl
    BY <1>1, <1>2 DEF Genuine, IssuedAs
  <2>2. QED
    BY <2>1, <1>4, <1>5 DEF GrantAsIssued
<1>10. QED
  BY <1>6, <1>7, <1>8, <1>9

\* Refusing a request, which prunes, keeps it.
LEMMA RefuseIInv ==
  ASSUME IInv, TypeOK', NEW w \in Clients, NEW v \in Known \cup {Nil},
         Refuse(w, v)
  PROVE  IInv'
<1> USE DEF IInv, Refuse, Served
<1>1. tickets' \subseteq tickets
  BY DEF Prune
<1>2. \A x \in Clients : client'[x] = "served" =>
          /\ client[x] = "served" /\ shown'[x] = shown[x]
          /\ granted'[x] = granted[x] /\ when'[x] = when[x]
  BY DEF TypeOK
<1>3. Genuine'
  BY <1>1 DEF Genuine, IssuedAs, Minted
<1>4. OnePlace'
  BY <1>1, <1>2 DEF OnePlace
<1>5. SingleUse' /\ GrantAsIssued'
  BY <1>2 DEF SingleUse, GrantAsIssued
<1>6. QED
  BY <1>3, <1>4, <1>5

\* So do the clock and the cleanup.
LEMMA OtherIInv ==
  ASSUME IInv, TypeOK', Tick \/ Cleanup \/ UNCHANGED vars
  PROVE  IInv'
<1> USE DEF IInv, Tick, Cleanup, Served
<1>1. tickets' \subseteq tickets
  OBVIOUS
<1>2. QED
  BY <1>1 DEF Genuine, IssuedAs, Minted, OnePlace, SingleUse, GrantAsIssued

\* Every step keeps the inductive invariant.
LEMMA IInvStep == IInv /\ [Next]_vars => IInv'
<1> SUFFICES ASSUME IInv, [Next]_vars PROVE IInv'
  OBVIOUS
<1>1. TypeOK'
  BY TypeStep DEF IInv
<1>2. QED
  BY <1>1, BuildIInv, InsertIInv, AnswerIInv, ServeIInv, RefuseIInv,
     OtherIInv DEF Next

\* The inductive invariant of the tickets holds in every state.
THEOREM Inductive == Spec => []IInv
  BY InitIInv, IInvStep, PTL DEF Spec

\* No two requests are ever served with the same ticket.
THEOREM TicketsAreSingleUse == Spec => []SingleUse
<1>1. IInv => SingleUse
  BY DEF IInv
<1>2. QED
  BY <1>1, Inductive, PTL

\* A request is served only for the connection its ticket was asked for, and
\* only before the ticket is Ttl old.
THEOREM TicketsAreBound == Spec => []GrantAsIssued
<1>1. IInv => GrantAsIssued
  BY DEF IInv
<1>2. QED
  BY <1>1, Inductive, PTL

-----------------------------------------------------------------------------
(* What the reply to an issue says.  Listing and the inductive invariant      *)
(* give it: between the listing of a ticket and the reply, no other ticket   *)
(* with its value is on the list.                                            *)

Listing ==
    issuing = "listed" => \A k \in tickets : k.value = item.value => k = item

\* Every step keeps both; the reply itself is the step that matters.
LEMMA ToldStep ==
  ASSUME IInv, Listing, ListedAsTold, [Next]_vars
  PROVE  Listing' /\ ListedAsTold'
<1> USE DEF Listing, ListedAsTold
<1>1. CASE Tick \/ Cleanup \/ UNCHANGED vars
  BY <1>1 DEF Tick, Cleanup
<1>2. ASSUME NEW v \in Values, NEW u \in Users, NEW c \in Connections,
             Build(v, u, c)
      PROVE  Listing' /\ ListedAsTold'
  BY <1>2 DEF Build
<1>3. CASE Insert
  <2>1. tickets' \subseteq tickets \cup {item} /\ UNCHANGED <<item, told>>
    BY <1>3 DEF Insert, Prune
  <2>2. item.value \notin Known /\ \A k \in tickets : k.value # item.value
    BY <1>3 DEF Insert, IInv, OnePlace
  <2>3. QED
    BY <2>1, <2>2
<1>4. CASE Answer
  <2>1. PICK e \in IF item \in tickets THEN {item.expires} ELSE Expiries :
          told' = [v \in Known \cup {item.value} |->
                      IF v = item.value THEN e ELSE told[v]]
    BY <1>4 DEF Answer
  <2>2. issuing' = "idle" /\ tickets' = tickets /\ issuing = "listed"
    BY <1>4 DEF Answer
  <2>3. \A k \in tickets : k.value = item.value => k = item
    BY <2>2
  <2>4. ASSUME NEW k \in tickets, k.value \in DOMAIN told'
        PROVE  told'[k.value] = k.expires
    <3>1. CASE k.value = item.value
      <4>1. k = item /\ item \in tickets
        BY <3>1, <2>3
      <4>2. e = item.expires
        BY <4>1
      <4>3. QED
        BY <2>1, <3>1, <4>1, <4>2
    <3>2. CASE k.value # item.value
      BY <2>1, <2>4, <3>2
    <3>3. QED
      BY <3>1, <3>2
  <2>5. QED
    BY <2>2, <2>4
<1>5. ASSUME NEW w \in Clients, NEW v \in Known \cup {Nil},
             Serve(w, v) \/ Refuse(w, v)
      PROVE  Listing' /\ ListedAsTold'
  <2>1. tickets' \subseteq tickets
    BY <1>5 DEF Serve, Refuse, Prune
  <2>2. UNCHANGED <<issuing, item, told>>
    BY <1>5 DEF Serve, Refuse
  <2>3. QED
    BY <2>1, <2>2
<1>6. QED
  BY <1>1, <1>2, <1>3, <1>4, <1>5 DEF Next

\* A ticket that can still be used was reported with its own expiry.
THEOREM TicketsAreTold == Spec => []ListedAsTold
<1> DEFINE TInv == IInv /\ Listing /\ ListedAsTold
<1>1. Init => TInv
  BY InitIInv DEF Init, Listing, ListedAsTold
<1>2. TInv /\ [Next]_vars => TInv'
  BY IInvStep, ToldStep
<1>3. TInv => ListedAsTold
  OBVIOUS
<1> HIDE DEF TInv
<1>4. QED
  BY <1>1, <1>2, <1>3, PTL DEF Spec

-----------------------------------------------------------------------------
(* Why a request is refused.  A value that a client was told is on the list  *)
(* or gone for a reason; a refusal finds it is not on the list.              *)

Old(v)  == \E a \in asked : a.value = v /\ now >= a.at + Ttl
Used(v) == \E x \in Clients : Served(x) /\ shown[x] = v

Accounted(v) == (\E k \in tickets : k.value = v) \/ Old(v) \/ Used(v) \/ stopped

AllAccounted ==
    /\ \A v \in Known : Accounted(v)
    /\ issuing = "listed" => Accounted(item.value)

\* What is pruned is old.
LEMMA PrunedIsOld ==
  ASSUME IInv, NEW k \in tickets, k \notin Prune(tickets)
  PROVE  Old(k.value)
<1>1. now >= k.expires
  BY TimeAssumption DEF IInv, TypeOK, Ticket, Prune
<1>2. PICK a \in asked : a.value = k.value /\ k.expires = a.at + Ttl
  BY DEF IInv, Genuine, IssuedAs
<1>3. QED
  BY <1>1, <1>2 DEF Old

\* A step that prunes, and takes at most one ticket besides, loses no value.
LEMMA PruneAccounts ==
  ASSUME IInv, NEW v, Accounted(v), now' = now, asked' = asked,
         stopped' = stopped,
         \A k \in Prune(tickets) : k \in tickets' \/ Used(k.value)',
         \A x \in Clients : Served(x) => Served(x)' /\ shown'[x] = shown[x]
  PROVE  Accounted(v)'
<1>1. CASE \E k \in tickets : k.value = v
  <2>1. PICK k \in tickets : k.value = v
    BY <1>1
  <2>2. CASE k \in Prune(tickets)
    BY <2>1, <2>2 DEF Accounted
  <2>3. CASE k \notin Prune(tickets)
    BY <2>1, <2>3, PrunedIsOld DEF Accounted, Old
  <2>4. QED
    BY <2>2, <2>3
<1>2. CASE Old(v) \/ stopped
  BY <1>2 DEF Accounted, Old
<1>3. CASE Used(v)
  BY <1>3 DEF Accounted, Used
<1>4. QED
  BY <1>1, <1>2, <1>3 DEF Accounted

\* Every step keeps every value accounted for.
LEMMA AccountedStep ==
  ASSUME IInv, AllAccounted, [Next]_vars
  PROVE  AllAccounted'
<1>1. CASE Tick
  <2>1. \A v : Old(v) => Old(v)'
    <3>1. now \in Int /\ Ttl \in Int /\ \A a \in asked : a.at \in Int
      BY TimeAssumption DEF IInv, TypeOK
    <3>2. now' = now + 1 /\ asked' = asked
      BY <1>1 DEF Tick
    <3>3. QED
      BY <3>1, <3>2 DEF Old
  <2>2. \A v : Accounted(v) => Accounted(v)'
    BY <1>1, <2>1 DEF Tick, Accounted, Used, Served
  <2>3. QED
    BY <1>1, <2>2 DEF Tick, AllAccounted
<1>2. ASSUME NEW v \in Values, NEW u \in Users, NEW c \in Connections,
             Build(v, u, c)
      PROVE  AllAccounted'
  BY <1>2 DEF Build, AllAccounted, Accounted, Old, Used, Served
<1>3. CASE Insert
  <2>1. /\ Prune(tickets) \subseteq tickets' /\ item \in tickets'
        /\ issuing' = "listed"
        /\ UNCHANGED <<now, asked, stopped, told, item, client, shown>>
    BY <1>3 DEF Insert
  <2>2. \A v : Accounted(v) => Accounted(v)'
    BY <2>1, PruneAccounts DEF Served
  <2>3. Accounted(item.value)'
    BY <2>1 DEF Accounted
  <2>4. QED
    BY <2>1, <2>2, <2>3 DEF AllAccounted
<1>4. CASE Answer
  <2>1. /\ DOMAIN told' = Known \cup {item.value}
        /\ issuing = "listed" /\ issuing' = "idle"
        /\ UNCHANGED <<now, asked, stopped, tickets, client, shown>>
    BY <1>4 DEF Answer
  <2>2. \A v : Accounted(v) => Accounted(v)'
    BY <2>1 DEF Accounted, Old, Used, Served
  <2>3. QED
    BY <2>1, <2>2 DEF AllAccounted
<1>5. ASSUME NEW w \in Clients, NEW v \in Known \cup {Nil}, Serve(w, v)
      PROVE  AllAccounted'
  <2>1. PICK k \in Prune(tickets) :
          k.value = v /\ tickets' = Prune(tickets) \ {k}
    BY <1>5 DEF Serve
  <2>2. /\ client[w] = "new" /\ client'[w] = "served" /\ shown'[w] = v
        /\ \A x \in Clients : x # w =>
              client'[x] = client[x] /\ shown'[x] = shown[x]
    BY <1>5 DEF Serve, IInv, TypeOK
  <2>3. Used(v)'
    BY <2>2 DEF Used, Served
  <2>4. \A l \in Prune(tickets) : l \in tickets' \/ Used(l.value)'
    BY <2>1, <2>3
  <2>5. UNCHANGED <<now, asked, stopped, told, issuing, item>>
    BY <1>5 DEF Serve
  <2>6. \A x \in Clients : Served(x) => Served(x)' /\ shown'[x] = shown[x]
    BY <2>2 DEF Served
  <2>7. \A u : Accounted(u) => Accounted(u)'
    BY <2>4, <2>5, <2>6, PruneAccounts
  <2>8. QED
    BY <2>5, <2>7 DEF AllAccounted
<1>6. ASSUME NEW w \in Clients, NEW v \in Known \cup {Nil}, Refuse(w, v)
      PROVE  AllAccounted'
  <2>1. /\ tickets' = Prune(tickets)
        /\ UNCHANGED <<now, asked, stopped, told, issuing, item>>
    BY <1>6 DEF Refuse
  <2>2. \A x \in Clients : Served(x) => Served(x)' /\ shown'[x] = shown[x]
    BY <1>6 DEF Refuse, IInv, TypeOK, Served
  <2>3. \A u : Accounted(u) => Accounted(u)'
    BY <2>1, <2>2, PruneAccounts
  <2>4. QED
    BY <2>1, <2>3 DEF AllAccounted
<1>7. CASE Cleanup
  BY <1>7 DEF Cleanup, AllAccounted, Accounted
<1>8. CASE UNCHANGED vars
  BY <1>8 DEF AllAccounted, Accounted, Old, Used, Served
<1>9. QED
  BY <1>1, <1>2, <1>3, <1>4, <1>5, <1>6, <1>7, <1>8 DEF Next

\* A refusal meets a value that is accounted for and not on the list.
LEMMA RefusedStep ==
  ASSUME IInv, AllAccounted, RefusedForAReason, [Next]_vars
  PROVE  RefusedForAReason'
<1>1. ASSUME NEW w \in Clients, NEW v \in Known \cup {Nil}, Refuse(w, v)
      PROVE  RefusedForAReason'
  <2>1. /\ client'[w] = "refused" /\ shown'[w] = v /\ when'[w] = now
        /\ client[w] = "new"
        /\ \A x \in Clients : x # w =>
              /\ client'[x] = client[x] /\ shown'[x] = shown[x]
              /\ when'[x] = when[x]
        /\ UNCHANGED <<asked, stopped>>
        /\ \A k \in Prune(tickets) : k.value # v
    BY <1>1 DEF Refuse, IInv, TypeOK
  <2>2. \/ v = Nil
        \/ Old(v) \/ Used(v) \/ stopped
    <3>1. CASE \E k \in tickets : k.value = v
      BY <3>1, <2>1, PrunedIsOld
    <3>2. CASE v \in Known /\ ~ \E k \in tickets : k.value = v
      BY <3>2 DEF AllAccounted, Accounted
    <3>3. QED
      BY <3>1, <3>2
  <2>3. \A u : Used(u) => \E x \in Clients : Served(x)' /\ shown'[x] = u
    BY <2>1 DEF Used, Served
  <2>4. QED
    BY <2>1, <2>2, <2>3 DEF RefusedForAReason, Old, Used
<1>2. ASSUME NEW w \in Clients, NEW v \in Known \cup {Nil}, Serve(w, v)
      PROVE  RefusedForAReason'
  <2>1. /\ client[w] = "new" /\ client'[w] = "served"
        /\ \A x \in Clients : x # w =>
              /\ client'[x] = client[x] /\ shown'[x] = shown[x]
              /\ when'[x] = when[x]
        /\ UNCHANGED <<asked, stopped>>
    BY <1>2 DEF Serve, IInv, TypeOK
  <2>2. QED
    BY <2>1 DEF RefusedForAReason, Served
<1>3. CASE Tick \/ Insert \/ Answer \/ UNCHANGED vars
  BY <1>3 DEF Tick, Insert, Answer, RefusedForAReason, Served
<1>4. CASE Cleanup
  BY <1>4 DEF Cleanup, RefusedForAReason
<1>5. ASSUME NEW v \in Values, NEW u \in Users, NEW c \in Connections,
             Build(v, u, c)
      PROVE  RefusedForAReason'
  BY <1>5 DEF Build, RefusedForAReason, Served
<1>6. QED
  BY <1>1, <1>2, <1>3, <1>4, <1>5 DEF Next

\* No request is refused with a ticket that is still good, unless the service
\* is stopping.
THEOREM RefusalsHaveAReason == Spec => []RefusedForAReason
<1> DEFINE RInv == IInv /\ AllAccounted /\ RefusedForAReason
<1>1. Init => RInv
  <2>1. Init => AllAccounted
    BY DEF Init, AllAccounted
  <2>2. Init => RefusedForAReason
    BY DEF Init, RefusedForAReason
  <2>3. QED
    BY <2>1, <2>2, InitIInv
<1>2. RInv /\ [Next]_vars => RInv'
  BY IInvStep, AccountedStep, RefusedStep
<1>3. RInv => RefusedForAReason
  OBVIOUS
<1> HIDE DEF RInv
<1>4. QED
  BY <1>1, <1>2, <1>3, PTL DEF Spec
=============================================================================
