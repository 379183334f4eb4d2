--------------------------- MODULE AdminApp_proofs --------------------------
(* What the viewer of the admin app shows and which session a connect opens, *)
(* for any number of connections, sessions and requests under way.           *)
EXTENDS AdminApp, TLAPS, WellFoundedInduction, FiniteSetTheorems

USE DEF vars, service, screen, app

-----------------------------------------------------------------------------
(* The inductive invariant.                                                  *)

\* Every request under way has the fields of one.
Shape(r) ==
    \E op, arg, for, about, was, current, answer :
        r = [op |-> op, arg |-> arg, for |-> for, about |-> about,
             was |-> was, current |-> current, answer |-> answer]

\* A ticket of the current generation is for the connection selected last.
CurrentIsWanted(r) == r.op = "ticket" /\ r.current => r.arg = wanted

Calls == \A n \in Slot : calls[n] # Nil => Shape(calls[n]) /\ CurrentIsWanted(calls[n])

VInv ==
    /\ DOMAIN calls = Slot
    /\ Calls
    /\ ViewerShowsWanted

-----------------------------------------------------------------------------
(* Requests.                                                                 *)

\* A new request has the fields of one.
LEMMA RequestShape ==
  ASSUME NEW op, NEW arg, NEW for, NEW about
  PROVE  /\ Shape(Request(op, arg, for, about))
         /\ Request(op, arg, for, about).op = op
         /\ Request(op, arg, for, about).arg = arg
         /\ Request(op, arg, for, about).for = for
         /\ Request(op, arg, for, about).about = about
         /\ Request(op, arg, for, about).answer = Nil
  BY DEF Request, Shape

\* An answer, the mark of a disconnect, and a new generation leave the other
\* fields of a request as they are.
LEMMA FieldKeeps ==
  ASSUME NEW r, Shape(r), NEW x
  PROVE  /\ Shape([r EXCEPT !.answer = x]) /\ [r EXCEPT !.answer = x].op = r.op
         /\ [r EXCEPT !.answer = x].arg = r.arg
         /\ [r EXCEPT !.answer = x].current = r.current
         /\ Shape([r EXCEPT !.was = x]) /\ [r EXCEPT !.was = x].op = r.op
         /\ Shape([r EXCEPT !.current = x])
         /\ [r EXCEPT !.current = x].current = x
         /\ [r EXCEPT !.current = x].op = r.op
<1>1. PICK op, arg, for, about, was, current, answer :
        r = [op |-> op, arg |-> arg, for |-> for, about |-> about,
             was |-> was, current |-> current, answer |-> answer]
  BY DEF Shape
<1> DEFINE q(w, c, a) == [op |-> op, arg |-> arg, for |-> for, about |-> about,
                          was |-> w, current |-> c, answer |-> a]
<1>2. [r EXCEPT !.answer = x] = q(was, current, x)
  BY <1>1
<1>3. [r EXCEPT !.was = x] = q(x, current, answer)
  BY <1>1
<1>4. [r EXCEPT !.current = x] = q(was, x, answer)
  BY <1>1
<1>5. \A w, c, a : /\ Shape(q(w, c, a)) /\ q(w, c, a).op = op
                   /\ q(w, c, a).arg = arg /\ q(w, c, a).current = c
  BY DEF Shape
<1> HIDE DEF q
<1>6. r = q(was, current, answer)
  BY <1>1 DEF q
<1>7. /\ Shape([r EXCEPT !.answer = x]) /\ [r EXCEPT !.answer = x].op = r.op
      /\ [r EXCEPT !.answer = x].arg = r.arg
      /\ [r EXCEPT !.answer = x].current = r.current
  <2> DEFINE s == [r EXCEPT !.answer = x]
  <2> HIDE DEF s
  <2>1. s = q(was, current, x)
    BY <1>2 DEF s
  <2>2. /\ Shape(s) /\ s.op = r.op /\ s.arg = r.arg /\ s.current = r.current
    BY <2>1, <1>5, <1>6
  <2>3. QED
    BY <2>2 DEF s
<1>8. Shape([r EXCEPT !.was = x]) /\ [r EXCEPT !.was = x].op = r.op
  <2> DEFINE s == [r EXCEPT !.was = x]
  <2> HIDE DEF s
  <2>1. s = q(x, current, answer)
    BY <1>3 DEF s
  <2>2. Shape(s) /\ s.op = r.op
    BY <2>1, <1>5, <1>6
  <2>3. QED
    BY <2>2 DEF s
<1>9. /\ Shape([r EXCEPT !.current = x]) /\ [r EXCEPT !.current = x].current = x
      /\ [r EXCEPT !.current = x].op = r.op
  <2> DEFINE s == [r EXCEPT !.current = x]
  <2> HIDE DEF s
  <2>1. s = q(was, x, answer)
    BY <1>4 DEF s
  <2>2. Shape(s) /\ s.current = x /\ s.op = r.op
    BY <2>1, <1>5, <1>6
  <2>3. QED
    BY <2>2 DEF s
<1>10. QED
  BY <1>7, <1>8, <1>9

\* After a new generation no ticket under way is of the current one.
LEMMA OutdatedCalls ==
  ASSUME DOMAIN calls = Slot, Calls
  PROVE  /\ DOMAIN Outdated(calls) = Slot
         /\ \A n \in Slot : Outdated(calls)[n] # Nil =>
               /\ Shape(Outdated(calls)[n])
               /\ ~(Outdated(calls)[n].op = "ticket" /\ Outdated(calls)[n].current)
<1>1. ASSUME NEW n \in Slot, Outdated(calls)[n] # Nil
      PROVE  /\ Shape(Outdated(calls)[n])
             /\ ~(Outdated(calls)[n].op = "ticket" /\ Outdated(calls)[n].current)
  <2>1. CASE calls[n] # Nil /\ calls[n].op = "ticket"
    <3>1. Outdated(calls)[n] = [calls[n] EXCEPT !.current = FALSE]
      BY <2>1 DEF Outdated
    <3>2. Shape(calls[n])
      BY <2>1 DEF Calls
    <3>3. PICK x : x = FALSE
      OBVIOUS
    <3>4. /\ Shape([calls[n] EXCEPT !.current = x])
          /\ [calls[n] EXCEPT !.current = x].current = x
      BY <3>2, FieldKeeps
    <3>5. QED
      BY <3>1, <3>3, <3>4
  <2>2. CASE ~(calls[n] # Nil /\ calls[n].op = "ticket")
    <3>1. Outdated(calls)[n] = calls[n]
      BY <2>2 DEF Outdated
    <3>2. QED
      BY <1>1, <2>2, <3>1 DEF Calls
  <2>3. QED
    BY <2>1, <2>2
<1>2. QED
  BY <1>1 DEF Outdated

-----------------------------------------------------------------------------
(* The invariant is inductive.                                               *)

\* Nothing is shown, and nothing asked for, when the app has loaded.
LEMMA InitVInv == Init => VInv
  BY DEF Init, VInv, Calls, ViewerShowsWanted

\* A step that neither selects nor shows, and puts at most one request of
\* another kind, or one that had it already, in the place of a call.
LEMMA Asks ==
  ASSUME VInv, NEW n \in Slot, NEW r,
         r = Nil \/ (Shape(r) /\ r.op # "ticket"),
         calls' = [calls EXCEPT ![n] = r], UNCHANGED <<viewer, wanted>>
  PROVE  VInv'
  BY DEF VInv, Calls, CurrentIsWanted, ViewerShowsWanted

\* The viewer is closed, and a new generation begins.
LEMMA Closes ==
  ASSUME VInv, viewer' = Nil, calls' = Outdated(calls)
  PROVE  VInv'
  BY OutdatedCalls DEF VInv, Calls, CurrentIsWanted, ViewerShowsWanted

\* The answer of the service is kept with its request.
LEMMA AnswerInv ==
  ASSUME VInv, NEW n \in Slot, NEW reply, calls[n] # Nil, Answer(n, reply),
         UNCHANGED <<viewer, wanted>>
  PROVE  VInv'
<1>1. calls' = [calls EXCEPT ![n] = [calls[n] EXCEPT !.answer = reply]]
  BY DEF Answer
<1>2. Shape([calls[n] EXCEPT !.answer = reply])
      /\ CurrentIsWanted([calls[n] EXCEPT !.answer = reply])
  <2>1. Shape(calls[n]) /\ CurrentIsWanted(calls[n])
    BY DEF VInv, Calls
  <2> DEFINE s == [calls[n] EXCEPT !.answer = reply]
  <2>2. /\ Shape(s) /\ s.op = calls[n].op /\ s.arg = calls[n].arg
        /\ s.current = calls[n].current
    BY <2>1, FieldKeeps, Zenon
  <2> HIDE DEF s
  <2>3. Shape(s) /\ CurrentIsWanted(s)
    BY <2>1, <2>2 DEF CurrentIsWanted
  <2>4. QED
    BY <2>3 DEF s
<1>3. QED
  BY <1>1, <1>2 DEF VInv, Calls, CurrentIsWanted, ViewerShowsWanted

\* A session is selected: its ticket is of the current generation, and the
\* only one.
LEMMA SelectInv ==
  ASSUME VInv, NEW n \in Slot, NEW list, NEW i, SelectSession(n, list, i)
  PROVE  VInv'
<1> DEFINE r == Request("ticket", list[i].conn, "viewer", list[i].conn)
<1>1. Shape(r) /\ r.arg = wanted'
  BY RequestShape DEF SelectSession
<1> HIDE DEF r
<1>2. calls' = [Outdated(calls) EXCEPT ![n] = r] /\ viewer' = Nil
  BY DEF SelectSession, r
<1>3. /\ DOMAIN Outdated(calls) = Slot
      /\ \A m \in Slot : Outdated(calls)[m] # Nil =>
            /\ Shape(Outdated(calls)[m])
            /\ ~(Outdated(calls)[m].op = "ticket" /\ Outdated(calls)[m].current)
  BY OutdatedCalls DEF VInv
<1>4. DOMAIN calls' = Slot
  BY <1>2, <1>3
<1>5. ASSUME NEW m \in Slot, calls'[m] # Nil
      PROVE  Shape(calls'[m]) /\ CurrentIsWanted(calls[m])'
  <2>1. CASE m = n
    BY <1>1, <1>2, <1>3, <2>1 DEF CurrentIsWanted
  <2>2. CASE m # n
    <3>1. calls'[m] = Outdated(calls)[m]
      BY <1>2, <1>3, <2>2
    <3>2. QED
      BY <1>3, <1>5, <3>1 DEF CurrentIsWanted
  <2>3. QED
    BY <2>1, <2>2
<1>6. QED
  BY <1>2, <1>4, <1>5 DEF VInv, Calls, ViewerShowsWanted

\* What the service and other clients of it do.
LEMMA ServiceInv == VInv /\ (Service \/ Elsewhere) => VInv'
<1> SUFFICES ASSUME VInv, Service \/ Elsewhere PROVE VInv'
  OBVIOUS
<1>1. CASE Service
  <2>1. PICK n \in Slot : Handle(n)
    BY <1>1 DEF Service
  <2>2. \E reply : calls[n] # Nil /\ Answer(n, reply)
    <3>1. CASE AnswerList(n) \/ AnswerActive(n)
      BY <3>1, Zenon DEF AnswerList, AnswerActive, Pending
    <3>2. CASE AnswerAdd(n) \/ AnswerKnown(n)
      BY <3>2, Zenon DEF AnswerAdd, AnswerKnown, Pending
    <3>3. CASE AnswerDelete(n) \/ AnswerConnect(n)
      BY <3>3, Zenon DEF AnswerDelete, AnswerConnect, Pending
    <3>4. CASE AnswerDisconnect(n) \/ Refuse(n)
      BY <3>4, Zenon DEF AnswerDisconnect, Refuse, Pending
    <3>5. QED
      BY <2>1, <3>1, <3>2, <3>3, <3>4 DEF Handle
  <2>3. UNCHANGED <<viewer, wanted>>
    BY <1>1 DEF Service
  <2>4. QED
    BY <2>2, <2>3, AnswerInv
<1>2. CASE Elsewhere
  BY <1>2 DEF Elsewhere, Other, VInv, Calls, CurrentIsWanted, ViewerShowsWanted
<1>3. QED
  BY <1>1, <1>2

\* What the user does.
LEMMA UserInv == VInv /\ User => VInv'
<1> SUFFICES ASSUME VInv, User PROVE VInv'
  OBVIOUS
<1>1. CASE OpenAdd \/ Cancel \/ \E i \in DOMAIN connections : OpenEdit(i)
  <2>1. UNCHANGED <<calls, viewer, wanted>>
    BY <1>1 DEF OpenAdd, Cancel, OpenEdit
  <2>2. QED
    BY <2>1 DEF VInv, Calls, CurrentIsWanted, ViewerShowsWanted
<1>2. CASE ToolbarDisconnect
  BY <1>2, Closes DEF ToolbarDisconnect, CloseViewer
<1>3. ASSUME NEW n \in Slot, Reload(n) \/ Save(n) PROVE VInv'
  <2>1. \E op \in {"list", "active", "add", "update"} : \E arg, for, about :
            calls' = [calls EXCEPT ![n] = Request(op, arg, for, about)]
    BY <1>3, Zenon DEF Reload, Save, Send
  <2>2. UNCHANGED <<viewer, wanted>>
    BY <1>3 DEF Reload, Save
  <2>3. QED
    BY <2>1, <2>2, RequestShape, Asks
<1>4. ASSUME NEW n \in Slot, NEW i, RemoveRow(n, i) \/ Connect(n, i) PROVE VInv'
  <2>1. \E op \in {"delete", "connect"} : \E arg, for, about :
            calls' = [calls EXCEPT ![n] = Request(op, arg, for, about)]
    BY <1>4, Zenon DEF RemoveRow, Connect, Send
  <2>2. UNCHANGED <<viewer, wanted>>
    BY <1>4 DEF RemoveRow, Connect
  <2>3. QED
    BY <2>1, <2>2, RequestShape, Asks
<1>5. ASSUME NEW n \in Slot, NEW i, Disconnect(n, i) PROVE VInv'
  <2> DEFINE q == Request("disconnect", sessions[i].id, "disconnect",
                          sessions[i].conn)
             r == [q EXCEPT !.was = (i = selected)]
  <2>1. calls' = [calls EXCEPT ![n] = r] /\ UNCHANGED <<viewer, wanted>>
    BY <1>5, Zenon DEF Disconnect, Send, screen
  <2>2. Shape(q) /\ q.op = "disconnect"
    BY RequestShape
  <2> HIDE DEF q
  <2>3. Shape(r) /\ r.op = q.op
    BY <2>2, FieldKeeps, Zenon
  <2> HIDE DEF r
  <2>4. QED
    BY <2>1, <2>2, <2>3, Asks
<1>6. ASSUME NEW n \in Slot, NEW i, Select(n, i) PROVE VInv'
  BY <1>6, SelectInv DEF Select
<1>7. QED
  BY <1>1, <1>2, <1>3, <1>4, <1>5, <1>6, Zenon DEF User

\* What the app does with an answer: only that to a ticket shows anything, and
\* only one of the current generation.
LEMMA ContinueInv == ASSUME VInv, NEW n \in Slot, Continue(n) PROVE VInv'
<1>1. CASE Ticket(n)
  <2>1. /\ calls' = [calls EXCEPT ![n] = Nil] /\ wanted' = wanted
        /\ calls[n] # Nil /\ calls[n].op = "ticket"
        /\ viewer' = viewer \/ (calls[n].current /\ viewer' = calls[n].arg)
    BY <1>1, Zenon DEF Continue, Ticket, Done, Send
  <2>2. ViewerShowsWanted'
    BY <2>1 DEF VInv, Calls, CurrentIsWanted, ViewerShowsWanted
  <2>3. QED
    BY <2>1, <2>2 DEF VInv, Calls, CurrentIsWanted
<1>2. ASSUME UNCHANGED <<viewer, wanted>>,
             \/ calls' = [calls EXCEPT ![n] = Nil]
             \/ \E op \in {"list", "active"} : \E arg, for, about :
                   calls' = [calls EXCEPT ![n] = Request(op, arg, for, about)]
      PROVE  VInv'
  BY <1>2, RequestShape, Asks
<1>3. CASE List(n) \/ Connected(n)
  <2>1. UNCHANGED <<viewer, wanted>>
    BY <1>3 DEF List, Connected
  <2>2. \/ calls' = [calls EXCEPT ![n] = Nil]
        \/ \E op \in {"list", "active"} : \E arg, for, about :
              calls' = [calls EXCEPT ![n] = Request(op, arg, for, about)]
    BY <1>3, Zenon DEF List, Connected, Send
  <2>3. QED
    BY <1>2, <2>1, <2>2
<1>4. CASE Saved(n) \/ RemoveAnswered(n)
  <2>1. UNCHANGED <<viewer, wanted>>
    BY <1>4 DEF Saved, RemoveAnswered
  <2>2. \/ calls' = [calls EXCEPT ![n] = Nil]
        \/ \E op \in {"list", "active"} : \E arg, for, about :
              calls' = [calls EXCEPT ![n] = Request(op, arg, for, about)]
    BY <1>4, Zenon DEF Saved, RemoveAnswered, Done, Send
  <2>3. QED
    BY <1>2, <2>1, <2>2
<1>5. CASE Active(n)
  <2>1. \/ \E list, i : SelectSession(n, list, i)
        \/ /\ UNCHANGED <<viewer, wanted>>
           /\ \/ calls' = [calls EXCEPT ![n] = Nil]
              \/ \E op \in {"list", "active"} : \E arg, for, about :
                    calls' = [calls EXCEPT ![n] = Request(op, arg, for, about)]
    BY <1>5, Zenon DEF Active, Send
  <2>2. QED
    BY <1>2, <2>1, SelectInv
<1>6. CASE Disconnected(n)
  <2> DEFINE ended == calls[n].answer.ok /\ calls[n].was
             next == IF calls[n].answer.ok
                     THEN Request("active", Nil, "disconnect", Nil) ELSE Nil
  <2>1. next = Nil \/ (Shape(next) /\ next.op # "ticket")
    BY RequestShape
  <2>2. CASE ended
    <3>1. calls' = [Outdated(calls) EXCEPT ![n] = next] /\ viewer' = Nil
      BY <1>6, <2>2 DEF Disconnected, CloseViewer
    <3>2. /\ DOMAIN Outdated(calls) = Slot
          /\ \A m \in Slot : Outdated(calls)[m] # Nil =>
                /\ Shape(Outdated(calls)[m])
                /\ ~(Outdated(calls)[m].op = "ticket" /\ Outdated(calls)[m].current)
      BY OutdatedCalls DEF VInv
    <3> HIDE DEF next
    <3>3. QED
      BY <2>1, <3>1, <3>2 DEF VInv, Calls, CurrentIsWanted, ViewerShowsWanted
  <2>3. CASE ~ended
    <3>1. calls' = [calls EXCEPT ![n] = next] /\ UNCHANGED <<viewer, wanted>>
      BY <1>6, <2>3 DEF Disconnected
    <3> HIDE DEF next
    <3>2. QED
      BY <2>1, <3>1, Asks
  <2>4. QED
    BY <2>2, <2>3
<1>7. QED
  BY <1>1, <1>3, <1>4, <1>5, <1>6 DEF Continue

\* Every step keeps the invariant.
LEMMA NextVInv == VInv /\ [Next]_vars => VInv'
<1> SUFFICES ASSUME VInv, [Next]_vars PROVE VInv'
  OBVIOUS
<1>1. CASE UNCHANGED vars
  BY <1>1 DEF VInv, Calls, CurrentIsWanted, ViewerShowsWanted
<1>2. CASE ViewerFails
  BY <1>2, Closes DEF ViewerFails, CloseViewer
<1>3. ASSUME NEW n \in Slot, FetchFails(n) PROVE VInv'
  BY <1>3, Asks DEF FetchFails, Done, Send
<1>4. QED
  BY <1>1, <1>2, <1>3, ServiceInv, UserInv, ContinueInv DEF Next

-----------------------------------------------------------------------------
(* The theorem.                                                              *)

\* The viewer never shows a connection other than the one selected last: the
\* generation that every selection and every close advances keeps the answers
\* to all earlier ticket requests out, however many there are and in whatever
\* order they come.
THEOREM ViewerIsCurrent == Spec => []ViewerShowsWanted
<1>1. VInv => ViewerShowsWanted
  BY DEF VInv
<1>2. QED
  BY <1>1, InitVInv, NextVInv, PTL DEF Spec

-----------------------------------------------------------------------------
(* Sessions belong to connections.                                           *)

\* The sessions 1 .. k, of which each has its connection for good.
Owned(own, k) == {[id |-> i, conn |-> own[i]] : i \in 1 .. k}

\* What a call says of sessions is true of them: a list it is answered with,
\* and the session of a connect, which is of the connection it is about.
CallOwned(r, own, k) ==
    /\ r.op = "active" /\ r.answer # Nil => Listed(r.answer) \in Seq(Owned(own, k))
    /\ r.op = "connect" =>
          /\ r.about = r.arg
          /\ r.answer # Nil /\ r.answer.ok =>
                r.answer.session \in 1 .. k /\ own[r.answer.session] = r.arg
    /\ r.for = "connect" /\ r.op \in {"list", "active"} =>
          r.arg \in 1 .. k /\ own[r.arg] = r.about

OwnedBy(own) ==
    /\ DOMAIN own = Nat
    /\ started \in Nat
    /\ active \in Seq(Owned(own, started))
    /\ \A n \in Slot : calls[n] # Nil => CallOwned(calls[n], own, started)

\* What ConnectOpensItsOwn says of one step.
Opens ==
    \A n \in Slot :
        calls[n] # Nil /\ calls'[n] # Nil
        /\ calls[n].op = "active" /\ calls'[n].op = "ticket"
            => calls'[n].arg = calls[n].about

\* A step keeps what is owned, and opens nothing but its own.
Keeps == (\E own : OwnedBy(own)') /\ Opens

\* A set of numbers has a least one.
LEMMA Least ==
  ASSUME NEW T \in SUBSET Nat, T # {}
  PROVE  \E x \in T : \A y \in T : x <= y
<1> DEFINE R == OpToRel(<, Nat)
<1>1. IsWellFoundedOn(R, Nat)
  BY NatLessThanWellFounded
<1>2. \A x, y \in Nat : y < x => <<y, x>> \in R
  BY DEF OpToRel
<1> HIDE DEF R
<1>3. PICK x \in T : \A y \in T : ~(<<y, x>> \in R)
  BY <1>1, WFMin, Zenon
<1>4. ASSUME NEW y \in T PROVE x <= y
  <2>1. x \in Nat /\ y \in Nat /\ ~(<<y, x>> \in R)
    BY <1>3
  <2>2. ~(y < x)
    BY <1>2, <2>1, Zenon
  <2>3. QED
    BY <2>1, <2>2
<1>5. QED
  BY <1>4

\* What NewIndex finds is in the list, and is what was looked for.
LEMMA NewIndexFinds ==
  ASSUME NEW S, NEW list \in Seq(S), NEW id, NewIndex(list, id) # 0
  PROVE  /\ NewIndex(list, id) \in 1 .. Len(list)
         /\ list[NewIndex(list, id)].id = id
<1> DEFINE I == {i \in 1 .. Len(list) : list[i].id = id}
<1>1. NewIndex(list, id) = IF I # {} THEN Min(I) ELSE 0
  BY DEF NewIndex, SelectInSeq
<1>2. I # {} /\ NewIndex(list, id) = Min(I)
  BY <1>1
<1>3. \E x \in I : \A y \in I : x <= y
  <2>1. I \in SUBSET Nat
    OBVIOUS
  <2> HIDE DEF I
  <2>2. QED
    BY <1>2, <2>1, Least
<1>4. Min(I) \in I
  <2> HIDE DEF I
  <2>1. QED
    BY <1>3 DEF Min
<1>5. QED
  BY <1>2, <1>4

\* Sequences over a set are sequences over a larger one.
LEMMA SeqGrows ==
  ASSUME NEW S, NEW T, S \subseteq T, NEW s \in Seq(S)
  PROVE  s \in Seq(T)
  OBVIOUS

\* Removing an entry leaves the others.
LEMMA SwapRemoveType ==
  ASSUME NEW S, NEW s \in Seq(S), NEW i \in DOMAIN s
  PROVE  SwapRemove(s, i) \in Seq(S)
<1>1. Len(s) \in Nat \ {0} /\ s[Len(s)] \in S
  OBVIOUS
<1>2. [s EXCEPT ![i] = s[Len(s)]] \in Seq(S)
      /\ Len([s EXCEPT ![i] = s[Len(s)]]) = Len(s)
  BY <1>1
<1>3. QED
  BY <1>1, <1>2 DEF SwapRemove, Front, Last

\* One more session leaves what was owned as it was.
LEMMA OwnedGrows ==
  ASSUME NEW own, DOMAIN own = Nat, NEW k \in Nat, NEW c, NEW new,
         new = [own EXCEPT ![k + 1] = c]
  PROVE  /\ DOMAIN new = Nat
         /\ Owned(own, k) \subseteq Owned(new, k + 1)
         /\ [id |-> k + 1, conn |-> c] \in Owned(new, k + 1)
         /\ \A r : CallOwned(r, own, k) => CallOwned(r, new, k + 1)
<1>1. DOMAIN new = Nat /\ new[k + 1] = c /\ \A i \in 1 .. k : new[i] = own[i]
  OBVIOUS
<1>2. 1 .. k \subseteq 1 .. (k + 1) /\ k + 1 \in 1 .. (k + 1)
  OBVIOUS
<1>3. Owned(own, k) \subseteq Owned(new, k + 1)
  BY <1>1, <1>2 DEF Owned
<1>4. [id |-> k + 1, conn |-> c] \in Owned(new, k + 1)
  BY <1>1, <1>2 DEF Owned
<1>5. ASSUME NEW r, CallOwned(r, own, k) PROVE CallOwned(r, new, k + 1)
  <2>1. ASSUME r.op = "active", r.answer # Nil
        PROVE  Listed(r.answer) \in Seq(Owned(new, k + 1))
    <3> DEFINE l == Listed(r.answer)
    <3>1. l \in Seq(Owned(own, k))
      BY <1>5, <2>1 DEF CallOwned
    <3> HIDE DEF l
    <3>2. l \in Seq(Owned(new, k + 1))
      BY <3>1, <1>3, SeqGrows
    <3>3. QED
      BY <3>2 DEF l
  <2>2. QED
    BY <1>1, <1>2, <1>5, <2>1 DEF CallOwned
<1>6. QED
  BY <1>1, <1>3, <1>4, <1>5

-----------------------------------------------------------------------------
(* The steps.                                                                *)

\* A call is replaced by one that is true, or by nothing.
LEMMA Puts ==
  ASSUME DOMAIN calls = Slot, NEW own, OwnedBy(own), NEW n \in Slot, NEW r,
         \/ r = Nil
         \/ /\ CallOwned(r, own, started)
            /\ r.op = "ticket" => calls[n] = Nil \/ calls[n].op # "active",
         calls' = [calls EXCEPT ![n] = r], started' = started,
         active' \in Seq(Owned(own, started))
  PROVE  Keeps
<1>1. OwnedBy(own)'
  BY DEF OwnedBy
<1>2. Opens
  BY DEF Opens
<1>3. QED
  BY <1>1, <1>2 DEF Keeps

\* A new generation changes nothing of a call that speaks of sessions.
LEMMA OutdatedOwned ==
  ASSUME VInv, NEW own, OwnedBy(own), NEW m \in Slot, Outdated(calls)[m] # Nil
  PROVE  /\ calls[m] # Nil
         /\ Outdated(calls)[m].op = calls[m].op
         /\ CallOwned(Outdated(calls)[m], own, started)
<1>1. CASE calls[m] # Nil /\ calls[m].op = "ticket"
  <2> DEFINE s == [calls[m] EXCEPT !.current = FALSE]
  <2>1. Outdated(calls)[m] = s
    BY <1>1 DEF Outdated
  <2>2. Shape(calls[m])
    BY <1>1 DEF VInv, Calls
  <2>3. s.op = calls[m].op
    BY <2>2, FieldKeeps, Zenon
  <2> HIDE DEF s
  <2>4. QED
    BY <1>1, <2>1, <2>3 DEF CallOwned
<1>2. CASE ~(calls[m] # Nil /\ calls[m].op = "ticket")
  BY <1>2 DEF Outdated, OwnedBy
<1>3. QED
  BY <1>1, <1>2

\* A new generation, and nothing opened.
LEMMA OutdatedPuts ==
  ASSUME VInv, NEW own, OwnedBy(own), NEW n \in Slot, NEW r,
         \/ r = Nil
         \/ /\ CallOwned(r, own, started)
            /\ r.op = "ticket" => \/ calls[n] = Nil \/ calls[n].op # "active"
                                  \/ r.arg = calls[n].about,
         calls' = [Outdated(calls) EXCEPT ![n] = r], UNCHANGED <<active, started>>
  PROVE  Keeps
<1>1. DOMAIN Outdated(calls) = Slot
  BY DEF Outdated
<1>2. ASSUME NEW m \in Slot, m # n, calls'[m] # Nil
      PROVE  /\ calls[m] # Nil /\ calls'[m].op = calls[m].op
             /\ CallOwned(calls'[m], own, started)
  BY <1>1, <1>2, OutdatedOwned
<1>3. calls'[n] = r
  BY <1>1
<1>4. OwnedBy(own)'
  BY <1>2, <1>3 DEF OwnedBy
<1>5. Opens
  BY <1>2, <1>3 DEF Opens
<1>6. QED
  BY <1>4, <1>5 DEF Keeps

\* A new generation without a call.
LEMMA OutdatedKeeps ==
  ASSUME VInv, NEW own, OwnedBy(own), calls' = Outdated(calls),
         UNCHANGED <<active, started>>
  PROVE  Keeps
<1>1. ASSUME NEW m \in Slot, calls'[m] # Nil
      PROVE  /\ calls[m] # Nil /\ calls'[m].op = calls[m].op
             /\ CallOwned(calls'[m], own, started)
  BY <1>1, OutdatedOwned
<1>2. OwnedBy(own)'
  BY <1>1 DEF OwnedBy
<1>3. Opens
  BY <1>1 DEF Opens
<1>4. QED
  BY <1>2, <1>3 DEF Keeps

\* A selection, where the session is of the connection the call is about.
LEMMA Selects ==
  ASSUME VInv, NEW own, OwnedBy(own), NEW n \in Slot, NEW list, NEW i,
         SelectSession(n, list, i), UNCHANGED <<active, started>>,
         \/ calls[n] = Nil \/ calls[n].op # "active"
         \/ list[i].conn = calls[n].about
  PROVE  Keeps
<1> DEFINE r == Request("ticket", list[i].conn, "viewer", list[i].conn)
<1>1. r.op = "ticket" /\ r.arg = list[i].conn
  BY RequestShape
<1>2. CallOwned(r, own, started)
  BY <1>1 DEF CallOwned
<1>3. calls' = [Outdated(calls) EXCEPT ![n] = r]
  BY DEF SelectSession
<1> HIDE DEF r
<1>4. QED
  BY <1>1, <1>2, <1>3, OutdatedPuts

\* An answer that is true of the sessions.
LEMMA Answers ==
  ASSUME VInv, NEW own, OwnedBy(own), NEW n \in Slot, NEW reply, calls[n] # Nil,
         Answer(n, reply), started' = started,
         active' \in Seq(Owned(own, started)),
         calls[n].op = "active" => Listed(reply) \in Seq(Owned(own, started)),
         calls[n].op = "connect" => ~reply.ok
  PROVE  Keeps
<1> DEFINE s == [calls[n] EXCEPT !.answer = reply]
<1>1. Shape(calls[n]) /\ CallOwned(calls[n], own, started)
  BY DEF VInv, Calls, OwnedBy
<1>2. s = [calls[n] EXCEPT !.answer = reply]
  OBVIOUS
<1>3. calls' = [calls EXCEPT ![n] = s]
  BY DEF Answer
<1> HIDE DEF s
<1>4. /\ s.op = calls[n].op /\ s.arg = calls[n].arg /\ s.for = calls[n].for
      /\ s.about = calls[n].about /\ s.answer = reply
  <2>1. PICK op, arg, for, about, was, current, answer :
            calls[n] = [op |-> op, arg |-> arg, for |-> for, about |-> about,
                        was |-> was, current |-> current, answer |-> answer]
    BY <1>1 DEF Shape
  <2>2. s = [op |-> op, arg |-> arg, for |-> for, about |-> about,
             was |-> was, current |-> current, answer |-> reply]
    BY <1>2, <2>1
  <2>3. QED
    BY <2>1, <2>2
<1>5. CallOwned(s, own, started)
  BY <1>1, <1>4 DEF CallOwned
<1>6. QED
  BY <1>3, <1>4, <1>5, Puts DEF VInv

\* A session is started: it belongs to the connection of the call.
LEMMA ConnectAnswered ==
  ASSUME VInv, NEW own, OwnedBy(own), NEW n \in Slot, AnswerConnect(n)
  PROVE  Keeps
<1> DEFINE c     == calls[n].arg
           reply == [ok |-> TRUE, session |-> started']
           s     == [calls[n] EXCEPT !.answer = reply]
<1>1. /\ calls[n] # Nil /\ calls[n].op = "connect" /\ started' = started + 1
      /\ active' = Append(active, [id |-> started + 1, conn |-> c])
      /\ calls' = [calls EXCEPT ![n] = s]
  BY DEF AnswerConnect, Pending, Answer
<1>2. /\ DOMAIN own = Nat /\ started \in Nat
      /\ active \in Seq(Owned(own, started)) /\ DOMAIN calls = Slot
  BY DEF OwnedBy, VInv
<1>3. PICK new : new = [own EXCEPT ![started + 1] = c]
  OBVIOUS
<1>4. /\ DOMAIN new = Nat
      /\ Owned(own, started) \subseteq Owned(new, started + 1)
      /\ [id |-> started + 1, conn |-> c] \in Owned(new, started + 1)
      /\ \A r : CallOwned(r, own, started) => CallOwned(r, new, started + 1)
  BY <1>2, <1>3, OwnedGrows
<1>5. new[started + 1] = c
  BY <1>2, <1>3
<1>6. reply.session = started + 1
  BY <1>1
<1> HIDE DEF reply
<1>7. /\ s.op = "connect" /\ s.arg = c /\ s.about = calls[n].about
      /\ s.answer = reply
  <2>1. Shape(calls[n])
    BY <1>1 DEF VInv, Calls
  <2>2. PICK op, arg, for, about, was, current, answer :
            calls[n] = [op |-> op, arg |-> arg, for |-> for, about |-> about,
                        was |-> was, current |-> current, answer |-> answer]
    BY <2>1 DEF Shape
  <2>3. s = [op |-> op, arg |-> arg, for |-> for, about |-> about,
             was |-> was, current |-> current, answer |-> reply]
    BY <2>2
  <2>4. QED
    BY <1>1, <2>2, <2>3
<1> HIDE DEF s
<1>8. CallOwned(s, new, started + 1)
  <2>1. calls[n].about = c
    BY <1>1 DEF OwnedBy, CallOwned
  <2>2. started + 1 \in 1 .. (started + 1)
    BY <1>2
  <2>3. QED
    BY <1>5, <1>7, <1>6, <2>1, <2>2 DEF CallOwned
<1>9. active' \in Seq(Owned(new, started + 1))
  <2>1. active \in Seq(Owned(new, started + 1))
    BY <1>2, <1>4, SeqGrows
  <2>2. QED
    BY <1>1, <1>4, <2>1
<1>10. OwnedBy(new)'
  <2>1. ASSUME NEW m \in Slot, calls'[m] # Nil
        PROVE  CallOwned(calls'[m], new, started + 1)
    <3>1. CASE m = n
      BY <1>1, <1>2, <1>8, <3>1
    <3>2. CASE m # n
      BY <1>1, <1>2, <1>4, <2>1, <3>2 DEF OwnedBy
    <3>3. QED
      BY <3>1, <3>2
  <2>2. QED
    BY <1>1, <1>2, <1>4, <1>9, <2>1 DEF OwnedBy
<1>11. Opens
  BY <1>1, <1>2, <1>7 DEF Opens
<1>12. QED
  BY <1>10, <1>11 DEF Keeps

\* What the service and other clients of it do.
LEMMA ServiceKeeps ==
  ASSUME VInv, NEW own, OwnedBy(own), Service \/ Elsewhere
  PROVE  Keeps
<1>1. active \in Seq(Owned(own, started)) /\ DOMAIN calls = Slot
  BY DEF OwnedBy, VInv
<1>2. ASSUME NEW id, Ended(id) PROVE active' \in Seq(Owned(own, started))
  BY <1>1, <1>2, SwapRemoveType DEF Ended
<1>3. CASE Service
  <2>1. PICK n \in Slot : Handle(n)
    BY <1>3 DEF Service
  <2>2. CASE AnswerConnect(n)
    BY <2>2, ConnectAnswered
  <2>3. CASE AnswerActive(n)
    <3> DEFINE reply == [ok |-> TRUE, items |-> active]
    <3>1. /\ calls[n] # Nil /\ calls[n].op = "active" /\ Answer(n, reply)
          /\ UNCHANGED <<active, started>>
      BY <2>3 DEF AnswerActive, Pending
    <3>2. Listed(reply) = active
      BY DEF Listed
    <3> HIDE DEF reply
    <3>3. QED
      BY <1>1, <3>1, <3>2, Answers
  <2>4. CASE Refuse(n)
    <3>1. calls[n] # Nil /\ Answer(n, Failed) /\ UNCHANGED <<active, started>>
      BY <2>4 DEF Refuse
    <3>2. Listed(Failed) = <<>> /\ ~Failed.ok
      BY DEF Listed, Failed
    <3>3. Listed(Failed) \in Seq(Owned(own, started))
      BY <3>2
    <3>4. QED
      BY <1>1, <3>1, <3>2, <3>3, Answers
  <2>5. CASE AnswerList(n) \/ AnswerAdd(n) \/ AnswerKnown(n) \/ AnswerDelete(n)
             \/ AnswerDisconnect(n)
    <3>1. PICK reply : /\ calls[n] # Nil /\ Answer(n, reply)
                       /\ calls[n].op \notin {"active", "connect"}
      <4>1. CASE AnswerList(n) \/ AnswerAdd(n)
        BY <4>1, Zenon DEF AnswerList, AnswerAdd, Pending
      <4>2. CASE AnswerKnown(n) \/ AnswerDelete(n) \/ AnswerDisconnect(n)
        BY <4>2, Zenon DEF AnswerKnown, AnswerDelete, AnswerDisconnect, Pending
      <4>3. QED
        BY <2>5, <4>1, <4>2
    <3>2. started' = started /\ active' \in Seq(Owned(own, started))
      BY <1>1, <1>2, <2>5
         DEF AnswerList, AnswerAdd, AnswerKnown, AnswerDelete, AnswerDisconnect
    <3>3. QED
      BY <3>1, <3>2, Answers
  <2>6. QED
    BY <2>1, <2>2, <2>3, <2>4, <2>5 DEF Handle
<1>4. CASE Elsewhere
  <2>1. /\ UNCHANGED <<calls, started>>
        /\ active' \in Seq(Owned(own, started))
    BY <1>1, <1>2, <1>4 DEF Elsewhere, Other
  <2>2. OwnedBy(own)'
    BY <2>1 DEF OwnedBy
  <2>3. QED
    BY <2>1, <2>2 DEF Keeps, Opens
<1>5. QED
  BY <1>3, <1>4

\* What the user does: each call is put in a free place.
LEMMA UserKeeps ==
  ASSUME VInv, NEW own, OwnedBy(own), User
  PROVE  Keeps
<1>1. UNCHANGED <<active, started>> /\ active' \in Seq(Owned(own, started))
      /\ DOMAIN calls = Slot
  BY DEF User, OwnedBy, VInv
<1>2. CASE UNCHANGED calls
  BY <1>1, <1>2 DEF Keeps, Opens, OwnedBy
<1>3. CASE calls' = Outdated(calls)
  BY <1>1, <1>3, OutdatedKeeps
<1>4. ASSUME NEW n \in Slot, NEW op, NEW arg, NEW for, NEW about,
             calls' = [calls EXCEPT ![n] = Request(op, arg, for, about)],
             op # "ticket",
             (op # "connect" /\ for # "connect") \/ (op = "connect" /\ about = arg)
      PROVE  Keeps
  <2> DEFINE r == Request(op, arg, for, about)
  <2>1. /\ r.op = op /\ r.arg = arg /\ r.for = for /\ r.about = about
        /\ r.answer = Nil
    BY RequestShape
  <2>2. calls' = [calls EXCEPT ![n] = r]
    BY <1>4
  <2> HIDE DEF r
  <2>3. QED
    BY <1>1, <1>4, <2>1, <2>2, Puts DEF CallOwned
<1>5. ASSUME NEW n \in Slot, NEW i, Disconnect(n, i) PROVE Keeps
  <2> DEFINE q == Request("disconnect", sessions[i].id, "disconnect",
                          sessions[i].conn)
             r == [q EXCEPT !.was = (i = selected)]
  <2>1. calls' = [calls EXCEPT ![n] = r]
    BY <1>5, Zenon DEF Disconnect, Send
  <2>2. Shape(q) /\ q.op = "disconnect"
    BY RequestShape
  <2> HIDE DEF q
  <2>3. r.op = q.op
    BY <2>2, FieldKeeps, Zenon
  <2>4. r.op = "disconnect"
    BY <2>2, <2>3
  <2> HIDE DEF r
  <2>5. CallOwned(r, own, started)
    BY <2>4 DEF CallOwned
  <2>6. QED
    BY <1>1, <2>1, <2>4, <2>5, Puts
<1>6. ASSUME NEW n \in Slot, NEW i, IsNext(n), Select(n, i) PROVE Keeps
  <2>1. calls[n] = Nil /\ SelectSession(n, sessions, i)
    BY <1>6 DEF IsNext, Free, Select
  <2>2. QED
    BY <1>1, <2>1, Selects
<1>7. ASSUME NEW n \in Slot, Reload(n) \/ Save(n) PROVE Keeps
  <2>1. \E op \in {"list", "active", "add", "update"}, for \in {"load", "save"} :
          \E arg, about :
            calls' = [calls EXCEPT ![n] = Request(op, arg, for, about)]
    BY <1>7, Zenon DEF Reload, Save, Send
  <2>2. QED
    BY <2>1, <1>4
<1>8. ASSUME NEW n \in Slot, NEW i, RemoveRow(n, i) \/ Connect(n, i) PROVE Keeps
  <2>1. \E c : \/ calls' = [calls EXCEPT ![n] = Request("delete", c, "remove", c)]
               \/ calls' = [calls EXCEPT ![n] = Request("connect", c, "connect", c)]
    BY <1>8, Zenon DEF RemoveRow, Connect, Send
  <2>2. QED
    BY <2>1, <1>4
<1>9. CASE OpenAdd \/ Cancel \/ \E i \in DOMAIN connections : OpenEdit(i)
  BY <1>2, <1>9 DEF OpenAdd, Cancel, OpenEdit
<1>10. CASE ToolbarDisconnect
  BY <1>3, <1>10 DEF ToolbarDisconnect
<1>11. QED
  BY <1>5, <1>6, <1>7, <1>8, <1>9, <1>10, Zenon DEF User

\* What the app does with an answer: each request it leads to speaks of the
\* session and of the connection the call does.
LEMMA ContinueKeeps ==
  ASSUME VInv, NEW own, OwnedBy(own), NEW n \in Slot, Continue(n)
  PROVE  Keeps
<1>1. /\ calls[n] # Nil /\ calls[n].answer # Nil
      /\ UNCHANGED <<active, started>> /\ active' \in Seq(Owned(own, started))
      /\ CallOwned(calls[n], own, started) /\ DOMAIN calls = Slot
  BY DEF Continue, VInv, OwnedBy
<1>2. ASSUME calls' = [calls EXCEPT ![n] = Nil] PROVE Keeps
  BY <1>1, <1>2, Puts
<1>3. ASSUME NEW op \in {"list", "active"}, NEW arg, NEW for, NEW about,
             for = "connect" => arg \in 1 .. started /\ own[arg] = about
      PROVE  CallOwned(Request(op, arg, for, about), own, started)
             /\ Request(op, arg, for, about).op = op
  <2> DEFINE r == Request(op, arg, for, about)
  <2>1. /\ r.op = op /\ r.arg = arg /\ r.for = for /\ r.about = about
        /\ r.answer = Nil
    BY RequestShape
  <2> HIDE DEF r
  <2>2. CallOwned(r, own, started) /\ r.op = op
    BY <1>3, <2>1 DEF CallOwned
  <2>3. QED
    BY <2>2 DEF r
<1>4. ASSUME NEW op \in {"list", "active"}, NEW arg, NEW for, NEW about,
             for = "connect" => arg \in 1 .. started /\ own[arg] = about,
             calls' = [calls EXCEPT ![n] = Request(op, arg, for, about)]
      PROVE  Keeps
  <2> DEFINE r == Request(op, arg, for, about)
  <2>1. CallOwned(r, own, started) /\ r.op = op
    BY <1>3, <1>4
  <2>2. calls' = [calls EXCEPT ![n] = r]
    BY <1>4
  <2> HIDE DEF r
  <2>3. QED
    BY <1>1, <2>1, <2>2, Puts
<1>5. CASE Ticket(n) \/ RemoveAnswered(n)
  <2>1. calls' = [calls EXCEPT ![n] = Nil]
    BY <1>5 DEF Ticket, RemoveAnswered, Done, Send
  <2>2. QED
    BY <1>2, <2>1
<1>6. CASE Saved(n)
  <2>1. \/ calls' = [calls EXCEPT ![n] = Nil]
        \/ calls' = [calls EXCEPT ![n] = Request("list", Nil, "load", Nil)]
    BY <1>6 DEF Saved, Done, Send
  <2>2. QED
    BY <1>2, <1>4, <2>1
<1>7. CASE List(n)
  <2>1. \/ calls' = [calls EXCEPT ![n] = Nil]
        \/ /\ calls[n].for = "connect" /\ calls[n].op = "list"
           /\ calls' = [calls EXCEPT ![n] = Request("active", calls[n].arg,
                                                    "connect", calls[n].about)]
    BY <1>7 DEF List, Send
  <2>2. calls[n].for = "connect" /\ calls[n].op = "list"
            => calls[n].arg \in 1 .. started /\ own[calls[n].arg] = calls[n].about
    BY <1>1 DEF CallOwned
  <2>3. QED
    BY <1>2, <1>4, <2>1, <2>2
<1>8. CASE Connected(n)
  <2> DEFINE id == calls[n].answer.session
  <2>1. \/ calls' = [calls EXCEPT ![n] = Nil]
        \/ /\ calls[n].answer.ok /\ calls[n].op = "connect"
           /\ calls' = [calls EXCEPT ![n] = Request("list", id, "connect",
                                                    calls[n].about)]
    BY <1>8 DEF Connected, Send
  <2>2. calls[n].answer.ok /\ calls[n].op = "connect"
            => id \in 1 .. started /\ own[id] = calls[n].about
    BY <1>1 DEF CallOwned
  <2>3. QED
    BY <1>2, <1>4, <2>1, <2>2
<1>9. CASE Active(n)
  <2> DEFINE list == Listed(calls[n].answer)
             new  == IF calls[n].for = "connect" THEN NewIndex(list, calls[n].arg)
                     ELSE 0
  <2>1. list \in Seq(Owned(own, started))
    BY <1>1, <1>9 DEF CallOwned, Active
  <2>2. \/ new # 0 /\ SelectSession(n, list, new)
        \/ calls' = [calls EXCEPT ![n] = Nil]
        \/ calls' = [calls EXCEPT ![n] = Request("list", Nil, "load", Nil)]
    BY <1>9 DEF Active, Send
  <2>3. CASE new # 0 /\ SelectSession(n, list, new)
    <3>1. /\ calls[n].for = "connect" /\ calls[n].op = "active"
          /\ NewIndex(list, calls[n].arg) # 0
          /\ SelectSession(n, list, NewIndex(list, calls[n].arg))
      BY <1>9, <2>3 DEF Active
    <3> HIDE DEF list
    <3> DEFINE i == NewIndex(list, calls[n].arg)
    <3>2. i \in 1 .. Len(list) /\ list[i].id = calls[n].arg
      BY <2>1, <3>1, NewIndexFinds
    <3>3. calls[n].arg \in 1 .. started /\ own[calls[n].arg] = calls[n].about
      BY <1>1, <3>1 DEF CallOwned
    <3> HIDE DEF i
    <3>4. list[i] \in Owned(own, started)
      BY <2>1, <3>2
    <3>5. list[i].conn = calls[n].about
      BY <3>2, <3>3, <3>4 DEF Owned
    <3>6. SelectSession(n, list, i)
      BY <3>1 DEF i
    <3>7. QED
      BY <1>1, <3>5, <3>6, Selects
  <2>4. QED
    BY <1>2, <1>4, <2>2, <2>3
<1>10. CASE Disconnected(n)
  <2> DEFINE r == IF calls[n].answer.ok
                  THEN Request("active", Nil, "disconnect", Nil) ELSE Nil
  <2>1. r = Nil \/ (CallOwned(r, own, started) /\ r.op = "active")
    BY <1>3
  <2>2. /\ calls[n].op = "disconnect"
        /\ \/ calls' = [calls EXCEPT ![n] = r]
           \/ calls' = [Outdated(calls) EXCEPT ![n] = r]
    BY <1>10 DEF Disconnected
  <2> HIDE DEF r
  <2>3. CASE calls' = [calls EXCEPT ![n] = r]
    BY <1>1, <2>1, <2>3, Puts
  <2>4. CASE calls' = [Outdated(calls) EXCEPT ![n] = r]
    BY <1>1, <2>1, <2>4, OutdatedPuts
  <2>5. QED
    BY <2>2, <2>3, <2>4
<1>11. QED
  BY <1>5, <1>6, <1>7, <1>8, <1>9, <1>10 DEF Continue

\* The first session belongs to the connection it is of.
LEMMA InitOwned == Init => \E own : OwnedBy(own)
<1> SUFFICES ASSUME Init PROVE \E own : OwnedBy(own)
  OBVIOUS
<1> DEFINE own == [k \in Nat |-> stored[1]]
<1>1. DOMAIN own = Nat /\ own[1] = stored[1]
  OBVIOUS
<1> HIDE DEF own
<1>2. 1 \in 1 .. started /\ started \in Nat
  BY DEF Init
<1>3. [id |-> 1, conn |-> stored[1]] \in Owned(own, started)
  BY <1>1, <1>2 DEF Owned
<1>4. active \in Seq(Owned(own, started))
  BY <1>3 DEF Init
<1>5. \A n \in Slot : calls[n] = Nil
  BY DEF Init
<1>6. OwnedBy(own)
  BY <1>1, <1>2, <1>4, <1>5 DEF OwnedBy
<1>7. QED
  BY <1>6

\* Every step keeps what is owned, and opens nothing but its own.
LEMMA NextKeeps ==
  VInv /\ (\E own : OwnedBy(own)) /\ [Next]_vars
    => (\E own : OwnedBy(own))' /\ [Opens]_vars
<1> SUFFICES ASSUME VInv, NEW own, OwnedBy(own), [Next]_vars
             PROVE  Keeps
  BY DEF Keeps
<1>1. CASE UNCHANGED vars
  BY <1>1 DEF Keeps, Opens, OwnedBy
<1>2. CASE ViewerFails /\ UNCHANGED <<service, moves>>
  BY <1>2, OutdatedKeeps DEF ViewerFails
<1>3. ASSUME NEW n \in Slot, FetchFails(n) PROVE Keeps
  <2>1. DOMAIN calls = Slot /\ active' \in Seq(Owned(own, started))
    BY <1>3 DEF VInv, Calls, OwnedBy, FetchFails
  <2>2. QED
    BY <1>3, <2>1, Puts DEF FetchFails, Done, Send
<1>4. QED
  BY <1>1, <1>2, <1>3, ServiceKeeps, UserKeeps, ContinueKeeps DEF Next

\* A connect opens a session of the connection whose row was pressed: the
\* number of the session comes with the answer to the connect, a session has
\* its connection for good, and every list the service gives says the same of
\* it, whatever came and went while the requests were under way.
THEOREM ConnectsOpenTheirOwn == Spec => ConnectOpensItsOwn
<1>1. VInv /\ (\E own : OwnedBy(own)) /\ [Next]_vars
        => (\E own : OwnedBy(own))' /\ [Opens]_vars
  BY NextKeeps
<1>2. QED
  BY <1>1, InitVInv, NextVInv, InitOwned, PTL DEF Spec, ConnectOpensItsOwn, Opens
-----------------------------------------------------------------------------
(* Types.                                                                    *)

\* A request is for one of the routes, and what a list is answered with is one.
CallTyped(r) ==
    /\ r.op \in Ops
    /\ r.op = "list" /\ r.answer # Nil /\ r.answer.ok =>
          r.answer.items \in Seq(Conns)
    /\ r.op = "active" /\ r.answer # Nil => Listed(r.answer) \in Seq(Session)

CallsTyped == \A n \in Slot : calls[n] # Nil => CallTyped(calls[n])

\* What the service keeps, and the copies of it on the screen.
Lists ==
    /\ stored \in Seq(Conns) /\ connections \in Seq(Conns)
    /\ active \in Seq(Session) /\ sessions \in Seq(Session)
    /\ started \in 0 .. MaxSessions

\* A form that edits shows a connection.
FormTyped == form \in {"closed", "add"} \cup Conns /\ editIndex \in Nat

\* The selection is a row, and the viewer's connection is one.
Selection ==
    /\ selected \in 0 .. Len(sessions)
    /\ {viewer, wanted} \subseteq Conns \cup {Nil}

TInv == CallsTyped /\ Lists /\ FormTyped /\ Selection /\ moves \in 0 .. MaxMoves

\* What is in a sequence over a set is in that set.
LEMMA ToSetOf ==
  ASSUME NEW S, NEW s \in Seq(S)
  PROVE  ToSet(s) \subseteq S
  BY DEF ToSet

\* The types the runs check follow.
LEMMA TInvTypes == TInv => TypeOK
<1> SUFFICES ASSUME TInv PROVE TypeOK
  OBVIOUS
<1>1. /\ ToSet(stored) \subseteq Conns /\ ToSet(connections) \subseteq Conns
      /\ ToSet(active) \subseteq Session /\ ToSet(sessions) \subseteq Session
  BY ToSetOf DEF TInv, Lists
<1>2. \A n \in Slot : calls[n] = Nil \/ calls[n].op \in Ops
  BY DEF TInv, CallsTyped, CallTyped
<1>3. QED
  BY <1>1, <1>2 DEF TInv, Lists, FormTyped, Selection, TypeOK

\* The connections the service starts with are a list of all of them.
LEMMA SetToSeqType ==
  ASSUME NEW S, IsFiniteSet(S)
  PROVE  SetToSeq(S) \in Seq(S) /\ (S # {} => SetToSeq(S)[1] \in S)
<1>1. PICK k \in Nat : k = Cardinality(S) /\ ExistsBijection(1..k, S)
  BY FS_CardinalityType
<1>2. \E f \in [1..k -> S] : IsInjective(f)
  BY <1>1 DEF ExistsBijection, Bijection, Injection
<1>3. SetToSeq(S) \in [1..k -> S]
  BY <1>1, <1>2 DEF SetToSeq
<1>4. S # {} => 1 \in 1..k
  <2>1. S = {} <=> k = 0
    BY <1>1, FS_EmptySet
  <2>2. QED
    BY <2>1
<1>5. QED
  BY <1>3, <1>4

\* The app has loaded its lists, and shows no form.
LEMMA InitTInv == Init => TInv
<1> SUFFICES ASSUME Init PROVE TInv
  OBVIOUS
<1>1. stored \in Seq(Conns) /\ stored[1] \in Conns
  BY SetToSeqType, AdminAssumption DEF Init, AdminAssumption
<1>2. [id |-> 1, conn |-> stored[1]] \in Session
  BY <1>1, AdminAssumption DEF AdminAssumption, Session
<1>3. active \in Seq(Session)
  BY <1>2 DEF Init
<1>4. Lists
  BY <1>1, <1>3, AdminAssumption DEF Init, Lists, AdminAssumption
<1>5. Selection /\ FormTyped /\ CallsTyped
  BY <1>4 DEF Init, Selection, Lists, FormTyped, CallsTyped
<1>6. moves \in 0 .. MaxMoves
  BY AdminAssumption DEF Init, AdminAssumption
<1>7. QED
  BY <1>4, <1>5, <1>6 DEF TInv

\* Whatever its other fields, a new request for a route is typed.
LEMMA RequestTyped ==
  ASSUME NEW op \in Ops, NEW arg, NEW for, NEW about
  PROVE  CallTyped(Request(op, arg, for, about))
<1>1. PICK r : r = Request(op, arg, for, about)
  OBVIOUS
<1>2. r.op = op /\ r.answer = Nil
  BY <1>1, RequestShape
<1>3. CallTyped(r)
  BY <1>2 DEF CallTyped
<1>4. QED
  BY <1>1, <1>3

\* A request that is out of date is still typed.
LEMMA OutdatedTyped ==
  ASSUME VInv, CallsTyped
  PROVE  /\ DOMAIN Outdated(calls) = Slot
         /\ \A m \in Slot : Outdated(calls)[m] # Nil =>
               CallTyped(Outdated(calls)[m])
<1>1. ASSUME NEW m \in Slot, Outdated(calls)[m] # Nil
      PROVE  CallTyped(Outdated(calls)[m])
  <2>1. CASE calls[m] # Nil /\ calls[m].op = "ticket"
    <3>1. PICK s : s = [calls[m] EXCEPT !.current = FALSE]
      OBVIOUS
    <3>2. Outdated(calls)[m] = s
      BY <2>1, <3>1 DEF Outdated
    <3>3. Shape(calls[m])
      BY <2>1 DEF VInv, Calls
    <3>4. s.op = "ticket"
      BY <2>1, <3>1, <3>3, FieldKeeps, Zenon
    <3>5. QED
      BY <3>2, <3>4 DEF CallTyped, Ops
  <2>2. CASE ~(calls[m] # Nil /\ calls[m].op = "ticket")
    BY <1>1, <2>2 DEF Outdated, CallsTyped
  <2>3. QED
    BY <2>1, <2>2
<1>2. QED
  BY <1>1 DEF Outdated

\* One call in the place of another.
LEMMA PutsTyped ==
  ASSUME VInv, CallsTyped, NEW n \in Slot, NEW r, r = Nil \/ CallTyped(r),
         \/ calls' = [calls EXCEPT ![n] = r]
         \/ calls' = [Outdated(calls) EXCEPT ![n] = r]
  PROVE  CallsTyped'
  BY OutdatedTyped DEF VInv, CallsTyped

\* An answer of the service to a request for a list is that list.
LEMMA AnswerTyped ==
  ASSUME VInv, CallsTyped, NEW n \in Slot, NEW reply, calls[n] # Nil,
         Answer(n, reply),
         calls[n].op = "list" /\ reply.ok => reply.items \in Seq(Conns),
         calls[n].op = "active" => Listed(reply) \in Seq(Session)
  PROVE  CallsTyped'
<1>1. PICK s : s = [calls[n] EXCEPT !.answer = reply]
  OBVIOUS
<1>2. calls' = [calls EXCEPT ![n] = s]
  BY <1>1 DEF Answer
<1>3. s.op = calls[n].op /\ s.answer = reply
  <2>1. Shape(calls[n])
    BY DEF VInv, Calls
  <2>2. PICK op, arg, for, about, was, current, answer :
            calls[n] = [op |-> op, arg |-> arg, for |-> for, about |-> about,
                        was |-> was, current |-> current, answer |-> answer]
    BY <2>1 DEF Shape
  <2>3. s = [op |-> op, arg |-> arg, for |-> for, about |-> about,
             was |-> was, current |-> current, answer |-> reply]
    BY <1>1, <2>2
  <2>4. QED
    BY <2>2, <2>3
<1>4. CallTyped(s)
  BY <1>3 DEF CallsTyped, CallTyped
<1>5. QED
  BY <1>2, <1>4, PutsTyped
\* What the service and other clients of it do.
LEMMA ServiceTInv == VInv /\ TInv /\ (Service \/ Elsewhere) => TInv'
<1> SUFFICES ASSUME VInv, TInv, Service \/ Elsewhere PROVE TInv'
  OBVIOUS
<1>1. /\ stored \in Seq(Conns) /\ active \in Seq(Session)
      /\ started \in Nat /\ started <= MaxSessions /\ MaxSessions \in Nat
      /\ CallsTyped
  BY AdminAssumption DEF TInv, Lists, AdminAssumption
<1>2. UNCHANGED screen /\ moves' \in 0 .. MaxMoves
  BY AdminAssumption DEF Service, Elsewhere, TInv, AdminAssumption
<1>3. FormTyped' /\ Selection'
  BY <1>2 DEF TInv, FormTyped, Selection
<1>4. ASSUME NEW c, Removed(c) PROVE stored' \in Seq(Conns)
  BY <1>1, <1>4, SwapRemoveType DEF Removed
<1>5. ASSUME NEW id, Ended(id) PROVE active' \in Seq(Session)
  BY <1>1, <1>5, SwapRemoveType DEF Ended
<1>6. ASSUME NEW n \in Slot, Handle(n) PROVE Lists' /\ CallsTyped'
  <2>1. CASE AnswerList(n) \/ AnswerActive(n) \/ AnswerKnown(n) \/ Refuse(n)
    <3>1. Lists'
      BY <1>2, <2>1 DEF AnswerList, AnswerActive, AnswerKnown, Refuse, TInv, Lists
    <3>2. CASE AnswerList(n)
      <4>1. PICK reply : reply = [ok |-> TRUE, items |-> stored]
        OBVIOUS
      <4>2. calls[n] # Nil /\ calls[n].op = "list" /\ Answer(n, reply)
        BY <3>2, <4>1 DEF AnswerList, Pending
      <4>3. reply.items = stored
        BY <4>1
      <4>4. QED
        BY <1>1, <1>6, <3>1, <4>2, <4>3, AnswerTyped
    <3>3. CASE AnswerActive(n)
      <4>1. PICK reply : reply = [ok |-> TRUE, items |-> active]
        OBVIOUS
      <4>2. calls[n] # Nil /\ calls[n].op = "active" /\ Answer(n, reply)
        BY <3>3, <4>1 DEF AnswerActive, Pending
      <4>3. Listed(reply) = active
        BY <4>1 DEF Listed
      <4>4. QED
        BY <1>1, <1>6, <3>1, <4>2, <4>3, AnswerTyped
    <3>4. CASE AnswerKnown(n)
      <4>1. PICK reply : /\ calls[n] # Nil /\ Answer(n, reply)
                         /\ calls[n].op \notin {"list", "active"}
        BY <3>4, Zenon DEF AnswerKnown, Pending
      <4>2. QED
        BY <1>1, <1>6, <3>1, <4>1, AnswerTyped
    <3>5. CASE Refuse(n)
      <4>1. calls[n] # Nil /\ Answer(n, Failed)
        BY <3>5 DEF Refuse
      <4>2. Listed(Failed) = <<>> /\ ~Failed.ok
        BY DEF Listed, Failed
      <4>3. Listed(Failed) \in Seq(Session)
        BY <4>2
      <4>4. QED
        BY <1>1, <1>6, <3>1, <4>1, <4>2, <4>3, AnswerTyped
    <3>6. QED
      BY <2>1, <3>1, <3>2, <3>3, <3>4, <3>5
  <2>2. CASE AnswerAdd(n) \/ AnswerDelete(n) \/ AnswerDisconnect(n) \/ AnswerConnect(n)
    <3>1. PICK reply : /\ calls[n] # Nil /\ Answer(n, reply)
                       /\ calls[n].op \notin {"list", "active"}
      <4>1. CASE AnswerAdd(n) \/ AnswerDelete(n)
        BY <4>1, Zenon DEF AnswerAdd, AnswerDelete, Pending
      <4>2. CASE AnswerDisconnect(n) \/ AnswerConnect(n)
        BY <4>2, Zenon DEF AnswerDisconnect, AnswerConnect, Pending
      <4>3. QED
        BY <2>2, <4>1, <4>2
    <3>2. CallsTyped'
      BY <1>1, <1>6, <3>1, AnswerTyped
    <3>3. stored' \in Seq(Conns)
      <4>1. CASE AnswerAdd(n)
        BY <1>1, <4>1 DEF AnswerAdd
      <4>2. CASE AnswerDelete(n)
        BY <1>4, <4>2 DEF AnswerDelete
      <4>3. CASE AnswerDisconnect(n) \/ AnswerConnect(n)
        BY <1>1, <4>3 DEF AnswerDisconnect, AnswerConnect
      <4>4. QED
        BY <2>2, <4>1, <4>2, <4>3
    <3>4. active' \in Seq(Session) /\ started' \in 0 .. MaxSessions
      <4>1. CASE AnswerConnect(n)
        <5>1. /\ started' = started + 1 /\ started' \in 1 .. MaxSessions
              /\ calls[n].arg \in Conns
              /\ active' = Append(active, [id |-> started', conn |-> calls[n].arg])
          BY <1>1, <4>1, ToSetOf DEF AnswerConnect, Has
        <5>2. [id |-> started', conn |-> calls[n].arg] \in Session
          BY <5>1 DEF Session
        <5>3. QED
          BY <1>1, <5>1, <5>2
      <4>2. CASE AnswerAdd(n) \/ AnswerDelete(n) \/ AnswerDisconnect(n)
        BY <1>1, <1>5, <4>2 DEF AnswerAdd, AnswerDelete, AnswerDisconnect
      <4>3. QED
        BY <2>2, <4>1, <4>2
    <3>5. QED
      BY <1>2, <3>2, <3>3, <3>4 DEF TInv, Lists
  <2>3. QED
    BY <1>6, <2>1, <2>2 DEF Handle
<1>7. CASE Service
  BY <1>2, <1>3, <1>6, <1>7 DEF Service, TInv
<1>8. CASE Elsewhere
  <2>1. CallsTyped' /\ started' = started
    BY <1>1, <1>8 DEF Elsewhere, Other, CallsTyped
  <2>2. stored' \in Seq(Conns) /\ active' \in Seq(Session)
    BY <1>1, <1>4, <1>5, <1>8 DEF Elsewhere, Other
  <2>3. QED
    BY <1>2, <1>3, <2>1, <2>2 DEF TInv, Lists
<1>9. QED
  BY <1>7, <1>8

\* The row the user deletes is taken off the screen.
LEMMA RemoveAtType ==
  ASSUME NEW S, NEW s \in Seq(S), NEW i \in DOMAIN s
  PROVE  RemoveAt(s, i) \in Seq(S)
<1>1. i \in Nat /\ 1 <= i /\ i <= Len(s) /\ Len(s) \in Nat
  OBVIOUS
<1>2. /\ SubSeq(s, 1, i - 1) \in Seq(S)
      /\ SubSeq(s, i + 1, Len(s)) \in Seq(S)
  BY <1>1
<1>3. QED
  BY <1>2 DEF RemoveAt

\* A session of a list is selected.
LEMMA SelectTyped ==
  ASSUME VInv, CallsTyped, NEW n \in Slot, NEW list \in Seq(Session),
         NEW i \in 1 .. Len(list), SelectSession(n, list, i), sessions' = list
  PROVE  CallsTyped' /\ Selection'
<1>1. PICK r : r = Request("ticket", list[i].conn, "viewer", list[i].conn)
  OBVIOUS
<1>2. CallTyped(r)
  BY <1>1, RequestTyped DEF Ops
<1>3. calls' = [Outdated(calls) EXCEPT ![n] = r]
  BY <1>1 DEF SelectSession
<1>4. CallsTyped'
  BY <1>2, <1>3, PutsTyped
<1>5. list[i] \in Session /\ i \in 0 .. Len(list)
  OBVIOUS
<1>6. list[i].conn \in Conns
  BY <1>5 DEF Session
<1>7. Selection'
  BY <1>5, <1>6 DEF SelectSession, Selection
<1>8. QED
  BY <1>4, <1>7

\* What the user does: a form opens empty or with the connection of a row, and
\* a row has a number.
LEMMA UserTInv == VInv /\ TInv /\ User => TInv'
<1> SUFFICES ASSUME VInv, TInv, User PROVE TInv'
  OBVIOUS
<1>1. /\ connections \in Seq(Conns) /\ sessions \in Seq(Session) /\ CallsTyped
      /\ UNCHANGED <<stored, active, started>> /\ moves' \in 0 .. MaxMoves
  BY AdminAssumption DEF TInv, Lists, User, AdminAssumption
<1>2. CASE OpenAdd \/ Cancel \/ \E i \in DOMAIN connections : OpenEdit(i)
  <2>1. FormTyped'
    BY <1>1, <1>2 DEF OpenAdd, Cancel, CloseEditor, OpenEdit, FormTyped
  <2>2. UNCHANGED <<calls, connections, sessions, selected, viewer, wanted>>
    BY <1>2 DEF OpenAdd, Cancel, OpenEdit
  <2>3. QED
    BY <1>1, <2>1, <2>2 DEF TInv, CallsTyped, Lists, Selection
<1>3. CASE ToolbarDisconnect
  <2>1. CallsTyped'
    BY <1>1, <1>3, OutdatedTyped DEF ToolbarDisconnect, CallsTyped
  <2>2. Selection'
    BY <1>1, <1>3 DEF ToolbarDisconnect, CloseViewer, Selection
  <2>3. QED
    BY <1>1, <1>3, <2>1, <2>2 DEF ToolbarDisconnect, TInv, Lists, FormTyped
<1>4. ASSUME NEW n \in Slot, NEW op \in Ops, NEW arg, NEW for, NEW about,
             calls' = [calls EXCEPT ![n] = Request(op, arg, for, about)]
      PROVE  CallsTyped'
  <2>1. PICK r : r = Request(op, arg, for, about)
    OBVIOUS
  <2>2. CallTyped(r) /\ calls' = [calls EXCEPT ![n] = r]
    BY <1>4, <2>1, RequestTyped
  <2>3. QED
    BY <1>1, <2>2, PutsTyped
<1>5. ASSUME NEW n \in Slot, Reload(n) \/ Save(n) PROVE TInv'
  <2>1. \E op \in Ops : \E arg, for, about :
            calls' = [calls EXCEPT ![n] = Request(op, arg, for, about)]
    BY <1>5, Zenon DEF Reload, Save, Send, Ops
  <2>2. UNCHANGED screen
    BY <1>5 DEF Reload, Save
  <2>3. CallsTyped'
    BY <1>4, <2>1
  <2>4. QED
    BY <1>1, <2>2, <2>3 DEF TInv, Lists, FormTyped, Selection
<1>6. ASSUME NEW n \in Slot, NEW i \in DOMAIN connections,
             RemoveRow(n, i) \/ Connect(n, i)
      PROVE  TInv'
  <2>1. \E op \in Ops : \E arg, for, about :
            calls' = [calls EXCEPT ![n] = Request(op, arg, for, about)]
    BY <1>6, Zenon DEF RemoveRow, Connect, Send, Ops
  <2>2. /\ UNCHANGED <<sessions, form, editIndex, selected, viewer, wanted>>
        /\ connections' \in Seq(Conns)
    BY <1>1, <1>6, RemoveAtType DEF RemoveRow, Connect
  <2>3. CallsTyped'
    BY <1>4, <2>1
  <2>4. QED
    BY <1>1, <2>2, <2>3 DEF TInv, Lists, FormTyped, Selection
<1>7. ASSUME NEW n \in Slot, NEW i \in DOMAIN sessions, Disconnect(n, i)
      PROVE  TInv'
  <2>1. PICK q : q = Request("disconnect", sessions[i].id, "disconnect",
                             sessions[i].conn)
    OBVIOUS
  <2>2. PICK r : r = [q EXCEPT !.was = (i = selected)]
    OBVIOUS
  <2>3. calls' = [calls EXCEPT ![n] = r]
    BY <1>7, <2>1, <2>2, Zenon DEF Disconnect, Send
  <2>4. Shape(q) /\ q.op = "disconnect"
    BY <2>1, RequestShape
  <2>5. r.op = "disconnect"
    BY <2>2, <2>4, FieldKeeps, Zenon
  <2>6. CallTyped(r)
    BY <2>5 DEF CallTyped, Ops
  <2>7. CallsTyped'
    BY <1>1, <2>3, <2>6, PutsTyped
  <2>8. UNCHANGED screen
    BY <1>7 DEF Disconnect
  <2>9. QED
    BY <1>1, <2>7, <2>8 DEF TInv, Lists, FormTyped, Selection
<1>8. ASSUME NEW n \in Slot, NEW i \in DOMAIN sessions, Select(n, i) PROVE TInv'
  <2>1. CallsTyped' /\ Selection'
    BY <1>1, <1>8, SelectTyped DEF Select
  <2>2. QED
    BY <1>1, <1>8, <2>1 DEF Select, TInv, Lists, FormTyped
<1>9. QED
  BY <1>2, <1>3, <1>5, <1>6, <1>7, <1>8, Zenon DEF User
\* What the app does with an answer: a list it takes over is one, the selection
\* stays a row of the new list, and the form is closed, never turned into
\* another.
LEMMA ContinueTInv == ASSUME VInv, TInv, NEW n \in Slot, Continue(n) PROVE TInv'
<1>1. /\ calls[n] # Nil /\ calls[n].answer # Nil /\ CallTyped(calls[n])
      /\ UNCHANGED <<stored, active, started, moves>> /\ CallsTyped
  BY DEF Continue, TInv, CallsTyped
<1>2. ASSUME \/ calls' = [calls EXCEPT ![n] = Nil]
             \/ \E op \in {"list", "active"} : \E arg, for, about :
                   calls' = [calls EXCEPT ![n] = Request(op, arg, for, about)]
      PROVE  CallsTyped'
  <2>1. CASE calls' = [calls EXCEPT ![n] = Nil]
    BY <1>1, <2>1, PutsTyped
  <2>2. ASSUME NEW op \in {"list", "active"}, NEW arg, NEW for, NEW about,
               calls' = [calls EXCEPT ![n] = Request(op, arg, for, about)]
        PROVE  CallsTyped'
    <3>1. PICK r : r = Request(op, arg, for, about)
      OBVIOUS
    <3>2. CallTyped(r)
      BY <3>1, RequestTyped DEF Ops
    <3>3. QED
      BY <1>1, <2>2, <3>1, <3>2, PutsTyped
  <2>3. QED
    BY <1>2, <2>1, <2>2
<1>3. CASE Ticket(n)
  <2>1. CallsTyped'
    BY <1>2, <1>3 DEF Ticket, Done, Send
  <2>2. viewer' = viewer \/ (calls[n].current /\ viewer' = calls[n].arg)
    BY <1>3 DEF Ticket
  <2>3. viewer' \in {viewer, wanted}
    BY <1>1, <1>3, <2>2 DEF Ticket, VInv, Calls, CurrentIsWanted
  <2>4. QED
    BY <1>1, <1>3, <2>1, <2>3 DEF Ticket, TInv, Lists, FormTyped, Selection
<1>4. CASE List(n)
  <2>1. CallsTyped'
    <3>1. \/ calls' = [calls EXCEPT ![n] = Nil]
          \/ \E op \in {"list", "active"} : \E arg, for, about :
                calls' = [calls EXCEPT ![n] = Request(op, arg, for, about)]
      BY <1>4, Zenon DEF List, Send
    <3>2. QED
      BY <1>2, <3>1
  <2>2. connections' \in Seq(Conns)
    BY <1>1, <1>4 DEF List, CallTyped, TInv, Lists
  <2>3. QED
    BY <1>1, <1>4, <2>1, <2>2 DEF List, TInv, Lists, FormTyped, Selection
<1>5. CASE Active(n)
  <2>1. PICK list \in Seq(Session) : list = Listed(calls[n].answer)
    BY <1>1, <1>5 DEF CallTyped, Active
  <2>2. PICK new : new = IF calls[n].for = "connect"
                         THEN NewIndex(list, calls[n].arg) ELSE 0
    OBVIOUS
  <2>3. /\ sessions' = list /\ UNCHANGED <<connections, form, editIndex>>
        /\ \/ new # 0 /\ SelectSession(n, list, new)
           \/ /\ new = 0
              /\ selected' = IF selected > Len(list) THEN 0 ELSE selected
              /\ \/ calls' = [calls EXCEPT ![n] = Nil]
                 \/ \E op \in {"list", "active"} : \E arg, for, about :
                       calls' = [calls EXCEPT ![n] = Request(op, arg, for, about)]
              /\ UNCHANGED <<viewer, wanted>>
    BY <1>5, <2>1, <2>2, Zenon DEF Active, Send
  <2>4. CallsTyped' /\ Selection'
    <3>1. CASE new # 0 /\ SelectSession(n, list, new)
      <4>1. new \in 1 .. Len(list)
        BY <2>2, <3>1, NewIndexFinds
      <4>2. QED
        BY <1>1, <2>3, <3>1, <4>1, SelectTyped
    <3>2. CASE new = 0
      <4>1. CallsTyped'
        BY <1>2, <2>3, <3>2
      <4>2. selected' \in 0 .. Len(list)
        BY <2>3, <3>2 DEF TInv, Selection
      <4>3. QED
        BY <2>3, <3>2, <4>1, <4>2 DEF TInv, Selection
    <3>3. QED
      BY <2>3, <3>1, <3>2
  <2>5. QED
    BY <1>1, <2>3, <2>4 DEF TInv, Lists, FormTyped
<1>6. CASE Saved(n)
  <2>1. CallsTyped'
    <3>1. \/ calls' = [calls EXCEPT ![n] = Nil]
          \/ \E op \in {"list", "active"} : \E arg, for, about :
                calls' = [calls EXCEPT ![n] = Request(op, arg, for, about)]
      BY <1>6, Zenon DEF Saved, Done, Send
    <3>2. QED
      BY <1>2, <3>1
  <2>2. FormTyped'
    BY <1>6 DEF Saved, CloseEditor, TInv, FormTyped
  <2>3. QED
    BY <1>1, <1>6, <2>1, <2>2 DEF Saved, TInv, Lists, Selection
<1>7. CASE RemoveAnswered(n) \/ Connected(n)
  <2>1. CallsTyped'
    <3>1. \/ calls' = [calls EXCEPT ![n] = Nil]
          \/ \E op \in {"list", "active"} : \E arg, for, about :
                calls' = [calls EXCEPT ![n] = Request(op, arg, for, about)]
      BY <1>7, Zenon DEF RemoveAnswered, Connected, Done, Send
    <3>2. QED
      BY <1>2, <3>1
  <2>2. UNCHANGED screen
    BY <1>7 DEF RemoveAnswered, Connected
  <2>3. QED
    BY <1>1, <2>1, <2>2 DEF TInv, Lists, FormTyped, Selection
<1>8. CASE Disconnected(n)
  <2>1. PICK r : r = IF calls[n].answer.ok
                     THEN Request("active", Nil, "disconnect", Nil) ELSE Nil
    OBVIOUS
  <2>2. r = Nil \/ CallTyped(r)
    BY <2>1, RequestTyped DEF Ops
  <2>3. \/ calls' = [calls EXCEPT ![n] = r]
        \/ calls' = [Outdated(calls) EXCEPT ![n] = r]
    BY <1>8, <2>1 DEF Disconnected
  <2>4. CallsTyped'
    BY <1>1, <2>2, <2>3, PutsTyped
  <2>5. /\ UNCHANGED <<connections, sessions, form, editIndex>>
        /\ \/ viewer' = Nil /\ wanted' = Nil /\ selected' = 0
           \/ UNCHANGED <<viewer, wanted, selected>>
    BY <1>8 DEF Disconnected, CloseViewer
  <2>6. Selection'
    BY <2>5 DEF TInv, Lists, Selection
  <2>7. QED
    BY <1>1, <2>4, <2>5, <2>6 DEF TInv, Lists, FormTyped
<1>9. QED
  BY <1>3, <1>4, <1>5, <1>6, <1>7, <1>8 DEF Continue

\* Every step keeps the types.
LEMMA NextTInv == VInv /\ TInv /\ [Next]_vars => TInv'
<1> SUFFICES ASSUME VInv, TInv, [Next]_vars PROVE TInv'
  OBVIOUS
<1>1. CASE UNCHANGED vars
  BY <1>1 DEF TInv, CallsTyped, Lists, FormTyped, Selection
<1>2. CASE ViewerFails /\ UNCHANGED <<service, moves>>
  <2>1. CallsTyped'
    BY <1>2, OutdatedTyped DEF ViewerFails, TInv, CallsTyped
  <2>2. QED
    BY <1>2, <2>1 DEF ViewerFails, CloseViewer, TInv, Lists, FormTyped, Selection
<1>3. ASSUME NEW n \in Slot, FetchFails(n) PROVE TInv'
  <2>1. CallsTyped'
    BY <1>3, PutsTyped DEF FetchFails, Done, Send, TInv
  <2>2. QED
    BY <1>3, <2>1 DEF FetchFails, TInv, Lists, FormTyped, Selection
<1>4. QED
  BY <1>1, <1>2, <1>3, ServiceTInv, UserTInv, ContinueTInv DEF Next

\* Both invariants hold in every behaviour.
LEMMA TInvHolds == Spec => []TInv
  BY InitVInv, InitTInv, NextVInv, NextTInv, PTL DEF Spec

\* Every variable of the app keeps its type, and the selection is a row of the
\* list, however the lists shrink and grow under it: loadSessions looks at it
\* again whenever it replaces the list.
THEOREM AdminTypeCorrect == Spec => []TypeOK
  BY TInvHolds, TInvTypes, PTL
=============================================================================
