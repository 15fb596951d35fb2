---------------------------- MODULE SessionProofs ----------------------------
(***************************************************************************)
(* Proofs about Sessions for every number of persons, tokens, requests and  *)
(* refreshes, every pair of durations and an unbounded clock range: first   *)
(* its invariants, then that it implements SessionService.                  *)
(***************************************************************************)
EXTENDS Sessions, TLAPS

\* A request at one of its handler's steps is a working one.
LEMMA WorkingRequest ==
    ASSUME TypeOK, NEW r \in Requests, NEW step, At(r, step), step # "answered"
    PROVE  req[r] \in Working
  BY DEF TypeOK, At, Working, Answered

\* An answered request has a status and a cookie.
LEMMA AnsweredRequest ==
    ASSUME TypeOK, NEW r \in Requests, At(r, "answered")
    PROVE  req[r] \in Answered
  BY DEF TypeOK, At, Working, Answered

\* Answering a working request keeps the requests typed.
LEMMA AnswerTyped ==
    ASSUME TypeOK, NEW r \in Requests, req[r] \in Working,
           NEW status \in {200, 201, 400, 401, 500}, NEW cookie \in Tokens \cup {None},
           Answer(r, status, cookie)
    PROVE  req' \in [Requests -> Working \cup Answered \cup {None}]
<1>1. [op |-> req[r].op, who |-> req[r].who, at |-> "answered",
       status |-> status, set |-> cookie] \in Answered
  BY DEF Working, Answered
<1> QED
  BY <1>1 DEF TypeOK, Answer

\* So does moving it to its next step.
LEMMA GoOnTyped ==
    ASSUME TypeOK, NEW r \in Requests, req[r] \in Working,
           NEW step \in {"stamp", "insert"}, NEW instant \in Nat,
           GoOn(r, step, instant)
    PROVE  req' \in [Requests -> Working \cup Answered \cup {None}]
<1>1. [req[r] EXCEPT !.at = step, !.stamp = instant] \in Working
  BY DEF Working
<1> QED
  BY <1>1 DEF TypeOK, GoOn

LEMMA NewRowTyped ==
    ASSUME NEW person \in Persons, NEW instant \in Nat
    PROVE  NewRow(person, instant) \in Row
  BY SessionAssumption DEF NewRow, Row, Stored

LEMMA RenewedTyped ==
    ASSUME NEW row \in Row, NEW instant \in Nat
    PROVE  Renewed(row, instant) \in Row
  BY SessionAssumption DEF Renewed, Row, Stored

-----------------------------------------------------------------------------
LEMMA TypeInit == Init => TypeOK
  BY SessionAssumption DEF Init, TypeOK

LEMMA TypeStep == TypeOK /\ [Next]_vars => TypeOK'
<1> SUFFICES ASSUME TypeOK, [Next]_vars
             PROVE  TypeOK'
  OBVIOUS
<1> USE SessionAssumption
<1>1. ASSUME NEW r \in Requests, NEW p \in Persons, NEW op \in Ops, Send(r, p, op)
      PROVE  TypeOK'
  BY <1>1 DEF TypeOK, Send, Shown, history, Working, FirstStep, Ops
<1>2. ASSUME NEW r \in Requests, Invalid(r)
      PROVE  TypeOK'
  <2>1. req[r] \in Working
    BY <1>2, WorkingRequest DEF Invalid
  <2> QED
    BY <1>2, <2>1, AnswerTyped DEF TypeOK, Invalid, history
<1>3. ASSUME NEW r \in Requests, FindPrincipal(r)
      PROVE  TypeOK'
  <2>1. req[r] \in Working
    BY <1>3, WorkingRequest DEF FindPrincipal
  <2>2. req' \in [Requests -> Working \cup Answered \cup {None}]
    BY <1>3, <2>1, AnswerTyped, GoOnTyped DEF FindPrincipal
  <2> QED
    BY <1>3, <2>2 DEF TypeOK, FindPrincipal, history
<1>4. ASSUME NEW r \in Requests, CreatePrincipal(r)
      PROVE  TypeOK'
  <2>1. req[r] \in Working
    BY <1>4, WorkingRequest DEF CreatePrincipal
  <2>2. req' \in [Requests -> Working \cup Answered \cup {None}]
    BY <1>4, <2>1, AnswerTyped, GoOnTyped DEF CreatePrincipal
  <2>3. accounts' \subseteq Persons
    BY <1>4, <2>1 DEF CreatePrincipal, TypeOK, Working
  <2> QED
    BY <1>4, <2>2, <2>3 DEF TypeOK, CreatePrincipal, history
<1>5. ASSUME NEW r \in Requests, StampSession(r)
      PROVE  TypeOK'
  <2>1. req[r] \in Working
    BY <1>5, WorkingRequest DEF StampSession
  <2>2. now \in Nat
    BY DEF TypeOK
  <2>3. req' \in [Requests -> Working \cup Answered \cup {None}]
    BY <1>5, <2>1, <2>2, GoOnTyped DEF StampSession
  <2> QED
    BY <1>5, <2>3 DEF TypeOK, StampSession, history
<1>6. ASSUME NEW r \in Requests, InsertSession(r)
      PROVE  TypeOK'
  <2>1. req[r] \in Working
    BY <1>6, WorkingRequest DEF InsertSession
  <2>2. PICK t \in Tokens \ used :
          /\ used' = used \cup {t}
          /\ sessions' = [sessions EXCEPT ![t] = NewRow(req[r].who, req[r].stamp)]
          /\ born' = [born EXCEPT ![t] = req[r].stamp]
          /\ renewed' = [renewed EXCEPT ![t] = req[r].stamp]
          /\ Answer(r, IF req[r].op = "register" THEN 201 ELSE 200, t)
    BY <1>6 DEF InsertSession
  <2>3. req' \in [Requests -> Working \cup Answered \cup {None}]
    BY <2>1, <2>2, AnswerTyped
  <2>4. req[r].who \in Persons /\ req[r].stamp \in Nat
    BY <2>1 DEF Working
  <2>5. sessions' \in [Tokens -> Row \cup {None}]
    BY <2>2, <2>4, NewRowTyped DEF TypeOK
  <2> QED
    BY <1>6, <2>2, <2>3, <2>4, <2>5 DEF TypeOK, InsertSession
<1>7. ASSUME NEW r \in Requests, DeleteSession(r)
      PROVE  TypeOK'
  <2>1. req[r] \in Working
    BY <1>7, WorkingRequest DEF DeleteSession
  <2>2. req' \in [Requests -> Working \cup Answered \cup {None}]
    BY <1>7, <2>1, AnswerTyped DEF DeleteSession
  <2>3. /\ sessions' \in [Tokens -> Row \cup {None}]
        /\ ended' \subseteq Tokens
    BY <1>7, <2>1 DEF DeleteSession, TypeOK, Working
  <2> QED
    BY <1>7, <2>2, <2>3 DEF TypeOK, DeleteSession
<1>8. ASSUME NEW r \in Requests, Accept(r)
      PROVE  TypeOK'
  <2>1. req[r] \in Working
    BY <1>8, WorkingRequest DEF Accept
  <2>2. req' \in [Requests -> Working \cup Answered \cup {None}]
    BY <1>8, <2>1, AnswerTyped DEF Accept
  <2>3. refresh' \in [Refreshers -> Refreshing \cup {None}]
    BY <1>8, <2>1 DEF Accept, Acceptable, TypeOK, Working, Refreshing
  <2> QED
    BY <1>8, <2>2, <2>3 DEF TypeOK, Accept, history
<1>9. ASSUME NEW r \in Requests, Reject(r)
      PROVE  TypeOK'
  <2>1. req[r] \in Working
    BY <1>9, WorkingRequest DEF Reject
  <2> QED
    BY <1>9, <2>1, AnswerTyped DEF TypeOK, Reject, history
<1>10. ASSUME NEW r \in Requests, Fail(r)
       PROVE  TypeOK'
  <2>1. req[r] \in Working
    BY <1>10, WorkingRequest DEF Fail
  <2>2. req' \in [Requests -> Working \cup Answered \cup {None}]
    BY <1>10, <2>1, AnswerTyped DEF Fail
  <2> QED
    BY <1>10, <2>2 DEF TypeOK, Fail, history
<1>11. ASSUME NEW r \in Requests, Receive(r)
       PROVE  TypeOK'
  <2>1. req[r] \in Answered
    BY <1>11, AnsweredRequest DEF Receive
  <2> QED
    BY <1>11, <2>1 DEF TypeOK, Receive, history, Answered
<1>12. ASSUME NEW r \in Requests, Lose(r)
       PROVE  TypeOK'
  BY <1>12 DEF TypeOK, Lose, history
<1>13. ASSUME NEW f \in Refreshers, StampRefresh(f)
       PROVE  TypeOK'
  <2>1. refresh[f] \in Refreshing /\ now \in Nat
    BY <1>13 DEF StampRefresh, RefreshAt, TypeOK
  <2>2. [refresh[f] EXCEPT !.at = "update", !.instant = now] \in Refreshing
    BY <2>1 DEF Refreshing
  <2> QED
    BY <1>13, <2>2 DEF TypeOK, StampRefresh, history
<1>14. ASSUME NEW f \in Refreshers, UpdateIdle(f)
       PROVE  TypeOK'
  <2>1. refresh[f].token \in Tokens /\ refresh[f].instant \in Nat
    BY <1>14 DEF UpdateIdle, RefreshAt, TypeOK, Refreshing
  <2>2. /\ sessions' \in [Tokens -> Row \cup {None}]
        /\ renewed' \in [Tokens -> Nat]
    <3>1. CASE refresh[f].token \in Rows
      <4>1. sessions[refresh[f].token] \in Row
        BY <3>1 DEF Rows, TypeOK
      <4>2. Renewed(sessions[refresh[f].token], refresh[f].instant) \in Row
        BY <2>1, <4>1, RenewedTyped
      <4> QED
        BY <1>14, <2>1, <3>1, <4>2 DEF UpdateIdle, TypeOK
    <3>2. CASE refresh[f].token \notin Rows
      BY <1>14, <3>2 DEF UpdateIdle, TypeOK
    <3> QED
      BY <3>1, <3>2
  <2> QED
    BY <1>14, <2>2 DEF TypeOK, UpdateIdle
<1>15. ASSUME NEW f \in Refreshers, FailRefresh(f)
       PROVE  TypeOK'
  BY <1>15 DEF TypeOK, FailRefresh, history
<1>16. CASE DeleteExpiredSessions
  BY <1>16 DEF TypeOK, DeleteExpiredSessions, history
<1>17. CASE Restart
  BY <1>17 DEF TypeOK, Restart, history
<1>18. CASE Tick
  BY <1>18 DEF TypeOK, Tick, history
<1>19. CASE UNCHANGED vars
  BY <1>19 DEF TypeOK, vars
<1> QED
  BY <1>1, <1>2, <1>3, <1>4, <1>5, <1>6, <1>7, <1>8, <1>9, <1>10, <1>11, <1>12,
     <1>13, <1>14, <1>15, <1>16, <1>17, <1>18, <1>19
  DEF Next, Handle, RefreshStep

\* The tables, requests and jars keep their types.
THEOREM SessionTypeTheorem == Spec => []TypeOK
  BY TypeInit, TypeStep, PTL DEF Spec
-----------------------------------------------------------------------------
(***************************************************************************)
(* Tokens are fresh: whatever names one - a row, a logout, a cookie on its  *)
(* way or kept - names one that was drawn, so an INSERT cannot bring a      *)
(* deleted session back, and an UPDATE only touches a row that is there.    *)
(***************************************************************************)
Fresh ==
    /\ Rows \subseteq used
    /\ ended \subseteq used
    /\ \A p \in Persons : jar[p] \in used \cup {None}
    /\ \A r \in Requests : req[r] # None =>
         /\ req[r].at # "answered" => req[r].cookie \in used \cup {None}
         /\ req[r].at = "answered" => req[r].set \in used \cup {None}

FinalInv == TypeOK /\ Fresh /\ LogoutIsFinal

LEMMA FinalInit == Init => FinalInv
  BY TypeInit DEF Init, FinalInv, Fresh, LogoutIsFinal, Rows

\* A step that draws no token, adds no row, and leaves logouts and jars alone
\* keeps the tokens fresh as long as it answers no new cookie.
LEMMA QuietStep ==
    ASSUME FinalInv, TypeOK', used' = used, jar' = jar, ended' = ended,
           \A t \in Tokens : sessions[t] = None => sessions'[t] = None,
           \A r \in Requests : req'[r] # None =>
             /\ req'[r].at # "answered" => req'[r].cookie \in used \cup {None}
             /\ req'[r].at = "answered" => req'[r].set \in used \cup {None}
    PROVE  FinalInv'
  BY DEF FinalInv, Fresh, LogoutIsFinal, Rows, TypeOK

\* The requests after an answer: one has its answer, the rest are as before.
LEMMA AnswerFresh ==
    ASSUME FinalInv, NEW r \in Requests, req[r] # None,
           NEW status, NEW cookie \in used' \cup {None}, used \subseteq used',
           Answer(r, status, cookie)
    PROVE  \A x \in Requests : req'[x] # None =>
             /\ req'[x].at # "answered" => req'[x].cookie \in used' \cup {None}
             /\ req'[x].at = "answered" => req'[x].set \in used' \cup {None}
  BY DEF FinalInv, Fresh, TypeOK, Answer

LEMMA GoOnFresh ==
    ASSUME FinalInv, NEW r \in Requests, req[r] # None, req[r] \in Working,
           NEW step \in {"stamp", "insert"}, NEW instant, GoOn(r, step, instant)
    PROVE  \A x \in Requests : req'[x] # None =>
             /\ req'[x].at # "answered" => req'[x].cookie \in used \cup {None}
             /\ req'[x].at = "answered" => req'[x].set \in used \cup {None}
<1>1. /\ req'[r].cookie = req[r].cookie /\ req[r].at # "answered"
      /\ req'[r].at = step
  BY DEF FinalInv, TypeOK, GoOn, Working
<1>2. \A x \in Requests : x # r => req'[x] = req[x]
  BY DEF FinalInv, TypeOK, GoOn
<1> QED
  BY <1>1, <1>2 DEF FinalInv, Fresh

LEMMA FinalStep == FinalInv /\ [Next]_vars => FinalInv'
<1> SUFFICES ASSUME FinalInv, [Next]_vars
             PROVE  FinalInv'
  OBVIOUS
<1>0. TypeOK /\ TypeOK'
  BY TypeStep DEF FinalInv
<1>1. ASSUME NEW r \in Requests, NEW p \in Persons, NEW op \in Ops, Send(r, p, op)
      PROVE  FinalInv'
  <2>1. \A x \in Requests : req'[x] # None =>
          /\ req'[x].at # "answered" => req'[x].cookie \in used \cup {None}
          /\ req'[x].at = "answered" => req'[x].set \in used \cup {None}
    <3>1. req'[r].cookie \in {jar[p], None} /\ req'[r].at # "answered"
      BY <1>0, <1>1 DEF Send, Shown, TypeOK, FirstStep, Ops
    <3> QED
      BY <1>0, <1>1, <3>1 DEF FinalInv, Fresh, Send, TypeOK
  <2> QED
    BY <1>0, <1>1, <2>1, QuietStep DEF Send, history
<1>2. ASSUME NEW r \in Requests,
             Invalid(r) \/ FindPrincipal(r) \/ CreatePrincipal(r) \/ StampSession(r)
               \/ Accept(r) \/ Reject(r) \/ Fail(r)
      PROVE  FinalInv'
  <2>1. req[r] # None /\ req[r] \in Working
    BY <1>0, <1>2, WorkingRequest
    DEF Invalid, FindPrincipal, CreatePrincipal, StampSession, Accept, Reject, Fail, At
  <2>2. /\ used' = used /\ jar' = jar /\ ended' = ended /\ sessions' = sessions
        /\ \/ \E status : Answer(r, status, None)
           \/ \E step \in {"stamp", "insert"} : \E instant : GoOn(r, step, instant)
    BY <1>2
    DEF Invalid, FindPrincipal, CreatePrincipal, StampSession, Accept, Reject, Fail, history
  <2>3. \A x \in Requests : req'[x] # None =>
          /\ req'[x].at # "answered" => req'[x].cookie \in used \cup {None}
          /\ req'[x].at = "answered" => req'[x].set \in used \cup {None}
    <3>1. CASE \E status : Answer(r, status, None)
      BY <2>1, <2>2, <3>1, AnswerFresh
    <3>2. CASE \E step \in {"stamp", "insert"} : \E instant : GoOn(r, step, instant)
      BY <2>1, <3>2, GoOnFresh
    <3> QED
      BY <2>2, <3>1, <3>2
  <2> QED
    BY <1>0, <2>2, <2>3, QuietStep
<1>3. ASSUME NEW r \in Requests, InsertSession(r)
      PROVE  FinalInv'
  <2>1. req[r] # None
    BY <1>3 DEF InsertSession, At
  <2>2. PICK t \in Tokens \ used :
          /\ used' = used \cup {t}
          /\ sessions' = [sessions EXCEPT ![t] = NewRow(req[r].who, req[r].stamp)]
          /\ Answer(r, IF req[r].op = "register" THEN 201 ELSE 200, t)
    BY <1>3 DEF InsertSession
  <2>3. \A x \in Requests : req'[x] # None =>
          /\ req'[x].at # "answered" => req'[x].cookie \in used' \cup {None}
          /\ req'[x].at = "answered" => req'[x].set \in used' \cup {None}
    BY <2>1, <2>2, AnswerFresh
  <2>4. jar' = jar /\ ended' = ended
    BY <1>3 DEF InsertSession
  <2>5. Rows' \subseteq used' /\ LogoutIsFinal'
    BY <1>0, <2>2, <2>4 DEF FinalInv, Fresh, LogoutIsFinal, Rows, TypeOK
  <2> QED
    BY <1>0, <2>2, <2>3, <2>4, <2>5 DEF FinalInv, Fresh
<1>4. ASSUME NEW r \in Requests, DeleteSession(r)
      PROVE  FinalInv'
  <2>1. req[r] # None /\ Answer(r, 200, None) /\ used' = used /\ jar' = jar
    BY <1>4 DEF DeleteSession, At
  <2>2. \A x \in Requests : req'[x] # None =>
          /\ req'[x].at # "answered" => req'[x].cookie \in used' \cup {None}
          /\ req'[x].at = "answered" => req'[x].set \in used' \cup {None}
    BY <2>1, AnswerFresh
  <2>3. req[r].cookie \in used \cup {None}
    BY <1>4 DEF DeleteSession, At, FinalInv, Fresh
  <2>4. ended' \subseteq used' /\ Rows' \subseteq used' /\ LogoutIsFinal'
    BY <1>0, <1>4, <2>1, <2>3
    DEF DeleteSession, FinalInv, Fresh, LogoutIsFinal, Rows, TypeOK
  <2> QED
    BY <1>0, <2>1, <2>2, <2>4 DEF FinalInv, Fresh
<1>5. ASSUME NEW r \in Requests, Receive(r) \/ Lose(r)
      PROVE  FinalInv'
  <2>1. /\ \A x \in Requests : req'[x] # None => req'[x] = req[x]
        /\ \A x \in Persons : jar'[x] \in used \cup {None}
        /\ used' = used /\ ended' = ended /\ sessions' = sessions
    BY <1>0, <1>5 DEF Receive, Lose, At, FinalInv, Fresh, TypeOK, history
  <2> QED
    BY <1>0, <2>1 DEF FinalInv, Fresh, LogoutIsFinal, Rows
<1>6. ASSUME NEW f \in Refreshers, RefreshStep(f) \/ FailRefresh(f)
      PROVE  FinalInv'
  <2>1. /\ used' = used /\ ended' = ended /\ jar' = jar /\ req' = req
        /\ \A t \in Tokens : sessions[t] = None => sessions'[t] = None
    BY <1>0, <1>6
    DEF RefreshStep, StampRefresh, UpdateIdle, FailRefresh, Rows, TypeOK, history
  <2> QED
    BY <1>0, <2>1, QuietStep DEF FinalInv, Fresh
<1>7. CASE DeleteExpiredSessions
  <2>1. /\ used' = used /\ ended' = ended /\ jar' = jar /\ req' = req
        /\ \A t \in Tokens : sessions[t] = None => sessions'[t] = None
    BY <1>7 DEF DeleteExpiredSessions, Rows, history
  <2> QED
    BY <1>0, <2>1, QuietStep DEF FinalInv, Fresh
<1>8. CASE Restart
  <2>1. /\ used' = used /\ ended' = ended /\ jar' = jar /\ sessions' = sessions
        /\ \A x \in Requests : req'[x] = None
    BY <1>8 DEF Restart, history
  <2> QED
    BY <1>0, <2>1, QuietStep
<1>9. CASE Tick
  BY <1>0, <1>9, QuietStep DEF Tick, FinalInv, Fresh, history
<1>10. CASE UNCHANGED vars
  BY <1>0, <1>10, QuietStep DEF vars, FinalInv, Fresh
<1> QED
  BY <1>1, <1>2, <1>3, <1>4, <1>5, <1>6, <1>7, <1>8, <1>9, <1>10
  DEF Next, Handle, RefreshStep

\* No refresh, login or restart brings a logged-out session back.
THEOREM LogoutTheorem == Spec => []LogoutIsFinal
<1>1. FinalInv => LogoutIsFinal
  BY DEF FinalInv
<1> QED
  BY FinalInit, FinalStep, <1>1, PTL DEF Spec

-----------------------------------------------------------------------------
(***************************************************************************)
(* What the stored expiries were computed from.                             *)
(***************************************************************************)
Dated ==
    \A t \in Rows :
        /\ sessions[t].absolute = Stored(born[t] + SessionDuration)
        /\ sessions[t].idle = Stored(renewed[t] + IdleDuration)

DatedInv == FinalInv /\ Dated

LEMMA DatedInit == Init => DatedInv
  BY FinalInit DEF Init, DatedInv, Dated, Rows

\* Rows that stay as they were, or go, stay dated.
LEMMA UntouchedRows ==
    ASSUME DatedInv, born' = born, renewed' = renewed,
           \A t \in Tokens : sessions'[t] = sessions[t] \/ sessions'[t] = None
    PROVE  Dated'
  BY DEF DatedInv, Dated, Rows

LEMMA DatedStep == DatedInv /\ [Next]_vars => DatedInv'
<1> SUFFICES ASSUME DatedInv, [Next]_vars
             PROVE  DatedInv'
  OBVIOUS
<1>0. FinalInv /\ FinalInv' /\ TypeOK
  BY FinalStep DEF DatedInv, FinalInv
<1>1. ASSUME NEW r \in Requests, InsertSession(r)
      PROVE  Dated'
  <2>1. req[r] \in Working
    BY <1>0, <1>1, WorkingRequest DEF InsertSession
  <2>2. PICK t \in Tokens \ used :
          /\ sessions' = [sessions EXCEPT ![t] = NewRow(req[r].who, req[r].stamp)]
          /\ born' = [born EXCEPT ![t] = req[r].stamp]
          /\ renewed' = [renewed EXCEPT ![t] = req[r].stamp]
    BY <1>1 DEF InsertSession
  <2>3. ASSUME NEW x \in Rows'
        PROVE  /\ sessions'[x].absolute = Stored(born'[x] + SessionDuration)
               /\ sessions'[x].idle = Stored(renewed'[x] + IdleDuration)
    <3>1. CASE x = t
      BY <1>0, <2>2, <3>1 DEF NewRow, TypeOK
    <3>2. CASE x # t
      <4>1. x \in Rows /\ sessions'[x] = sessions[x] /\ born'[x] = born[x] /\ renewed'[x] = renewed[x]
        BY <1>0, <2>2, <2>3, <3>2 DEF Rows, TypeOK
      <4> QED
        BY <4>1 DEF DatedInv, Dated
    <3> QED
      BY <3>1, <3>2
  <2> QED
    BY <2>3 DEF Dated
<1>2. ASSUME NEW f \in Refreshers, UpdateIdle(f)
      PROVE  Dated'
  <2>1. CASE refresh[f].token \in Rows
    <3> DEFINE t == refresh[f].token
    <3>1. /\ sessions' = [sessions EXCEPT ![t] = Renewed(sessions[t], refresh[f].instant)]
          /\ renewed' = [renewed EXCEPT ![t] = refresh[f].instant]
          /\ born' = born
      BY <1>2, <2>1 DEF UpdateIdle
    <3>2. t \in Tokens /\ sessions[t] \in Row
      BY <1>0, <2>1 DEF Rows, TypeOK
    <3>3. /\ Renewed(sessions[t], refresh[f].instant).absolute = sessions[t].absolute
          /\ Renewed(sessions[t], refresh[f].instant).idle = Stored(refresh[f].instant + IdleDuration)
      BY <3>2 DEF Renewed, Row
    <3>4. ASSUME NEW x \in Rows'
          PROVE  /\ sessions'[x].absolute = Stored(born'[x] + SessionDuration)
                 /\ sessions'[x].idle = Stored(renewed'[x] + IdleDuration)
      <4>1. CASE x = t
        BY <1>0, <2>1, <3>1, <3>2, <3>3, <4>1 DEF DatedInv, Dated, TypeOK
      <4>2. CASE x # t
        <5>1. x \in Rows /\ sessions'[x] = sessions[x] /\ renewed'[x] = renewed[x]
          BY <1>0, <3>1, <3>4, <4>2 DEF Rows, TypeOK
        <5> QED
          BY <3>1, <5>1 DEF DatedInv, Dated
      <4> QED
        BY <4>1, <4>2
    <3> QED
      BY <3>4 DEF Dated
  <2>2. CASE refresh[f].token \notin Rows
    BY <1>2, <2>2, UntouchedRows DEF UpdateIdle
  <2> QED
    BY <2>1, <2>2
<1>3. ASSUME NEW r \in Requests, DeleteSession(r)
      PROVE  Dated'
  BY <1>0, <1>3, UntouchedRows DEF DeleteSession, TypeOK
<1>4. CASE DeleteExpiredSessions
  <2>1. /\ born' = born /\ renewed' = renewed
        /\ \A t \in Tokens : sessions'[t] = sessions[t] \/ sessions'[t] = None
    BY <1>4 DEF DeleteExpiredSessions, history
  <2> QED
    BY <1>0, <2>1, UntouchedRows DEF DatedInv
<1>5. CASE UNCHANGED <<sessions, born, renewed>>
  <2>1. born' = born /\ renewed' = renewed /\ sessions' = sessions
    BY <1>5
  <2> QED
    BY <1>0, <2>1, UntouchedRows DEF DatedInv
<1>6. \/ \E r \in Requests : InsertSession(r) \/ DeleteSession(r)
      \/ \E f \in Refreshers : UpdateIdle(f)
      \/ DeleteExpiredSessions
      \/ UNCHANGED <<sessions, born, renewed>>
  BY DEF Next, Handle, RefreshStep, vars, history, Send, Invalid, FindPrincipal,
         CreatePrincipal, StampSession, Accept, Reject, Fail, Receive, Lose,
         StampRefresh, FailRefresh, Restart, Tick
<1> QED
  BY <1>0, <1>1, <1>2, <1>3, <1>4, <1>5, <1>6 DEF DatedInv

\* Only Accept answers a request at its "get" with 200.
LEMMA AcceptedIsAcceptable ==
    ASSUME TypeOK, [Next]_vars, NEW r \in Requests, Accepted(r)
    PROVE  Acceptable(r)
<1>1. req'[r] # req[r]
  BY DEF Accepted, At
<1>2. ASSUME NEW x \in Requests, x # r,
             \/ \E status, cookie : Answer(x, status, cookie)
             \/ \E step, instant : GoOn(x, step, instant)
             \/ \E y : req' = [req EXCEPT ![x] = y]
      PROVE  FALSE
  BY <1>1, <1>2 DEF Answer, GoOn, TypeOK
<1>3. ASSUME NEW status, status # 200, Answer(r, status, None)
      PROVE  FALSE
  BY <1>3 DEF Accepted, Answer, TypeOK
<1>4. ~(\E step \in {"find", "create", "stamp", "insert", "delete", "answered"} : At(r, step))
  BY DEF Accepted, At
<1>5. ASSUME NEW x \in Requests, Reject(x) \/ Fail(x)
      PROVE  FALSE
  <2>1. PICK status : status # 200 /\ Answer(x, status, None)
    BY <1>5 DEF Reject, Fail
  <2> QED
    BY <1>2, <1>3, <2>1
<1>6. ASSUME NEW x \in Requests,
             \/ Invalid(x) \/ FindPrincipal(x) \/ CreatePrincipal(x)
             \/ StampSession(x) \/ InsertSession(x) \/ DeleteSession(x)
             \/ Receive(x) \/ Lose(x)
      PROVE  FALSE
  <2>1. x # r
    BY <1>4, <1>6
    DEF Invalid, FindPrincipal, CreatePrincipal, StampSession, InsertSession,
        DeleteSession, Receive, Lose
  <2> QED
    BY <1>2, <1>6, <2>1
    DEF Invalid, FindPrincipal, CreatePrincipal, StampSession, InsertSession,
        DeleteSession, Receive, Lose
<1>7. ASSUME NEW x \in Requests, NEW p \in Persons, NEW op \in Ops, Send(x, p, op)
      PROVE  FALSE
  <2>1. x # r
    BY <1>7 DEF Accepted, At, Send
  <2> QED
    BY <1>2, <1>7, <2>1 DEF Send
<1>8. ASSUME NEW x \in Requests, Accept(x)
      PROVE  Acceptable(r)
  <2>1. x = r
    BY <1>2, <1>8 DEF Accept
  <2> QED
    BY <1>8, <2>1 DEF Accept
<1>9. CASE Restart
  BY <1>9 DEF Accepted, Restart
<1>10. CASE req' = req
  BY <1>1, <1>10
<1> QED
  BY <1>5, <1>6, <1>7, <1>8, <1>9, <1>10
  DEF Next, Handle, RefreshStep, vars, StampRefresh, UpdateIdle, FailRefresh,
      DeleteExpiredSessions, Tick

\* What the stored stamps say of a session that is accepted.
LEMMA AcceptedInTime ==
    ASSUME DatedInv, [Next]_vars, NEW r \in Requests, Accepted(r)
    PROVE  /\ now <= born[req[r].cookie] + SessionDuration + Zone
           /\ now <= renewed[req[r].cookie] + IdleDuration + Zone
           /\ Zone <= 0 => /\ now <= born[req[r].cookie] + SessionDuration
                           /\ now <= renewed[req[r].cookie] + IdleDuration
<1> DEFINE t == req[r].cookie
<1>1. Acceptable(r) /\ TypeOK
  BY AcceptedIsAcceptable DEF DatedInv, FinalInv
<1>2. t \in Tokens
  BY <1>1, WorkingRequest DEF Accepted, Acceptable, Working
<1>3. t \in Rows /\ Live(sessions[t])
  BY <1>1, <1>2 DEF Acceptable, Rows
<1>4. /\ now <= Stored(born[t] + SessionDuration)
      /\ now <= Stored(renewed[t] + IdleDuration)
  <2>1. sessions[t].absolute >= now /\ sessions[t].idle >= now
    BY <1>3 DEF Live, Later
  <2>2. sessions[t] \in Row /\ now \in Int
    BY <1>1, <1>2, <1>3 DEF Rows, TypeOK
  <2> QED
    BY <1>3, <2>1, <2>2 DEF DatedInv, Dated, Row
<1>5. born[t] \in Nat /\ renewed[t] \in Nat /\ now \in Nat
  BY <1>1, <1>2 DEF TypeOK
<1> QED
  BY <1>4, <1>5, SessionAssumption DEF Stored

\* On a server at UTC or behind it, no refresh extends a session past its ceiling
\* (GetSessionByToken, UpdateSessionIdle).
THEOREM CeilingTheorem == Zone <= 0 => (Spec => CeilingHolds)
<1> SUFFICES ASSUME Zone <= 0
             PROVE  Spec => CeilingHolds
  OBVIOUS
<1>1. ASSUME DatedInv, [Next]_vars
      PROVE  [\A r \in Requests :
                Accepted(r) => now <= born[req[r].cookie] + SessionDuration]_vars
  BY <1>1, AcceptedInTime
<1> QED
  BY <1>1, DatedInit, DatedStep, PTL DEF Spec, CeilingHolds

\* On a server at UTC or behind it, a session is accepted only within the idle
\* duration of its creation or of the refresh whose UPDATE came last
\* (VerifySession).
THEOREM IdleTheorem == Zone <= 0 => (Spec => IdleWindowCloses)
<1> SUFFICES ASSUME Zone <= 0
             PROVE  Spec => IdleWindowCloses
  OBVIOUS
<1>1. ASSUME DatedInv, [Next]_vars
      PROVE  [\A r \in Requests :
                Accepted(r) => now <= renewed[req[r].cookie] + IdleDuration]_vars
  BY <1>1, AcceptedInTime
<1> QED
  BY <1>1, DatedInit, DatedStep, PTL DEF Spec, IdleWindowCloses

\* In every zone, what a session outlives its two expiries by is the offset of the
\* server's clock from UTC and no more, however often it is refreshed: a local time
\* is stored and UTC compared (VerifySession).
OverstaysByZone ==
    [][\A r \in Requests :
         Accepted(r) => /\ now <= born[req[r].cookie] + SessionDuration + Zone
                        /\ now <= renewed[req[r].cookie] + IdleDuration + Zone]_vars

\* The expiries hold up to the offset of the server's zone (VerifySession).
THEOREM OverstayTheorem == Spec => OverstaysByZone
<1>1. ASSUME DatedInv, [Next]_vars
      PROVE  [\A r \in Requests :
                Accepted(r) => /\ now <= born[req[r].cookie] + SessionDuration + Zone
                               /\ now <= renewed[req[r].cookie] + IdleDuration + Zone]_vars
  BY <1>1, AcceptedInTime
<1> QED
  BY <1>1, DatedInit, DatedStep, PTL DEF Spec, OverstaysByZone

\* A step that leaves the row of a token and its refreshes alone, or removes them,
\* cannot bring its session back: the clock only moves on.
LEMMA UntouchedLapses ==
    ASSUME TypeOK, NEW t \in Tokens, Lapsed(t), now' \in Int, now' >= now, used \subseteq used',
           sessions'[t] = sessions[t] \/ sessions'[t] = None,
           \A f \in Refreshers : refresh'[f] # None =>
             refresh[f] # None /\ refresh'[f].token = refresh[f].token
    PROVE  Lapsed(t)'
<1>1. t \in Rows' => t \in Rows /\ sessions'[t] = sessions[t]
  BY DEF Rows
<1>2. ASSUME t \in Rows'
      PROVE  ~(sessions'[t].absolute >= now' /\ sessions'[t].idle >= now')
  <2>1. sessions[t] \in Row /\ now \in Int /\ ~Live(sessions[t]) /\ sessions'[t] = sessions[t]
    BY <1>1, <1>2 DEF TypeOK, Lapsed, Rows
  <2>2. sessions[t].absolute \in Int /\ sessions[t].idle \in Int
    BY <2>1 DEF Row
  <2>3. ~(sessions[t].absolute >= now /\ sessions[t].idle >= now)
    BY <2>1 DEF Live, Later
  <2> QED
    BY <2>1, <2>2, <2>3
<1>3. t \in used' /\ \A f \in Refreshers : refresh'[f] # None => refresh'[f].token # t
  BY DEF Lapsed
<1> QED
  BY <1>2, <1>3 DEF Lapsed, Live, Later

LEMMA LapsedStep ==
    ASSUME FinalInv, [Next]_vars, NEW t \in Tokens, Lapsed(t)
    PROVE  Lapsed(t)'
<1>0. TypeOK /\ now \in Int
  BY DEF FinalInv, TypeOK
<1>1. ASSUME NEW r \in Requests, InsertSession(r)
      PROVE  Lapsed(t)'
  <2>1. sessions'[t] = sessions[t]
    BY <1>0, <1>1 DEF InsertSession, Lapsed, TypeOK
  <2> QED
    BY <1>0, <1>1, <2>1, UntouchedLapses DEF InsertSession
<1>2. ASSUME NEW r \in Requests, DeleteSession(r)
      PROVE  Lapsed(t)'
  <2>1. sessions'[t] = sessions[t] \/ sessions'[t] = None
    BY <1>0, <1>2 DEF DeleteSession, TypeOK
  <2> QED
    BY <1>0, <1>2, <2>1, UntouchedLapses DEF DeleteSession
<1>3. ASSUME NEW r \in Requests, Accept(r)
      PROVE  Lapsed(t)'
  <2>1. PICK f \in Refreshers :
          refresh' = [refresh EXCEPT ![f] = [token |-> req[r].cookie, at |-> "stamp", instant |-> 0]]
    BY <1>3 DEF Accept
  <2>2. req[r].cookie # t
    BY <1>3 DEF Accept, Acceptable, Lapsed, Rows
  <2>3. \A g \in Refreshers : refresh'[g] # None => refresh'[g].token # t
    BY <1>0, <2>1, <2>2 DEF TypeOK, Lapsed
  <2>4. now' = now /\ used' = used /\ sessions' = sessions
    BY <1>3 DEF Accept
  <2> QED
    BY <2>3, <2>4 DEF Lapsed, Rows, Live, Later
<1>4. ASSUME NEW f \in Refreshers, StampRefresh(f)
      PROVE  Lapsed(t)'
  <2>1. /\ refresh[f] # None /\ refresh[f] \in Refreshing
        /\ refresh' = [refresh EXCEPT ![f] = [@ EXCEPT !.at = "update", !.instant = now]]
    BY <1>0, <1>4 DEF StampRefresh, RefreshAt, TypeOK
  <2>2. refresh'[f].token = refresh[f].token
    BY <1>0, <2>1 DEF TypeOK, Refreshing
  <2>3. \A g \in Refreshers : refresh'[g] # None =>
          refresh[g] # None /\ refresh'[g].token = refresh[g].token
    BY <1>0, <2>1, <2>2 DEF TypeOK
  <2> QED
    BY <1>0, <1>4, <2>3, UntouchedLapses DEF StampRefresh
<1>5. ASSUME NEW f \in Refreshers, UpdateIdle(f)
      PROVE  Lapsed(t)'
  <2>1. refresh[f].token # t
    BY <1>5 DEF UpdateIdle, RefreshAt, Lapsed
  <2>2. sessions'[t] = sessions[t]
    BY <1>0, <1>5, <2>1 DEF UpdateIdle, TypeOK
  <2>3. \A g \in Refreshers : refresh'[g] # None =>
          refresh[g] # None /\ refresh'[g].token = refresh[g].token
    BY <1>0, <1>5 DEF UpdateIdle, TypeOK
  <2> QED
    BY <1>0, <1>5, <2>2, <2>3, UntouchedLapses DEF UpdateIdle
<1>6. ASSUME NEW f \in Refreshers, FailRefresh(f)
      PROVE  Lapsed(t)'
  <2>1. \A g \in Refreshers : refresh'[g] # None =>
          refresh[g] # None /\ refresh'[g].token = refresh[g].token
    BY <1>0, <1>6 DEF FailRefresh, TypeOK
  <2> QED
    BY <1>0, <1>6, <2>1, UntouchedLapses DEF FailRefresh
<1>7. CASE DeleteExpiredSessions
  <2>1. sessions'[t] = sessions[t] \/ sessions'[t] = None
    BY <1>7 DEF DeleteExpiredSessions
  <2> QED
    BY <1>0, <1>7, <2>1, UntouchedLapses DEF DeleteExpiredSessions
<1>8. CASE Restart
  BY <1>0, <1>8, UntouchedLapses DEF Restart
<1>9. CASE Tick
  BY <1>0, <1>9, UntouchedLapses DEF Tick
<1>10. CASE UNCHANGED <<now, used, sessions, refresh>>
  BY <1>0, <1>10, UntouchedLapses
<1>11. \/ \E r \in Requests : InsertSession(r) \/ DeleteSession(r) \/ Accept(r)
       \/ \E f \in Refreshers : StampRefresh(f) \/ UpdateIdle(f) \/ FailRefresh(f)
       \/ DeleteExpiredSessions \/ Restart \/ Tick
       \/ UNCHANGED <<now, used, sessions, refresh>>
  BY DEF Next, Handle, RefreshStep, vars, history, Send, Invalid, FindPrincipal,
         CreatePrincipal, StampSession, Reject, Fail, Receive, Lose
<1> QED
  BY <1>1, <1>2, <1>3, <1>4, <1>5, <1>6, <1>7, <1>8, <1>9, <1>10, <1>11

\* A session that is over stays over, in every zone and for any number of requests
\* and refreshes: no late refresh revives it unless a request was accepted while it
\* still counted (VerifySession, RefreshSession).
THEOREM LapsedTheorem == Spec => LapsedIsFinal
<1>1. Init => FinalInv
  BY FinalInit
<1>2. FinalInv /\ [Next]_vars => FinalInv'
  BY FinalStep
<1>3. ASSUME FinalInv, [Next]_vars
      PROVE  [\A t \in Tokens : Lapsed(t) => Lapsed(t)']_vars
  BY <1>3, LapsedStep
<1> QED
  BY <1>1, <1>2, <1>3, PTL DEF Spec, LapsedIsFinal

\* In every zone the cleanup removes only what no request could use.
THEOREM CleanupTheorem == Spec => CleanupSparesUsable
<1>1. ASSUME FinalInv, [Next]_vars, NEW t \in Rows, sessions'[t] = None
      PROVE  t \in ended' \/ ~Live(sessions[t])
  <2>0. /\ TypeOK /\ t \in Tokens /\ sessions[t] # None
        /\ sessions[t] \in Row /\ now \in Int /\ t \in used
    BY <1>1 DEF FinalInv, Fresh, TypeOK, Rows
  <2>1. ASSUME NEW r \in Requests, InsertSession(r)
        PROVE  FALSE
    BY <1>1, <2>0, <2>1 DEF InsertSession, TypeOK
  <2>2. ASSUME NEW r \in Requests, DeleteSession(r)
        PROVE  t \in ended'
    BY <1>1, <2>0, <2>2 DEF DeleteSession, TypeOK
  <2>3. ASSUME NEW f \in Refreshers, UpdateIdle(f)
        PROVE  FALSE
    <3>1. refresh[f].instant \in Nat
      BY <2>0, <2>3 DEF UpdateIdle, RefreshAt, TypeOK, Refreshing
    <3>2. Renewed(sessions[t], refresh[f].instant) # None
      BY <2>0, <3>1, RenewedTyped, SessionAssumption
    <3> QED
      BY <1>1, <2>0, <2>3, <3>2 DEF UpdateIdle, TypeOK
  <2>4. CASE DeleteExpiredSessions
    BY <1>1, <2>0, <2>4 DEF DeleteExpiredSessions, Expired, Live, Later, Row
  <2>5. CASE sessions' = sessions
    BY <1>1, <2>0, <2>5
  <2> QED
    BY <1>1, <2>1, <2>2, <2>3, <2>4, <2>5
    DEF Next, Handle, RefreshStep, vars, history, Send, Invalid, FindPrincipal,
        CreatePrincipal, StampSession, Accept, Reject, Fail, Receive, Lose,
        StampRefresh, FailRefresh, Restart, Tick
<1>2. ASSUME FinalInv, [Next]_vars
      PROVE  [\A t \in Rows : sessions'[t] = None => t \in ended' \/ ~Live(sessions[t])]_vars
  BY <1>1, <1>2
<1> QED
  BY <1>2, FinalInit, FinalStep, PTL DEF Spec, CleanupSparesUsable

-----------------------------------------------------------------------------
(***************************************************************************)
(* The proof that Sessions implements SessionService, for every number of   *)
(* persons, tokens, requests and refreshes, all durations and every zone:   *)
(* the statement that decides a request is the service's step, all others   *)
(* are stutters.                                                            *)
(***************************************************************************)

\* The operation of a request determines the steps it can be at.
StepsOf(op) ==
    CASE op = "register" -> {"create", "stamp", "insert"}
      [] op = "login"    -> {"find", "stamp", "insert"}
      [] op = "logout"   -> {"delete"}
      [] op = "me"       -> {"get"}

StepsFit ==
    \A r \in Requests :
      req[r] # None /\ req[r].at # "answered" => req[r].at \in StepsOf(req[r].op)

PromiseInv == TypeOK /\ StepsFit

LEMMA PromiseInvInit == Init => PromiseInv
  BY TypeInit DEF Init, PromiseInv, StepsFit

\* Answering and moving on keep the steps in line with the operations.
LEMMA AnswerFits ==
    ASSUME PromiseInv, NEW r \in Requests, NEW status, NEW cookie, Answer(r, status, cookie)
    PROVE  StepsFit'
  BY DEF PromiseInv, StepsFit, Answer, TypeOK

LEMMA GoOnFits ==
    ASSUME PromiseInv, NEW r \in Requests, NEW step, NEW instant, GoOn(r, step, instant),
           req[r] \in Working, step \in StepsOf(req[r].op)
    PROVE  StepsFit'
  BY DEF PromiseInv, StepsFit, GoOn, TypeOK, Working

\* Steps of the server that answer, and steps that move on.
LEMMA PromiseInvStep == PromiseInv /\ [Next]_vars => PromiseInv'
<1> SUFFICES ASSUME PromiseInv, [Next]_vars
             PROVE  StepsFit'
  BY TypeStep DEF PromiseInv
<1>1. ASSUME NEW r \in Requests, NEW p \in Persons, NEW op \in Ops, Send(r, p, op)
      PROVE  StepsFit'
  BY <1>1 DEF PromiseInv, StepsFit, TypeOK, Send, FirstStep, StepsOf, Ops
<1>2. ASSUME NEW r \in Requests,
             Invalid(r) \/ DeleteSession(r) \/ InsertSession(r) \/ Accept(r) \/ Reject(r) \/ Fail(r)
      PROVE  StepsFit'
  <2>1. \E status, cookie : Answer(r, status, cookie)
    BY <1>2 DEF Invalid, DeleteSession, InsertSession, Accept, Reject, Fail
  <2> QED
    BY <2>1, AnswerFits
<1>3. ASSUME NEW r \in Requests, FindPrincipal(r) \/ CreatePrincipal(r) \/ StampSession(r)
      PROVE  StepsFit'
  <2>1. req[r] \in Working
    BY <1>3, WorkingRequest DEF PromiseInv, FindPrincipal, CreatePrincipal, StampSession
  <2>2. {"stamp", "insert"} \subseteq StepsOf(req[r].op)
    BY <1>3, <2>1 DEF PromiseInv, StepsFit, StepsOf, FindPrincipal, CreatePrincipal, StampSession,
         At, Working, Ops
  <2>3. (\E status, cookie : Answer(r, status, cookie))
          \/ \E step \in {"stamp", "insert"} : \E instant : GoOn(r, step, instant)
    BY <1>3 DEF FindPrincipal, CreatePrincipal, StampSession
  <2> QED
    BY <2>1, <2>2, <2>3, AnswerFits, GoOnFits
<1>4. ASSUME NEW r \in Requests, Receive(r) \/ Lose(r)
      PROVE  StepsFit'
  BY <1>4 DEF PromiseInv, StepsFit, TypeOK, Receive, Lose
<1>5. CASE Restart
  BY <1>5 DEF StepsFit, Restart
<1>6. CASE req' = req
  BY <1>6 DEF PromiseInv, StepsFit
<1> QED
  BY <1>1, <1>2, <1>3, <1>4, <1>5, <1>6
  DEF Next, Handle, RefreshStep, StampRefresh, UpdateIdle, FailRefresh, DeleteExpiredSessions,
      Tick, vars

-----------------------------------------------------------------------------
(***************************************************************************)
(* The steps of the service.  Each lemma names what a step of Sessions      *)
(* does to the state and concludes which step of the service that is.      *)
(***************************************************************************)
Abstract == [r \in Requests |-> Promised(req[r])]

\* A request that is being worked on is one whose fate is open.
LEMMA WorkingIsAsked ==
    ASSUME NEW q \in Working
    PROVE  /\ Promised(q) = [op |-> q.op, who |-> q.who, at |-> "asked",
                             cookie |-> q.cookie]
           /\ Promised(q) # None
<1>1. q # None /\ q.at # "answered"
  BY PromiseAssumption DEF Working
<1>2. [op |-> q.op, who |-> q.who, at |-> "asked",
       cookie |-> q.cookie] \in Service!Asked
  BY DEF Working, Service!Asked, Ops, Service!Ops
<1> QED
  BY <1>1, <1>2, PromiseAssumption DEF Promised

LEMMA AnsweredIsReplied ==
    ASSUME NEW q \in Answered
    PROVE  /\ Promised(q) = [op |-> q.op, who |-> q.who, at |-> "answered",
                             ok |-> q.status \in {200, 201}, set |-> q.set]
           /\ Promised(q) # None
<1>1. q # None /\ q.at = "answered"
  BY PromiseAssumption DEF Answered
<1>2. [op |-> q.op, who |-> q.who, at |-> "answered",
       ok |-> q.status \in {200, 201}, set |-> q.set] \in Service!Replied
  BY DEF Answered, Service!Replied, Ops, Service!Ops
<1> QED
  BY <1>1, <1>2, PromiseAssumption DEF Promised

\* An answer is an answer.
LEMMA AnswerMaps ==
    ASSUME TypeOK, NEW r \in Requests, req[r] \in Working,
           NEW status \in {200, 201, 400, 401, 500}, NEW cookie \in Tokens \cup {None},
           Answer(r, status, cookie)
    PROVE  Service!At(r, "asked") /\ Service!Answer(r, status \in {200, 201}, cookie)
<1> DEFINE reply == [op |-> req[r].op, who |-> req[r].who, at |-> "answered",
                     status |-> status, set |-> cookie]
<1>1. reply \in Answered
  BY DEF Working, Answered
<1> HIDE DEF reply
<1>2. req' = [req EXCEPT ![r] = reply]
  BY DEF Answer, reply
<1>3. Promised(reply) = [op |-> req[r].op, who |-> req[r].who, at |-> "answered",
                         ok |-> status \in {200, 201}, set |-> cookie]
  <2>1. reply.op = req[r].op /\ reply.who = req[r].who /\ reply.set = cookie
    BY DEF reply
  <2>2. reply.status = status
    BY DEF reply
  <2>3. Promised(reply) = [op |-> reply.op, who |-> reply.who, at |-> "answered",
                           ok |-> reply.status \in {200, 201}, set |-> reply.set]
    <3>1. reply # None /\ reply.at = "answered"
      BY <1>1, PromiseAssumption DEF Answered
    <3> QED
      BY <3>1, Zenon DEF Promised
  <2> QED
    BY <2>1, <2>2, <2>3
<1>4. Abstract' = [Abstract EXCEPT ![r] = Promised(reply)]
  BY <1>2 DEF Abstract, TypeOK
<1>5. /\ Abstract[r] = [op |-> req[r].op, who |-> req[r].who, at |-> "asked",
                        cookie |-> req[r].cookie]
      /\ Abstract[r] # None
  BY WorkingIsAsked DEF Abstract
<1>6. Service!At(r, "asked")
  BY <1>5 DEF Abstract, Service!At
<1>7. Promised(reply) = [op |-> Abstract[r].op, who |-> Abstract[r].who, at |-> "answered",
                         ok |-> status \in {200, 201}, set |-> cookie]
  <2>1. Abstract[r].op = req[r].op /\ Abstract[r].who = req[r].who
    BY <1>5
  <2> QED
    BY <1>3, <2>1, Zenon
<1>8. Abstract' = [Abstract EXCEPT ![r] =
                    [op |-> Abstract[r].op, who |-> Abstract[r].who, at |-> "answered",
                     ok |-> status \in {200, 201}, set |-> cookie]]
  BY <1>4, <1>7, Zenon
<1> QED
  BY <1>6, <1>8, Zenon DEF Abstract, Service!Answer

\* What a request does between its statements is not seen.
LEMMA GoOnMaps ==
    ASSUME TypeOK, NEW r \in Requests, req[r] \in Working,
           NEW step \in {"stamp", "insert"}, NEW instant \in Nat, GoOn(r, step, instant)
    PROVE  Abstract' = Abstract
<1> DEFINE moved == [[req[r] EXCEPT !.at = step] EXCEPT !.stamp = instant]
<1>1. /\ moved \in Working
      /\ moved.op = req[r].op /\ moved.who = req[r].who /\ moved.cookie = req[r].cookie
  BY DEF Working
<1>2. req' = [req EXCEPT ![r] = moved]
  BY DEF GoOn
<1>3. Promised(moved) = Promised(req[r])
  BY <1>1, WorkingIsAsked
<1> HIDE DEF moved
<1> QED
  BY <1>2, <1>3 DEF Abstract, TypeOK

\* A status that is no success is a refusal.
LEMMA RefuseMaps ==
    ASSUME TypeOK, NEW r \in Requests, req[r] \in Working, NEW status \in {400, 401, 500},
           Answer(r, status, None), UNCHANGED <<sessions, used, jar>>
    PROVE  Service!Refuse(r)
<1>1. Service!At(r, "asked") /\ Service!Answer(r, status \in {200, 201}, None)
  BY AnswerMaps
<1>2. (status \in {200, 201}) = FALSE
  OBVIOUS
<1>3. Service!Answer(r, FALSE, None)
  BY <1>1, <1>2 DEF Service!Answer
<1>4. Rows' = Rows
  BY DEF Rows
<1> QED
  BY <1>1, <1>3, <1>4 DEF Service!Refuse

LEMMA PromiseInitLemma == Init => Service!Init
<1> SUFFICES ASSUME Init
             PROVE  Service!Init
  OBVIOUS
<1>1. Rows = {} /\ used = {} /\ jar = [p \in Persons |-> None]
  BY DEF Init, Rows
<1>2. Abstract = [r \in Requests |-> None]
  BY DEF Init, Abstract, Promised
<1> QED
  BY <1>1, <1>2 DEF Service!Init, Abstract

\* What the service knows of a request: its operation and its cookie.
LEMMA AskedFacts ==
    ASSUME TypeOK, NEW r \in Requests, req[r] \in Working
    PROVE  /\ Abstract[r].op = req[r].op
           /\ Abstract[r].cookie = req[r].cookie
  BY WorkingIsAsked DEF Abstract

LEMMA SendMaps ==
    ASSUME TypeOK, NEW r \in Requests, NEW p \in Persons, NEW op \in Ops, Send(r, p, op)
    PROVE  Service!Send(r, p, op)
<1> DEFINE fresh == [op |-> op, who |-> p, cookie |-> Shown(op, jar[p]),
                    at |-> FirstStep(op), stamp |-> 0]
<1>1. /\ fresh \in Working
      /\ fresh.op = op /\ fresh.who = p /\ fresh.cookie = Shown(op, jar[p])
  BY DEF TypeOK, Working, Shown, FirstStep, Ops
<1>2. req' = [req EXCEPT ![r] = fresh] /\ req[r] = None
  BY DEF Send
<1>3. Promised(fresh) = [op |-> op, who |-> p, at |-> "asked",
                         cookie |-> Shown(op, jar[p])]
  BY <1>1, WorkingIsAsked
<1> HIDE DEF fresh
<1>4. Abstract' = [Abstract EXCEPT ![r] = Promised(fresh)] /\ Abstract[r] = None
  <2>1. Abstract' = [Abstract EXCEPT ![r] = Promised(fresh)]
    BY <1>2 DEF Abstract, TypeOK
  <2>2. Abstract[r] = None
    BY <1>2 DEF Abstract, Promised
  <2> QED
    BY <2>1, <2>2
<1>5. Rows' = Rows /\ used' = used /\ jar' = jar
  BY DEF Send, Rows
<1> QED
  BY <1>3, <1>4, <1>5 DEF Service!Send, Service!Shown, Shown, Abstract

LEMMA GrantMaps ==
    ASSUME PromiseInv, NEW r \in Requests, InsertSession(r)
    PROVE  Service!Grant(r)
<1>0. TypeOK /\ req[r] \in Working
  BY WorkingRequest DEF PromiseInv, InsertSession
<1>1. req[r].op \in {"login", "register"}
  BY <1>0 DEF PromiseInv, StepsFit, StepsOf, InsertSession, At, Working, Ops
<1>2. PICK t \in Tokens \ used :
        /\ used' = used \cup {t}
        /\ sessions' = [sessions EXCEPT ![t] = NewRow(req[r].who, req[r].stamp)]
        /\ Answer(r, IF req[r].op = "register" THEN 201 ELSE 200, t)
  BY DEF InsertSession
<1>3. Rows' = Rows \cup {t}
  <2>1. NewRow(req[r].who, req[r].stamp) # None
    BY <1>0, NewRowTyped, SessionAssumption DEF Working
  <2> QED
    BY <1>0, <1>2, <2>1 DEF Rows, TypeOK
<1>4. Service!At(r, "asked") /\ Service!Answer(r, TRUE, t)
  <2> DEFINE status == IF req[r].op = "register" THEN 201 ELSE 200
  <2>1. status \in {200, 201, 400, 401, 500} /\ (status \in {200, 201}) = TRUE
    OBVIOUS
  <2>2. Answer(r, status, t)
    BY <1>2
  <2> HIDE DEF status
  <2>3. Service!At(r, "asked") /\ Service!Answer(r, status \in {200, 201}, t)
    BY <1>0, <2>1, <2>2, AnswerMaps
  <2> QED
    BY <2>1, <2>3, Zenon
<1>5. Abstract[r].op \in {"login", "register"}
  BY <1>0, <1>1, AskedFacts
<1> QED
  BY <1>2, <1>3, <1>4, <1>5 DEF Service!Grant, Abstract, InsertSession

LEMMA RevokeMaps ==
    ASSUME PromiseInv, NEW r \in Requests, DeleteSession(r)
    PROVE  Service!Revoke(r)
<1>0. TypeOK /\ req[r] \in Working
  BY WorkingRequest DEF PromiseInv, DeleteSession
<1>1. Abstract[r].op = "logout" /\ Abstract[r].cookie = req[r].cookie
  BY <1>0, AskedFacts DEF PromiseInv, StepsFit, StepsOf, DeleteSession, At, Working, Ops
<1>2. Rows' = Rows \ {req[r].cookie}
  BY <1>0, SessionAssumption DEF DeleteSession, Rows, TypeOK, Working
<1>3. Service!At(r, "asked") /\ Service!Answer(r, TRUE, None)
  <2>1. Service!At(r, "asked") /\ Service!Answer(r, 200 \in {200, 201}, None)
    BY <1>0, AnswerMaps DEF DeleteSession
  <2>2. (200 \in {200, 201}) = TRUE
    OBVIOUS
  <2> QED
    BY <2>1, <2>2, Zenon
<1>4. used' = used /\ jar' = jar
  BY DEF DeleteSession
<1> QED
  BY <1>1, <1>2, <1>3, <1>4 DEF Service!Revoke, Abstract

LEMMA AdmitMaps ==
    ASSUME PromiseInv, NEW r \in Requests, Accept(r)
    PROVE  Service!Admit(r)
<1>0. TypeOK /\ req[r] \in Working
  BY WorkingRequest DEF PromiseInv, Accept
<1>1. Abstract[r].op = "me" /\ Abstract[r].cookie = req[r].cookie
  BY <1>0, AskedFacts DEF PromiseInv, StepsFit, StepsOf, Accept, At, Working, Ops
<1>2. req[r].cookie \in Rows
  BY <1>0 DEF Accept, Acceptable, Rows, Working
<1>3. Service!At(r, "asked") /\ Service!Answer(r, TRUE, None)
  <2>1. Service!At(r, "asked") /\ Service!Answer(r, 200 \in {200, 201}, None)
    BY <1>0, AnswerMaps DEF Accept
  <2>2. (200 \in {200, 201}) = TRUE
    OBVIOUS
  <2> QED
    BY <2>1, <2>2, Zenon
<1>4. used' = used /\ jar' = jar /\ Rows' = Rows
  BY DEF Accept, Rows
<1> QED
  BY <1>1, <1>2, <1>3, <1>4 DEF Service!Admit, Abstract

\* A response that arrives, or does not.
LEMMA EndMaps ==
    ASSUME TypeOK, NEW r \in Requests, Receive(r) \/ Lose(r)
    PROVE  Service!Receive(r) \/ Service!Lose(r)
<1>1. req[r] \in Answered
  BY AnsweredRequest DEF Receive, Lose
<1>2. Abstract[r] # None /\ Abstract[r].at = "answered" /\ Abstract[r].set = req[r].set
        /\ Abstract[r].who = req[r].who
  <2>1. Abstract[r] = Promised(req[r])
    BY DEF Abstract
  <2>2. \E ok : Promised(req[r]) = [op |-> req[r].op, who |-> req[r].who, at |-> "answered",
                                    ok |-> ok, set |-> req[r].set]
    BY <1>1, AnsweredIsReplied, Zenon
  <2> QED
    BY <1>1, <2>1, <2>2, AnsweredIsReplied
<1>3. Abstract' = [Abstract EXCEPT ![r] = None]
  <2>1. req' = [req EXCEPT ![r] = None]
    BY DEF Receive, Lose
  <2>2. Abstract' = [Abstract EXCEPT ![r] = Promised(None)]
    BY <2>1 DEF Abstract, TypeOK
  <2>3. Promised(None) = None
    BY DEF Promised
  <2> QED
    BY <2>2, <2>3
<1>4. used' = used /\ Rows' = Rows
  BY DEF Receive, Lose, Rows
<1>5. Service!At(r, "answered")
  BY <1>2 DEF Service!At, Abstract
<1>6. CASE Receive(r)
  BY <1>2, <1>3, <1>4, <1>5, <1>6 DEF Receive, Service!Receive, Abstract
<1>7. CASE Lose(r)
  BY <1>3, <1>4, <1>5, <1>7 DEF Lose, Service!Lose, Abstract
<1> QED
  BY <1>6, <1>7

LEMMA WithdrawMaps ==
    ASSUME TypeOK, DeleteExpiredSessions
    PROVE  Service!Withdraw
<1> DEFINE gone == {t \in Rows : Expired(sessions[t])}
<1>1. gone \in (SUBSET Rows) \ {{}}
  BY DEF DeleteExpiredSessions
<1>2. Rows' = Rows \ gone
  BY DEF DeleteExpiredSessions, Rows, TypeOK
<1>3. used' = used /\ jar' = jar /\ Abstract' = Abstract
  BY DEF DeleteExpiredSessions, Abstract
<1> HIDE DEF gone
<1> QED
  BY <1>1, <1>2, <1>3 DEF Service!Withdraw, Abstract

LEMMA RestartMaps ==
    ASSUME TypeOK, Restart
    PROVE  Service!Restart \/ UNCHANGED Service!serviceVars
<1>1. used' = used /\ jar' = jar /\ Rows' = Rows
  BY DEF Restart, Rows
<1>2. Abstract' = [r \in Requests |-> None]
  BY DEF Restart, Abstract, Promised
<1>3. CASE \E r \in Requests : Abstract[r] # None
  BY <1>1, <1>2, <1>3 DEF Service!Restart, Abstract
<1>4. CASE \A r \in Requests : Abstract[r] = None
  <2>1. Abstract' = Abstract
    BY <1>2, <1>4 DEF Abstract
  <2> QED
    BY <1>1, <2>1 DEF Service!serviceVars, Abstract
<1> QED
  BY <1>3, <1>4

\* Every step of Sessions is one of the service or a stutter.
LEMMA PromiseStep == PromiseInv /\ [Next]_vars => [Service!Next]_(Service!serviceVars)
<1> SUFFICES ASSUME PromiseInv, [Next]_vars
             PROVE  Service!Next \/ UNCHANGED Service!serviceVars
  OBVIOUS
<1>0. TypeOK
  BY DEF PromiseInv
<1> DEFINE Unseen == Rows' = Rows /\ used' = used /\ jar' = jar /\ Abstract' = Abstract
<1>s. Unseen => UNCHANGED Service!serviceVars
  BY DEF Service!serviceVars, Abstract
<1>1. ASSUME NEW r \in Requests, NEW p \in Persons, NEW op \in Ops, Send(r, p, op)
      PROVE  Service!Next
  BY <1>0, <1>1, SendMaps DEF Service!Next, Service!Ops, Ops
<1>2. ASSUME NEW r \in Requests, Handle(r) \/ Fail(r)
      PROVE  Service!Serve(r) \/ Unseen
  <2>1. CASE Invalid(r) \/ Reject(r) \/ Fail(r)
    <3>1. req[r] \in Working
      BY <1>0, <2>1, WorkingRequest DEF Invalid, Reject, Fail
    <3>2. PICK status \in {400, 401, 500} : Answer(r, status, None)
      BY <2>1 DEF Invalid, Reject, Fail
    <3> QED
      BY <1>0, <2>1, <3>1, <3>2, RefuseMaps DEF Service!Serve, Invalid, Reject, Fail
  <2>2. CASE FindPrincipal(r) \/ CreatePrincipal(r) \/ StampSession(r)
    <3>1. req[r] \in Working
      BY <1>0, <2>2, WorkingRequest DEF FindPrincipal, CreatePrincipal, StampSession
    <3>2. UNCHANGED <<sessions, used, jar>>
      BY <2>2 DEF FindPrincipal, CreatePrincipal, StampSession
    <3>3. CASE \E status \in {401, 500} : Answer(r, status, None)
      BY <1>0, <3>1, <3>2, <3>3, RefuseMaps DEF Service!Serve
    <3>4. CASE \E step \in {"stamp", "insert"} : \E instant \in Nat : GoOn(r, step, instant)
      <4>1. Abstract' = Abstract
        BY <1>0, <3>1, <3>4, GoOnMaps
      <4> QED
        BY <3>2, <4>1 DEF Rows
    <3>5. now \in Nat
      BY <1>0, SessionAssumption DEF TypeOK
    <3> QED
      BY <2>2, <3>3, <3>4, <3>5 DEF FindPrincipal, CreatePrincipal, StampSession
  <2>3. CASE InsertSession(r)
    BY <2>3, GrantMaps DEF Service!Serve
  <2>4. CASE DeleteSession(r)
    BY <2>4, RevokeMaps DEF Service!Serve
  <2>5. CASE Accept(r)
    BY <2>5, AdmitMaps DEF Service!Serve
  <2> QED
    BY <1>2, <2>1, <2>2, <2>3, <2>4, <2>5 DEF Handle
<1>3. ASSUME NEW r \in Requests, Receive(r) \/ Lose(r)
      PROVE  Service!Next
  BY <1>0, <1>3, EndMaps DEF Service!Next
<1>4. ASSUME NEW f \in Refreshers, RefreshStep(f) \/ FailRefresh(f)
      PROVE  Unseen
  <2>1. used' = used /\ jar' = jar /\ req' = req
    BY <1>4 DEF RefreshStep, StampRefresh, UpdateIdle, FailRefresh
  <2>2. Rows' = Rows
    <3>1. CASE StampRefresh(f) \/ FailRefresh(f)
      BY <3>1 DEF StampRefresh, FailRefresh, Rows
    <3>2. CASE UpdateIdle(f)
      <4> DEFINE t == refresh[f].token
      <4>1. CASE t \in Rows
        <5>1. refresh[f].instant \in Nat
          BY <1>0, <3>2 DEF TypeOK, UpdateIdle, RefreshAt, Refreshing
        <5>2. sessions[t] \in Row
          BY <1>0, <4>1 DEF TypeOK, Rows
        <5>3. Renewed(sessions[t], refresh[f].instant) # None
          BY <5>1, <5>2, RenewedTyped, SessionAssumption
        <5>4. sessions' = [sessions EXCEPT ![t] = Renewed(sessions[t], refresh[f].instant)]
          BY <3>2, <4>1 DEF UpdateIdle
        <5> HIDE DEF t
        <5> QED
          BY <1>0, <4>1, <5>3, <5>4 DEF Rows, TypeOK
      <4>2. CASE t \notin Rows
        BY <3>2, <4>2 DEF UpdateIdle, Rows
      <4> QED
        BY <4>1, <4>2
    <3> QED
      BY <1>4, <3>1, <3>2 DEF RefreshStep
  <2> QED
    BY <2>1, <2>2 DEF Abstract
<1>5. CASE DeleteExpiredSessions
  BY <1>0, <1>5, WithdrawMaps DEF Service!Next
<1>6. CASE Restart
  BY <1>0, <1>6, RestartMaps DEF Service!Next
<1>7. CASE Tick \/ UNCHANGED vars
  BY <1>7, <1>s DEF Tick, vars, Rows, Abstract
<1>8. ASSUME NEW r \in Requests, Service!Serve(r)
      PROVE  Service!Next
  BY <1>8 DEF Service!Next
<1> HIDE DEF Unseen
<1> QED
  BY <1>s, <1>1, <1>2, <1>3, <1>4, <1>5, <1>6, <1>7, <1>8 DEF Next

\* The sessions implement what SessionService promises its callers, for every
\* number of persons, tokens, requests and refreshes (Login, Register, Logout,
\* RequireAuth, VerifySession, the session-cleanup job).
THEOREM ServiceTheorem == Spec => KeepsService
<1>1. Spec => []PromiseInv
  BY PromiseInvInit, PromiseInvStep, PTL DEF Spec
<1> QED
  BY <1>1, PromiseInitLemma, PromiseStep, PTL DEF Spec, KeepsService, Service!Spec
=============================================================================
