---------------------------- MODULE RmwTools_proofs ----------------------------
(***************************************************************************)
(* Theorems about RmwTools, for any number of calls, any requests, pages   *)
(* and bounds.                                                             *)
(***************************************************************************)
EXTENDS RmwTools, FiniteFacts, SequenceTheorems

-------------------------------------------------------------------------------
(***************************************************************************)
(* What the edits of PageBody preserve.                                    *)
(***************************************************************************)
(* Replacing some lines by a line gives a body of the same length. *)
LEMMA SubstituteType ==
    ASSUME NEW body \in Body, NEW S, NEW line \in Line
    PROVE  /\ Substitute(body, S, line) \in Body
           /\ Len(Substitute(body, S, line)) = Len(body)
BY DEF Substitute, Body

(* An edit whose arguments were validated, applied to a body it applies    *)
(* to, gives a body: no validator refuses what it should let through, and  *)
(* none lets through what would corrupt the page.                          *)
LEMMA EditedType ==
    ASSUME NEW e \in Edits, WellFormed(e),
           NEW body \in Body, Applicable(e, body)
    PROVE  Edited(e, body) \in Body
<1>1. CASE e \in [tool : {"append_to_page"}, text : Text]
  <2>1. e.tool = "append_to_page" /\ e.text \in Line
    BY <1>1 DEF WellFormed, Text
  <2>2. Edited(e, body) = Append(body, e.text)
    BY <2>1 DEF Edited
  <2> QED BY <2>1, <2>2 DEF Body
<1>2. CASE e \in [tool : {"prepend_to_page"}, text : Text, top : BOOLEAN]
  <2>1. e.tool = "prepend_to_page" /\ e.text \in Line
    BY <1>2 DEF WellFormed, Text
  <2>2. CASE e.top \/ ~HasFrontMatter(body)
    <3>1. Edited(e, body) = <<e.text>> \o body
      BY <2>1, <2>2 DEF Edited, Prepended
    <3> QED BY <2>1, <3>1 DEF Body
  <2>3. CASE ~(e.top \/ ~HasFrontMatter(body))
    <3>1. Edited(e, body) = <<FrontMatter, e.text>> \o Tail(body)
      BY <2>1, <2>3 DEF Edited, Prepended
    <3>2. Tail(body) \in Seq(Line)
      BY <2>3 DEF HasFrontMatter, Body
    <3>3. <<FrontMatter, e.text>> \in Seq(Line)
      BY <2>1, LineAssumption
    <3> QED BY <3>1, <3>2, <3>3 DEF Body
  <2> QED BY <2>2, <2>3
<1>3. CASE e \in [tool : {"patch_page_lines"}, first : Nat, last : Nat, text : Text]
  <2>1. /\ e.tool = "patch_page_lines" /\ e.text \in Line
        /\ e.first \in Nat /\ e.last \in Nat
        /\ 1 <= e.first /\ e.first <= e.last /\ e.last <= Len(body)
    BY <1>3 DEF WellFormed, Applicable, RangeFits, Text
  <2>2. Edited(e, body) = SubSeq(body, 1, e.first - 1) \o <<e.text>>
                             \o SubSeq(body, e.last + 1, Len(body))
    BY <2>1 DEF Edited, LinesPatched
  <2>3. /\ SubSeq(body, 1, e.first - 1) \in Seq(Line)
        /\ SubSeq(body, e.last + 1, Len(body)) \in Seq(Line)
    BY <2>1 DEF Body
  <2> QED BY <2>1, <2>2, <2>3 DEF Body
<1>4. CASE e \in [tool : {"patch_page_replace"}, find : Line, text : Text, all : BOOLEAN]
  <2>1. e.tool = "patch_page_replace" /\ e.text \in Line
    BY <1>4 DEF WellFormed, Text
  <2>2. Edited(e, body) = Substitute(body, {e.find}, e.text)
    BY <2>1 DEF Edited
  <2> QED BY <2>1, <2>2, SubstituteType
<1>5. CASE e \in [tool : {"check_task"}, state : TaskStates \cup {BadText}]
  <2>1. e.tool = "check_task" /\ e.state \in TaskStates
    BY <1>5 DEF WellFormed
  <2>2. Edited(e, body) = Substitute(body, TaskLines, TaskLine(e.state))
    BY <2>1 DEF Edited
  <2>3. TaskLine(e.state) \in Line
    BY <2>1, LineAssumption DEF TaskLines
  <2> QED BY <2>2, <2>3, SubstituteType
<1> QED BY <1>1, <1>2, <1>3, <1>4, <1>5 DEF Edits

-------------------------------------------------------------------------------
(***************************************************************************)
(* Type correctness.                                                       *)
(***************************************************************************)
Active == {"read", "write", "verify"}

(* A call that got past its validation carries a well-formed request.      *)
Validated(c) ==
    /\ pc[c] # "idle" => req[c] \in Requests
    /\ pc[c] \in Active => WellFormed(req[c].edit)

TypeInv == TypeOK /\ \A c \in Calls : Validated(c)

(* What a client may ask for, field by field.                              *)
LEMMA RequestType ==
    ASSUME NEW r \in Requests
    PROVE  /\ r.edit \in Edits
           /\ r.if_match \in IfMatchArgs
           /\ r.dry_run \in BOOLEAN
           /\ r.max_retries \in Int
BY RmwAssumption

(* The token of a body, of any kind, is a token.                           *)
LEMMA TokenType ==
    ASSUME NEW kind \in TokenKinds, NEW b \in Body
    PROVE  TokenOf(kind, b) \in Tokens
BY DEF TokenKinds, TokenOf, Tokens, Body, NoToken

(* No call has begun, so none can be out of its type.                      *)
LEMMA TypeInit == Init => TypeInv
BY RmwAssumption DEF Init, TypeInv, TypeOK, Validated, Page, Body, Tokens, NoToken,
   Outcomes, Active

(* Every action keeps the types; the body a call PUTs is one because its   *)
(* arguments were validated and its edit applied to the body it read.      *)
LEMMA TypeStep ==
    ASSUME TypeInv, [Next]_vars
    PROVE  TypeInv'
<1> USE DEF TypeInv, TypeOK, Validated
<1>1. ASSUME NEW c \in Calls, Start(c) PROVE TypeInv'
  <2> USE <1>1
  <2>1. PICK r \in Requests :
           /\ r.if_match = "seen" => page # Absent
           /\ req' = [req EXCEPT ![c] = r]
           /\ if_match' = [if_match EXCEPT ![c] =
                CASE r.if_match = "none" -> NoToken
                  [] r.if_match = "star" -> Star
                  [] r.if_match = "seen" -> TokenOf(GetEtag, page)]
           /\ IF StartOutcome(r) = "none"
              THEN Goto(c, "read")
              ELSE Return(c, StartOutcome(r))
    BY DEF Start
  <2>2. if_match' \in [Calls -> Tokens]
    <3>1. r.if_match = "seen" => TokenOf(GetEtag, page) \in Tokens
      BY <2>1, TokenType, ServerAssumption DEF Page
    <3>2. NoToken \in Tokens /\ Star \in Tokens
      BY DEF Tokens
    <3> QED BY <2>1, <3>1, <3>2, RequestType DEF IfMatchArgs
  <2>3. StartOutcome(r) \in Outcomes
    BY DEF StartOutcome, Outcomes, Refusals
  <2>4. StartOutcome(r) = "none" => WellFormed(r.edit)
    BY DEF StartOutcome
  <2>5. /\ pc' \in [Calls -> {"idle", "read", "write", "verify", "done"}]
        /\ outcome' \in [Calls -> Outcomes]
    BY <2>1, <2>3 DEF Goto, Return
  <2>6. \A d \in Calls : Validated(d)'
    BY <2>1, <2>4 DEF Goto, Return, Active
  <2> QED BY <2>1, <2>2, <2>5, <2>6 DEF Start
<1>2. ASSUME NEW c \in Calls, ReadPage(c) PROVE TypeInv'
  <2> USE <1>2
  <2>1. ReadOutcome(c) \in Outcomes
    BY DEF ReadOutcome, Outcomes, Refusals
  <2>2. CASE ReadOutcome(c) = "none"
    <3>1. /\ page \in Body
          /\ Applicable(req[c].edit, page)
      BY <2>2 DEF ReadOutcome, Page
    <3>2. Edited(req[c].edit, page) \in Body
      BY <3>1, EditedType, RequestType DEF ReadPage, Active
    <3> QED BY <2>2, <3>1, <3>2 DEF ReadPage, Goto, Active
  <2>3. CASE ReadOutcome(c) # "none"
    BY <2>1, <2>3 DEF ReadPage, Return, Active
  <2> QED BY <2>2, <2>3
<1>3. ASSUME NEW c \in Calls, ReadFails(c) PROVE TypeInv'
  BY <1>3 DEF ReadFails, Return, Unknowns, Outcomes, Active
<1>4. ASSUME NEW c \in Calls, WritePage(c) PROVE TypeInv'
  <2>1. TokenOf(PutEtag, new_body[c]) \in Tokens
    BY TokenType, ServerAssumption
  <2> QED BY <1>4, <2>1
          DEF WritePage, Store, Return, Goto, Outcomes, Active, Page
<1>5. ASSUME NEW c \in Calls, WriteRefused(c) PROVE TypeInv'
  BY <1>5 DEF WriteRefused, Return, Refusals, Outcomes, Active
<1>6. ASSUME NEW c \in Calls, WriteFails(c) PROVE TypeInv'
  BY <1>6 DEF WriteFails, Return, Unknowns, Outcomes, Active
<1>7. ASSUME NEW c \in Calls, LateWrite(c) PROVE TypeInv'
  BY <1>7 DEF LateWrite, Store, Page
<1>8. ASSUME NEW c \in Calls, LateLoss(c) PROVE TypeInv'
  BY <1>8 DEF LateLoss
<1>9. ASSUME NEW c \in Calls, VerifyPasses(c) PROVE TypeInv'
  BY <1>9 DEF VerifyPasses, Return, Outcomes, Active
<1>10. ASSUME NEW c \in Calls, VerifyFails(c) PROVE TypeInv'
  BY <1>10 DEF VerifyFails, Return, Unknowns, Outcomes, Active
<1>11. ASSUME NEW c \in Calls, VerifyRaises(c) PROVE TypeInv'
  BY <1>11 DEF VerifyRaises, Return, Goto, Outcomes, Active
<1>12. CASE EditorSave
  <2>1. page' \in Page
    <3>1. CASE page' \in EditorPages
      BY <3>1, RmwAssumption
    <3>2. ASSUME page # Absent, NEW l \in EditorLines, page' = Append(page, l)
          PROVE  page' \in Page
      BY <3>2, RmwAssumption DEF Page, Body
    <3>3. ASSUME page # Absent, NEW l \in EditorLines, NEW i \in DOMAIN page,
                 page' = [page EXCEPT ![i] = l]
          PROVE  page' \in Page
      <4>1. page \in Seq(Line) /\ l \in Line
        BY <3>3, RmwAssumption DEF Page, Body
      <4>2. page' \in Seq(Line)
        BY <3>3, <4>1
      <4> QED BY <4>2 DEF Page, Body
    <3> QED BY <1>12, <3>1, <3>2, <3>3 DEF EditorSave
  <2> QED BY <1>12, <2>1 DEF EditorSave
<1>13. CASE UNCHANGED vars
  BY <1>13 DEF vars
<1> QED BY <1>1, <1>2, <1>3, <1>4, <1>5, <1>6, <1>7, <1>8, <1>9, <1>10, <1>11,
           <1>12, <1>13 DEF Next, Step

(* Every variable keeps its kind of value; in particular every body that   *)
(* is ever stored is a body of accepted lines.                             *)
THEOREM TypeCorrect == Spec => []TypeOK
<1>1. TypeInv /\ [Next]_vars => TypeInv'
  BY TypeStep
<1>2. TypeInv => TypeOK
  BY DEF TypeInv
<1> QED BY TypeInit, <1>1, <1>2, PTL DEF Spec

-------------------------------------------------------------------------------
(***************************************************************************)
(* What is known of a call at each point of its life.  It mentions no      *)
(* other call and not the page, so that a step disturbs it for one call.   *)
(***************************************************************************)
(* The body a call PUTs is its edit of the body it read. *)
Attempt(c) ==
    /\ ~req[c].dry_run
    /\ Applicable(req[c].edit, base[c])
    /\ new_body[c] = Edited(req[c].edit, base[c])

Idle(c) == /\ req[c] = NoRequest
           /\ outcome[c] = "none"
           /\ tries[c] = 0
           /\ stored[c] = 0
           /\ c \notin in_flight \cup clobbered

CallInv(c) ==
    /\ pc[c] = "idle" => Idle(c)
    /\ pc[c] \in Active => /\ outcome[c] = "none"
                           /\ tries[c] <= req[c].max_retries
                           /\ c \notin in_flight
    /\ pc[c] = "done" => outcome[c] # "none"
    /\ pc[c] \in {"write", "verify"} \/ c \in in_flight => Attempt(c)
    /\ pc[c] = "verify" => meta_etag[c] = TokenOf(PutEtag, new_body[c])
    /\ c \in in_flight => /\ pc[c] = "done"
                          /\ outcome[c] \in Unknowns
                          /\ stored[c] = tries[c]
                          /\ tries[c] <= req[c].max_retries
    /\ pc[c] # "idle" /\ req[c].if_match = "none" => if_match[c] = NoToken
    /\ Accounted(c)
    /\ BudgetKept(c)

Inv == TypeInv /\ \A c \in Calls : CallInv(c)

(* A step that leaves a call's own state alone preserves what is known of it. *)
LEMMA CallFrame ==
    ASSUME NEW d \in Calls, CallInv(d),
           pc'[d] = pc[d], req'[d] = req[d], if_match'[d] = if_match[d],
           base'[d] = base[d], new_body'[d] = new_body[d],
           meta_etag'[d] = meta_etag[d], tries'[d] = tries[d],
           outcome'[d] = outcome[d], stored'[d] = stored[d],
           d \in in_flight' <=> d \in in_flight,
           d \in clobbered' <=> d \in clobbered
    PROVE  CallInv(d)'
BY DEF CallInv, Attempt, Idle, Accounted, BudgetKept

(* Before any call the accounts are balanced.                              *)
LEMMA InvInit == Init => Inv
<1> SUFFICES ASSUME Init PROVE \A c \in Calls : CallInv(c)
  BY TypeInit DEF Inv
<1> QED BY DEF Init, CallInv, Idle, Active, Accounted, BudgetKept, Unknowns, NoRequest

(* Every action keeps the accounts of every call balanced and what a call  *)
(* has derived in agreement with what it has read.                         *)
LEMMA InvStep ==
    ASSUME Inv, [Next]_vars
    PROVE  Inv'
<1> TypeInv /\ TypeInv'
  BY TypeStep DEF Inv
<1> SUFFICES ASSUME NEW d \in Calls PROVE CallInv(d)'
  BY DEF Inv
<1>0. CallInv(d)
  BY DEF Inv
<1> USE DEF TypeInv, TypeOK, Validated
<1>1. ASSUME NEW c \in Calls, Start(c) PROVE CallInv(d)'
  <2>1. CASE d = c
    <3>1. PICK r \in Requests :
             /\ req'[c] = r
             /\ r.if_match = "none" => if_match'[c] = NoToken
             /\ IF StartOutcome(r) = "none"
                THEN Goto(c, "read")
                ELSE Return(c, StartOutcome(r))
      BY <1>1 DEF Start
    <3>2. Idle(c)
      BY <1>0, <1>1, <2>1 DEF CallInv, Start
    <3>3. UNCHANGED <<tries, stored, in_flight>>
      BY <1>1 DEF Start
    <3>4. /\ StartOutcome(r) \in {"none", "invalid", "assertion"}
          /\ StartOutcome(r) = "none" => r.max_retries >= 0
      BY RequestType DEF StartOutcome
    <3>5. CASE StartOutcome(r) = "none"
      BY <2>1, <3>1, <3>2, <3>3, <3>4, <3>5, RequestType
         DEF Goto, CallInv, Idle, Active, Accounted, BudgetKept, Unknowns
    <3>6. CASE StartOutcome(r) # "none"
      BY <2>1, <3>1, <3>2, <3>3, <3>4, <3>6
         DEF Return, CallInv, Idle, Active, Accounted, BudgetKept, Unknowns
    <3> QED BY <3>5, <3>6
  <2>2. CASE d # c
    BY <1>0, <1>1, <2>2, CallFrame DEF Start, Goto, Return
  <2> QED BY <2>1, <2>2
<1>2. ASSUME NEW c \in Calls, ReadPage(c) PROVE CallInv(d)'
  <2>1. CASE d = c /\ ReadOutcome(c) = "none"
    <3>1. Applicable(req[c].edit, page) /\ ~req[c].dry_run
      BY <2>1 DEF ReadOutcome
    <3> QED BY <1>0, <1>2, <2>1, <3>1
            DEF ReadPage, Goto, CallInv, Attempt, Active, Accounted, BudgetKept, Unknowns
  <2>2. CASE d = c /\ ReadOutcome(c) # "none"
    <3>1. ReadOutcome(c) \in Refusals \ {"ok", "conflict"} /\ ReadOutcome(c) \notin Unknowns
      BY <2>2 DEF ReadOutcome, Refusals, Unknowns
    <3> QED BY <1>0, <1>2, <2>2, <3>1
            DEF ReadPage, Return, CallInv, Active, Accounted, BudgetKept, Unknowns
  <2>3. CASE d # c
    BY <1>0, <1>2, <2>3, CallFrame DEF ReadPage, Goto, Return
  <2> QED BY <2>1, <2>2, <2>3
<1>3. ASSUME NEW c \in Calls, ReadFails(c) PROVE CallInv(d)'
  <2>1. CASE d = c
    BY <1>0, <1>3, <2>1
       DEF ReadFails, Return, CallInv, Active, Accounted, BudgetKept, Unknowns
  <2>2. CASE d # c
    BY <1>0, <1>3, <2>2, CallFrame DEF ReadFails, Return
  <2> QED BY <2>1, <2>2
<1>4. ASSUME NEW c \in Calls, WritePage(c) PROVE CallInv(d)'
  <2>1. CASE d = c
    BY <1>0, <1>4, <2>1
       DEF WritePage, Store, Goto, Return, CallInv, Attempt, Active, Accounted,
           BudgetKept, Unknowns
  <2>2. CASE d # c
    BY <1>0, <1>4, <2>2, CallFrame DEF WritePage, Store, Goto, Return
  <2> QED BY <2>1, <2>2
<1>5. ASSUME NEW c \in Calls, WriteRefused(c) PROVE CallInv(d)'
  <2>1. CASE d = c
    BY <1>0, <1>5, <2>1
       DEF WriteRefused, Return, CallInv, Active, Accounted, BudgetKept, Unknowns
  <2>2. CASE d # c
    BY <1>0, <1>5, <2>2, CallFrame DEF WriteRefused, Return
  <2> QED BY <2>1, <2>2
<1>6. ASSUME NEW c \in Calls, WriteFails(c) PROVE CallInv(d)'
  <2>1. CASE d = c
    BY <1>0, <1>6, <2>1
       DEF WriteFails, Return, CallInv, Attempt, Active, Accounted, BudgetKept, Unknowns
  <2>2. CASE d # c
    BY <1>0, <1>6, <2>2, CallFrame DEF WriteFails, Return
  <2> QED BY <2>1, <2>2
<1>7. ASSUME NEW c \in Calls, LateWrite(c) PROVE CallInv(d)'
  <2>1. CASE d = c
    BY <1>0, <1>7, <2>1
       DEF LateWrite, Store, CallInv, Attempt, Active, Accounted, BudgetKept, Unknowns
  <2>2. CASE d # c
    BY <1>0, <1>7, <2>2, CallFrame DEF LateWrite, Store
  <2> QED BY <2>1, <2>2
<1>8. ASSUME NEW c \in Calls, LateLoss(c) PROVE CallInv(d)'
  <2>1. CASE d = c
    BY <1>0, <1>8, <2>1
       DEF LateLoss, CallInv, Attempt, Active, Accounted, BudgetKept, Unknowns
  <2>2. CASE d # c
    BY <1>0, <1>8, <2>2, CallFrame DEF LateLoss
  <2> QED BY <2>1, <2>2
<1>9. ASSUME NEW c \in Calls, VerifyPasses(c) PROVE CallInv(d)'
  <2>1. CASE d = c
    BY <1>0, <1>9, <2>1
       DEF VerifyPasses, Return, CallInv, Active, Accounted, BudgetKept, Unknowns
  <2>2. CASE d # c
    BY <1>0, <1>9, <2>2, CallFrame DEF VerifyPasses, Return
  <2> QED BY <2>1, <2>2
<1>10. ASSUME NEW c \in Calls, VerifyFails(c) PROVE CallInv(d)'
  <2>1. CASE d = c
    BY <1>0, <1>10, <2>1
       DEF VerifyFails, Return, CallInv, Active, Accounted, BudgetKept, Unknowns
  <2>2. CASE d # c
    BY <1>0, <1>10, <2>2, CallFrame DEF VerifyFails, Return
  <2> QED BY <2>1, <2>2
<1>11. ASSUME NEW c \in Calls, VerifyRaises(c) PROVE CallInv(d)'
  <2>1. CASE d = c
    BY <1>0, <1>11, <2>1, RequestType
       DEF VerifyRaises, Goto, Return, CallInv, Active, Accounted, BudgetKept, Unknowns
  <2>2. CASE d # c
    BY <1>0, <1>11, <2>2, CallFrame DEF VerifyRaises, Goto, Return
  <2> QED BY <2>1, <2>2
<1>12. CASE EditorSave
  BY <1>0, <1>12, CallFrame DEF EditorSave
<1>13. CASE UNCHANGED vars
  BY <1>0, <1>13, CallFrame DEF vars
<1> QED BY <1>1, <1>2, <1>3, <1>4, <1>5, <1>6, <1>7, <1>8, <1>9, <1>10, <1>11,
           <1>12, <1>13 DEF Next, Step

(* The inductive invariant holds throughout.                               *)
LEMMA Invariance == Spec => []Inv
<1>1. Inv /\ [Next]_vars => Inv'
  BY InvStep
<1> QED BY InvInit, <1>1, PTL DEF Spec

(* Whatever is lost, late or retried, the number of PUTs the server has    *)
(* stored for a call is the number its answers account for, and no attempt *)
(* is repeated beyond the budget.                                          *)
THEOREM WritesAccounted == Spec => []AnswersAccountForWrites
<1>1. Inv => AnswersAccountForWrites
  BY DEF Inv, CallInv, AnswersAccountForWrites
<1> QED BY Invariance, <1>1, PTL

(* When GET and PUT responses give the same kind of token, "concurrent     *)
(* edit detected" is never raised on the page the attempt itself stored.   *)
THEOREM ConflictsReal ==
    ASSUME PutEtag = GetEtag
    PROVE  Spec => ConflictIsReal
<1>1. ASSUME Inv, [Next]_vars, NEW c \in Calls, tries'[c] # tries[c]
      PROVE  page # new_body[c]
  <2> USE DEF Inv, TypeInv, TypeOK
  <2>1. VerifyRaises(c)
    BY <1>1 DEF Next, Step, Start, ReadPage, ReadFails, WritePage, WriteRefused,
       WriteFails, LateWrite, LateLoss, VerifyPasses, VerifyFails, VerifyRaises,
       EditorSave, vars
  <2>2. meta_etag[c] = TokenOf(GetEtag, new_body[c])
    BY <1>1, <2>1 DEF CallInv, VerifyRaises
  <2> QED BY <2>1, <2>2 DEF VerifyRaises, Drifted
<1>2. Inv /\ [Next]_vars
         => [\A c \in Calls : tries'[c] # tries[c] => page # new_body[c]]_vars
  BY <1>1
<1> QED BY Invariance, <1>2, PTL DEF Spec, ConflictIsReal

-------------------------------------------------------------------------------
(***************************************************************************)
(* What a call counts as a conflict, others have done.  While a call waits *)
(* for its verification the page it stored may have been replaced already: *)
(* that counts before the call has seen it.                                *)
(***************************************************************************)
Pending(c) == IF pc[c] = "verify" /\ page # new_body[c] THEN 1 ELSE 0

ConflictsInSight == \A c \in Calls : tries[c] + Pending(c) <= OthersStored(c)

(* What some of the calls have stored is a number.                         *)
LEMMA StoredType ==
    ASSUME NEW counts \in [Calls -> Nat], NEW c
    PROVE  /\ IsFiniteSet(Calls \ {c})
           /\ Summable(counts, Calls \ {c})
           /\ SumFunctionOnSet(counts, Calls \ {c}) \in Nat
<1>1. IsFiniteSet(Calls \ {c}) /\ Summable(counts, Calls \ {c})
  BY FiniteCalls, FS_RemoveElement DEF Summable
<1> QED
  BY <1>1, SumRemove

(* A PUT that is stored counts for every call but its own.                 *)
LEMMA StoreCounts ==
    ASSUME TypeOK, NEW c \in Calls, NEW d \in Calls, saves' = saves,
           stored' = [stored EXCEPT ![c] = @ + 1]
    PROVE  OthersStored(d)' = OthersStored(d) + IF c = d THEN 0 ELSE 1
<1>1. stored \in [Calls -> Nat] /\ saves \in Nat
  BY DEF TypeOK
<1>2. GrowsAt(stored, stored', c, Calls \ {d})
  BY <1>1 DEF GrowsAt
<1>3. SumFunctionOnSet(stored', Calls \ {d})
         = SumFunctionOnSet(stored, Calls \ {d}) + IF c \in Calls \ {d} THEN 1 ELSE 0
  BY <1>1, <1>2, StoredType, SumIncrement
<1>4. SumFunctionOnSet(stored, Calls \ {d}) \in Nat
  BY <1>1, StoredType
<1> QED
  BY <1>1, <1>3, <1>4 DEF OthersStored

(* Nothing has been stored, and nobody has been told of a conflict.        *)
LEMMA ConflictsInSightInit == Init => ConflictsInSight
<1> SUFFICES ASSUME Init, NEW c \in Calls
             PROVE  tries[c] + Pending(c) <= OthersStored(c)
  BY DEF ConflictsInSight
<1>1. tries[c] + Pending(c) = 0
  BY DEF Init, Pending
<1>2. OthersStored(c) \in Nat
  <2>1. stored \in [Calls -> Nat] /\ saves \in Nat
    BY DEF Init
  <2>2. SumFunctionOnSet(stored, Calls \ {c}) \in Nat
    BY <2>1, StoredType
  <2> QED BY <2>1, <2>2 DEF OthersStored
<1> QED
  BY <1>1, <1>2

(* A step replaces the page only if it counts for the call, or is the      *)
(* call's own: then the page is what the call stored.                      *)
LEMMA ConflictsInSightStep ==
    ASSUME PutEtag = GetEtag, Inv, ConflictsInSight, [Next]_vars
    PROVE  ConflictsInSight'
<1> TypeOK /\ TypeOK'
  BY TypeStep DEF Inv, TypeInv
<1> SUFFICES ASSUME NEW d \in Calls
             PROVE  tries'[d] + Pending(d)' <= OthersStored(d)'
  BY DEF ConflictsInSight
<1>0. /\ CallInv(d)
      /\ tries[d] + Pending(d) <= OthersStored(d)
      /\ tries[d] \in Nat /\ OthersStored(d) \in Nat /\ OthersStored(d)' \in Nat
      /\ Pending(d) \in {0, 1} /\ Pending(d)' \in {0, 1}
  <2>1. OthersStored(d) \in Nat
    <3>1. stored \in [Calls -> Nat] /\ saves \in Nat
      BY DEF TypeOK
    <3>2. SumFunctionOnSet(stored, Calls \ {d}) \in Nat
      BY <3>1, StoredType
    <3> QED BY <3>1, <3>2 DEF OthersStored
  <2>2. OthersStored(d)' \in Nat
    <3>1. stored' \in [Calls -> Nat] /\ saves' \in Nat
      BY DEF TypeOK
    <3>2. SumFunctionOnSet(stored', Calls \ {d}) \in Nat
      BY <3>1, StoredType
    <3> QED BY <3>1, <3>2 DEF OthersStored
  <2>3. CallInv(d) /\ tries[d] + Pending(d) <= OthersStored(d) /\ tries[d] \in Nat
    BY DEF Inv, ConflictsInSight, TypeOK
  <2> QED BY <2>1, <2>2, <2>3 DEF Pending
<1>1. ASSUME UNCHANGED <<saves, stored, tries>>, Pending(d)' <= Pending(d)
      PROVE  tries'[d] + Pending(d)' <= OthersStored(d)'
  BY <1>0, <1>1 DEF OthersStored
<1>2. ASSUME NEW c \in Calls, WritePage(c) \/ LateWrite(c)
      PROVE  tries'[d] + Pending(d)' <= OthersStored(d)'
  <2>1. tries' = tries /\ page' = new_body[c] /\ new_body' = new_body
        /\ OthersStored(d)' = OthersStored(d) + IF c = d THEN 0 ELSE 1
    BY <1>2, StoreCounts DEF WritePage, LateWrite, Store
  <2>2. c = d => Pending(d)' = 0
    BY <2>1 DEF Pending
  <2> QED BY <1>0, <2>1, <2>2
<1>3. ASSUME NEW c \in Calls, VerifyRaises(c)
      PROVE  tries'[d] + Pending(d)' <= OthersStored(d)'
  <2>1. UNCHANGED <<saves, stored, page, new_body>> /\ OthersStored(d)' = OthersStored(d)
    BY <1>3 DEF VerifyRaises, OthersStored
  <2>2. CASE c = d
    <3>1. page # new_body[d]
      BY <1>0, <1>3, <2>2 DEF VerifyRaises, Drifted, CallInv
    <3>2. Pending(d) = 1 /\ Pending(d)' = 0 /\ tries'[d] = tries[d] + 1
      BY <1>3, <2>2, <3>1 DEF VerifyRaises, Pending, Goto, Return, TypeOK
    <3> QED BY <1>0, <2>1, <3>2
  <2>3. CASE c # d
    <3>1. Pending(d)' = Pending(d) /\ tries'[d] = tries[d]
      BY <1>3, <2>3 DEF VerifyRaises, Pending, Goto, Return, TypeOK
    <3> QED BY <1>0, <2>1, <3>1
  <2> QED BY <2>2, <2>3
<1>4. CASE EditorSave
  <2>1. UNCHANGED <<stored, tries>> /\ saves' = saves + 1
    BY <1>4 DEF EditorSave
  <2>2. SumFunctionOnSet(stored, Calls \ {d}) \in Nat
    BY StoredType DEF TypeOK
  <2>3. OthersStored(d)' = OthersStored(d) + 1
    BY <2>1, <2>2 DEF OthersStored, TypeOK
  <2> QED BY <1>0, <2>1, <2>3
<1>5. ASSUME NEW c \in Calls, Start(c) \/ ReadFails(c) \/ WriteRefused(c) \/ WriteFails(c)
                \/ LateLoss(c) \/ VerifyPasses(c) \/ VerifyFails(c)
      PROVE  UNCHANGED <<saves, stored, tries>> /\ Pending(d)' <= Pending(d)
  <2>1. UNCHANGED <<saves, stored, tries, page, new_body>>
    BY <1>5 DEF Start, ReadFails, WriteRefused, WriteFails, LateLoss, VerifyPasses, VerifyFails
  <2>2. pc'[d] = "verify" => pc[d] = "verify"
    BY <1>5 DEF Start, ReadFails, WriteRefused, WriteFails, LateLoss, VerifyPasses,
       VerifyFails, Goto, Return, TypeOK
  <2> QED BY <2>1, <2>2 DEF Pending
<1>6. ASSUME NEW c \in Calls, ReadPage(c)
      PROVE  UNCHANGED <<saves, stored, tries>> /\ Pending(d)' <= Pending(d)
  <2>1. UNCHANGED <<saves, stored, tries, page>>
    BY <1>6 DEF ReadPage
  <2>2. pc'[d] = "verify" => pc[d] = "verify" /\ new_body'[d] = new_body[d]
    BY <1>6 DEF ReadPage, Goto, Return, TypeOK
  <2> QED BY <2>1, <2>2 DEF Pending
<1>7. CASE UNCHANGED vars
  BY <1>1, <1>7 DEF vars, Pending
<1> QED
  BY <1>1, <1>2, <1>3, <1>4, <1>5, <1>6, <1>7 DEF Next, Step

(* When GET and PUT responses give the same kind of token, a call is told  *)
(* of no more conflicts, and retries no more often, than there were PUTs   *)
(* of other calls and steps of outside writers.                            *)
THEOREM ConflictsCaused ==
    ASSUME PutEtag = GetEtag
    PROVE  Spec => []ConflictsAreCaused
<1>1. Inv /\ ConflictsInSight /\ [Next]_vars => ConflictsInSight'
  BY ConflictsInSightStep
<1>2. Inv /\ ConflictsInSight => ConflictsAreCaused
  <2> SUFFICES ASSUME Inv, ConflictsInSight, NEW c \in Calls
               PROVE  tries[c] <= OthersStored(c)
    BY DEF ConflictsAreCaused
  <2>1. tries[c] \in Nat /\ stored \in [Calls -> Nat] /\ saves \in Nat
    BY DEF Inv, TypeInv, TypeOK
  <2>2. OthersStored(c) \in Nat
    BY <2>1, StoredType DEF OthersStored
  <2> QED BY <2>1, <2>2 DEF ConflictsInSight, Pending
<1> QED BY Invariance, ConflictsInSightInit, <1>1, <1>2, PTL DEF Spec

-------------------------------------------------------------------------------
(* When tokens are hashes and no verification request fails, a verified    *)
(* acknowledgement means the page still holds what the call stored, or was *)
(* deleted since.                                                          *)
THEOREM AcksSeeOwnWrite ==
    ASSUME PutEtag = "hash", GetEtag = "hash", ~Faults
    PROVE  Spec => AckSeesOwnWrite
<1>1. ASSUME Inv, [Next]_vars, NEW c \in Calls, pc[c] = "verify", outcome'[c] = "ok"
      PROVE  page \in {Absent, new_body[c]}
  <2> USE DEF Inv, TypeInv, TypeOK
  <2>1. outcome[c] = "none" /\ meta_etag[c] = TokenOf(PutEtag, new_body[c])
    BY <1>1 DEF CallInv, Active
  <2>2. VerifyPasses(c)
    BY <1>1, <2>1 DEF Next, Step, Start, ReadPage, ReadFails, WritePage, WriteRefused,
       WriteFails, LateWrite, LateLoss, VerifyPasses, VerifyFails, VerifyRaises,
       EditorSave, vars, Return, Goto, Unknowns
  <2> QED BY <2>1, <2>2 DEF VerifyPasses, Drifted, TokenOf
<1>2. Inv /\ [Next]_vars
         => [\A c \in Calls : pc[c] = "verify" /\ outcome'[c] = "ok"
                 => page \in {Absent, new_body[c]}]_vars
  BY <1>1
<1> QED BY Invariance, <1>2, PTL DEF Spec, AckSeesOwnWrite

(* On a server that enforces If-Match and answers a GET with the hash, a   *)
(* dry run refuses what the live call would be refused for, and nothing    *)
(* else (_validate_if_match_on_read against the server's check).           *)
THEOREM DryRunsForetell ==
    ASSUME HonorsIfMatch, GetEtag = "hash"
    PROVE  Spec => DryRunForetells
<1>1. ASSUME Inv, [Next]_vars, NEW c \in Calls, pc[c] = "read",
             outcome'[c] \in {"preview", "precondition"}
      PROVE  IfMatchHolds(LivePrecondition(c), page) <=> outcome'[c] = "preview"
  <2> USE DEF Inv, TypeInv, TypeOK
  <2>1. outcome[c] = "none"
    BY <1>1 DEF CallInv, Active
  <2>2. ReadPage(c)
    BY <1>1, <2>1 DEF Next, Step, Start, ReadPage, ReadFails, WritePage, WriteRefused,
       WriteFails, LateWrite, LateLoss, VerifyPasses, VerifyFails, VerifyRaises,
       EditorSave, vars, Return, Goto, Unknowns
  <2>3. ReadOutcome(c) = outcome'[c]
    BY <1>1, <2>1, <2>2 DEF ReadPage, Return, Goto
  <2>4. page # Absent /\ (StaleOnRead(c) <=> outcome'[c] = "precondition")
    BY <1>1, <2>3 DEF ReadOutcome
  <2>5. StaleOnRead(c) <=> ~IfMatchHolds(LivePrecondition(c), page)
    BY <2>4 DEF StaleOnRead, IfMatchHolds, LivePrecondition, TokenOf, NoToken, Star
  <2> QED BY <1>1, <2>4, <2>5
<1>2. Inv /\ [Next]_vars
         => [\A c \in Calls :
                /\ pc[c] = "read" /\ outcome'[c] = "preview"
                      => IfMatchHolds(LivePrecondition(c), page)
                /\ pc[c] = "read" /\ outcome'[c] = "precondition"
                      => ~IfMatchHolds(LivePrecondition(c), page)]_vars
  BY <1>1
<1> QED BY Invariance, <1>2, PTL DEF Spec, DryRunForetells

-------------------------------------------------------------------------------
(***************************************************************************)
(* A server that enforces If-Match and returns the hash of the body.       *)
(***************************************************************************)
Enforced == HonorsIfMatch /\ GetEtag = "hash"

(* The bridge's own token admits a PUT only onto the body it was made from. *)
LEMMA AdmittedOnBase ==
    ASSUME Enforced, NEW c \in Calls, Admitted(c), if_match[c] = NoToken
    PROVE  page = base[c]
BY DEF Enforced, Admitted, IfMatchHolds, write_if_match, TokenOf, NoToken, Star

(* No PUT that carries the token of the bridge's own read replaces a body  *)
(* it was not derived from, however late the server processes it.          *)
THEOREM NothingClobbered ==
    ASSUME Enforced
    PROVE  Spec => []AutoTokenNeverClobbers
<1>1. Init => AutoTokenNeverClobbers
  BY DEF Init, AutoTokenNeverClobbers
<1>2. ASSUME Inv, AutoTokenNeverClobbers, [Next]_vars
      PROVE  AutoTokenNeverClobbers'
  <2> USE <1>2 DEF Inv, TypeInv, TypeOK
  <2> SUFFICES ASSUME NEW d \in clobbered' PROVE req'[d].if_match # "none"
    BY DEF AutoTokenNeverClobbers
  <2>1. ASSUME NEW c \in Calls, Start(c) PROVE req'[d].if_match # "none"
    <3>1. d \in clobbered
      BY <2>1 DEF Start
    <3>2. d # c
      BY <2>1, <3>1 DEF Start, CallInv, Idle
    <3> QED BY <2>1, <3>1, <3>2 DEF Start, AutoTokenNeverClobbers
  <2>2. ASSUME NEW c \in Calls, WritePage(c) \/ LateWrite(c)
        PROVE  req'[d].if_match # "none"
    <3>1. CASE d = c /\ req[c].if_match = "none"
      <4>1. if_match[c] = NoToken /\ Admitted(c) /\ Store(c)
        BY <2>2, <3>1 DEF WritePage, LateWrite, CallInv
      <4>2. d \in clobbered
        BY <4>1, AdmittedOnBase DEF Store
      <4> QED BY <2>2, <4>2 DEF WritePage, LateWrite, AutoTokenNeverClobbers
    <3>2. CASE d = c /\ req[c].if_match # "none"
      BY <2>2, <3>2 DEF WritePage, LateWrite
    <3>3. CASE d # c
      BY <2>2, <3>3 DEF WritePage, LateWrite, Store, AutoTokenNeverClobbers
    <3> QED BY <3>1, <3>2, <3>3
  <2>3. CASE UNCHANGED <<clobbered, req>>
    BY <2>3 DEF AutoTokenNeverClobbers
  <2> QED BY <2>1, <2>2, <2>3
          DEF Next, Step, ReadPage, ReadFails, WriteRefused, WriteFails, LateLoss,
              VerifyPasses, VerifyFails, VerifyRaises, EditorSave, vars
<1> QED BY Invariance, <1>1, <1>2, PTL DEF Spec

(***************************************************************************)
(* The tools implement AtomicEdits when clients leave the token to them.   *)
(***************************************************************************)
NoClientTokens == \A r \in Requests : r.if_match = "none"

(* A request is never the record that stands for the lack of one.          *)
LEMMA RequestIsNotNone ==
    ASSUME NEW r \in Requests
    PROVE  r # NoRequest
<1>1. "edit" \in DOMAIN r
  BY RmwAssumption
<1>2. "edit" \notin DOMAIN NoRequest
  BY DEF NoRequest
<1> QED BY <1>1, <1>2

(* The bridge's own token matches only the body it was made from. *)
LEMMA MatchesBase ==
    ASSUME Enforced, NEW c \in Calls, if_match[c] = NoToken,
           IfMatchHolds(write_if_match(c), page)
    PROVE  page = base[c] /\ page # Absent
BY DEF Enforced, IfMatchHolds, write_if_match, TokenOf, NoToken, Star

(* Both specifications speak of the same edits. *)
LEMMA SameEdits ==
    ASSUME NEW e \in Edits, NEW body
    PROVE  /\ Promise!Applicable(e, body) <=> Applicable(e, body)
           /\ Promise!Edited(e, body) = Edited(e, body)
<1>1. Promise!TaskLines = TaskLines
  BY DEF TaskLines, Promise!TaskLines, TaskLine, Promise!TaskLine, TaskStates,
     Promise!TaskStates
<1>2. Promise!TaskLine(e.state) = TaskLine(e.state)
  BY DEF TaskLine, Promise!TaskLine
<1>3. \A S, line : Promise!Substitute(body, S, line) = Substitute(body, S, line)
  BY DEF Substitute, Promise!Substitute
<1>4. Promise!FrontMatter = FrontMatter
      /\ (Promise!HasFrontMatter(body) <=> HasFrontMatter(body))
  BY DEF HasFrontMatter, Promise!HasFrontMatter, FrontMatter, Promise!FrontMatter
<1>5. \A S : Promise!LinesWith(body, S) = LinesWith(body, S)
  BY DEF LinesWith, Promise!LinesWith
<1>6. Promise!Applicable(e, body) <=> Applicable(e, body)
  <2>1. \A S : Promise!OneLineWith(body, S) <=> OneLineWith(body, S)
    BY <1>5 DEF OneLineWith, Promise!OneLineWith
  <2> QED BY <1>1, <1>5, <2>1
          DEF Applicable, Promise!Applicable, RangeFits, Promise!RangeFits,
              FindFits, Promise!FindFits, ReferenceFits, Promise!ReferenceFits
<1>7. e.tool \in {"append_to_page", "prepend_to_page", "patch_page_lines",
                  "patch_page_replace", "check_task"}
  BY DEF Edits
<1>8. Promise!Edited(e, body) = Edited(e, body)
  <2>1. CASE e.tool = "append_to_page"
    BY <2>1 DEF Edited, Promise!Edited
  <2>2. CASE e.tool = "prepend_to_page"
    BY <1>4, <2>2 DEF Edited, Promise!Edited, Prepended, Promise!Prepended
  <2>3. CASE e.tool = "patch_page_lines"
    BY <2>3 DEF Edited, Promise!Edited, LinesPatched, Promise!LinesPatched
  <2>4. CASE e.tool = "patch_page_replace"
    BY <1>3, <2>4 DEF Edited, Promise!Edited
  <2>5. CASE e.tool = "check_task"
    BY <1>1, <1>2, <1>3, <2>5 DEF Edited, Promise!Edited
  <2> QED BY <1>7, <2>1, <2>2, <2>3, <2>4, <2>5
<1> QED BY <1>6, <1>8

(* A call whose edit the promise still allows. *)
LEMMA PendingCall ==
    ASSUME Inv, NoClientTokens, NEW c \in Calls,
           pc[c] \in {"read", "write"} \/ c \in in_flight
    PROVE  Promise!Pending(c) /\ if_match[c] = NoToken
<1> USE DEF Inv, TypeInv, TypeOK, Validated
<1>1. CallInv(c) /\ req[c] \in Requests /\ pc[c] # "idle"
  BY DEF CallInv
<1>2. req[c] # NoRequest /\ if_match[c] = NoToken
  BY <1>1, RequestIsNotNone DEF CallInv, NoClientTokens
<1>3. CASE pc[c] \in {"read", "write"}
  BY <1>1, <1>2, <1>3 DEF CallInv, Active, Accounted, Unknowns, Promise!Pending
<1>4. CASE c \in in_flight
  BY <1>1, <1>2, <1>4 DEF CallInv, Unknowns, Promise!Pending
<1> QED BY <1>3, <1>4

(* A PUT the server stores is an edit of the promise. *)
LEMMA StoreIsEdit ==
    ASSUME Inv, Enforced, NoClientTokens, NEW c \in Calls,
           pc[c] = "write" \/ c \in in_flight,
           Admitted(c), Store(c), UNCHANGED req,
           \/ UNCHANGED outcome
           \/ outcome[c] = "none" /\ outcome' = [outcome EXCEPT ![c] = "ok"]
    PROVE  Promise!Edit(c)
<1> USE DEF Inv, TypeInv, TypeOK
<1>1. Promise!Pending(c) /\ if_match[c] = NoToken
  BY PendingCall
<1>2. page = base[c] /\ page # Absent
  BY <1>1, MatchesBase DEF Admitted
<1>3. Attempt(c)
  BY DEF CallInv
<1>4. req[c].edit \in Edits
  BY RequestType DEF Validated, CallInv
<1> QED BY <1>1, <1>2, <1>3, <1>4, SameEdits DEF Attempt, Store, Promise!Edit

(* An answer given by a step that leaves the page alone is told. *)
LEMMA ReturnIsTell ==
    ASSUME Inv, NEW c \in Calls, pc[c] \in Active,
           NEW answer \in Promise!Answers, Promise!Truthful(c, answer),
           Return(c, answer), UNCHANGED <<page, req, stored>>
    PROVE  Promise!Tell(c)
<1> USE DEF Inv, TypeInv, TypeOK, Validated
<1>1. outcome[c] = "none" /\ req[c] # NoRequest
  BY RequestIsNotNone DEF CallInv, Active
<1> QED BY <1>1 DEF Return, Promise!Tell

(* Every PUT the server stores is the call's edit of the page it lands on, *)
(* within the budget, and every answer is true when it is given, with any  *)
(* number of calls, outside writers, lost responses and late requests.     *)
THEOREM EditsImplementPromise ==
    ASSUME Enforced, NoClientTokens
    PROVE  Spec => EditsAreAtomic
<1>1. Init => Promise!Init
  BY DEF Init, Promise!Init
<1>2. ASSUME Inv, [Next]_vars
      PROVE  Promise!Next \/ UNCHANGED <<page, req, stored, outcome>>
  <2> USE <1>2
  <2> DEFINE Goal == Promise!Next \/ UNCHANGED <<page, req, stored, outcome>>
  <2>1. ASSUME NEW c \in Calls, Start(c) PROVE Goal
    <3>1. PICK r \in Requests :
             /\ req' = [req EXCEPT ![c] = r]
             /\ IF StartOutcome(r) = "none"
                THEN Goto(c, "read")
                ELSE Return(c, StartOutcome(r))
      BY <2>1 DEF Start
    <3>2. StartOutcome(r) \in {"none", "invalid", "assertion"}
      BY DEF StartOutcome
    <3>3. req[c] = NoRequest /\ outcome[c] = "none"
      BY <2>1 DEF Start, Inv, CallInv, Idle
    <3>4. outcome' = [outcome EXCEPT ![c] = StartOutcome(r)]
      <4>1. CASE StartOutcome(r) = "none"
        BY <3>1, <3>3, <4>1 DEF Goto, Inv, TypeInv, TypeOK
      <4>2. CASE StartOutcome(r) # "none"
        BY <3>1, <4>2 DEF Return
      <4> QED BY <4>1, <4>2
    <3>5. Promise!Ask(c)
      BY <2>1, <3>1, <3>2, <3>3, <3>4 DEF Start, Promise!Ask
    <3> QED BY <3>5 DEF Promise!Next
  <2>2. ASSUME NEW c \in Calls, ReadPage(c) PROVE Goal
    <3>1. CASE ReadOutcome(c) = "none"
      BY <2>2, <3>1 DEF ReadPage, Goto
    <3>2. CASE ReadOutcome(c) # "none"
      <4>1. pc[c] = "read" /\ Promise!Pending(c) /\ req[c].edit \in Edits
        BY <2>2, PendingCall, RequestType DEF ReadPage, Inv, TypeInv, Validated
      <4>2. /\ ReadOutcome(c) \in Promise!Answers
            /\ Promise!Truthful(c, ReadOutcome(c))
        BY <3>2, <4>1, SameEdits
           DEF ReadOutcome, TooLarge, Promise!Answers, Promise!Truthful
      <4>3. Promise!Tell(c)
        BY <2>2, <3>2, <4>1, <4>2, ReturnIsTell DEF ReadPage, Active
      <4> QED BY <4>3 DEF Promise!Next
    <3> QED BY <3>1, <3>2
  <2>3. ASSUME NEW c \in Calls, ReadFails(c) \/ WriteFails(c) \/ VerifyFails(c)
        PROVE  Goal
    <3>1. PICK answer \in Unknowns : Return(c, answer)
      BY <2>3 DEF ReadFails, WriteFails, VerifyFails, Unknowns
    <3>2. answer \in Promise!Answers /\ Promise!Truthful(c, answer)
      BY DEF Unknowns, Promise!Answers, Promise!Truthful
    <3>3. Promise!Tell(c)
      BY <2>3, <3>1, <3>2, ReturnIsTell DEF ReadFails, WriteFails, VerifyFails, Active
    <3> QED BY <3>3 DEF Promise!Next
  <2>4. ASSUME NEW c \in Calls, WritePage(c) PROVE Goal
    <3>1. outcome[c] = "none"
      BY <2>4 DEF WritePage, Inv, CallInv, Active
    <3>2. Promise!Edit(c)
      BY <2>4, <3>1, StoreIsEdit DEF WritePage, Return, Goto
    <3> QED BY <3>2 DEF Promise!Next
  <2>5. ASSUME NEW c \in Calls, WriteRefused(c) PROVE Goal
    <3> DEFINE answer == IF IfMatchHolds(write_if_match(c), page)
                         THEN "too_large" ELSE "precondition"
    <3>1. /\ pc[c] = "write" /\ Promise!Pending(c) /\ if_match[c] = NoToken
          /\ req[c].edit \in Edits
      BY <2>5, PendingCall, RequestType DEF WriteRefused, Inv, TypeInv, Validated
    <3>2. Promise!Truthful(c, answer)
      <4>1. CASE IfMatchHolds(write_if_match(c), page)
        <5>1. page = base[c] /\ page # Absent
          BY <3>1, <4>1, MatchesBase
        <5>2. Attempt(c)
          BY <3>1 DEF Inv, CallInv
        <5>3. new_body[c] \in Body /\ ~(Len(new_body[c]) <= BodyLimit)
          BY <2>5, <4>1 DEF WriteRefused, Admitted, Inv, TypeInv, TypeOK
        <5>4. Len(Edited(req[c].edit, page)) > BodyLimit
          BY <5>1, <5>2, <5>3, RmwAssumption DEF Attempt, Body
        <5> QED BY <3>1, <4>1, <5>1, <5>2, <5>4, SameEdits DEF Attempt, Promise!Truthful
      <4>2. CASE ~IfMatchHolds(write_if_match(c), page)
        BY <3>1, <4>2 DEF Promise!Truthful
      <4> QED BY <4>1, <4>2
    <3>3. Promise!Tell(c)
      BY <2>5, <3>1, <3>2, ReturnIsTell DEF WriteRefused, Active, Promise!Answers
    <3> QED BY <3>3 DEF Promise!Next
  <2>6. ASSUME NEW c \in Calls, LateWrite(c) PROVE Goal
    <3>1. Promise!Edit(c)
      BY <2>6, StoreIsEdit DEF LateWrite
    <3> QED BY <3>1 DEF Promise!Next
  <2>7. ASSUME NEW c \in Calls, LateLoss(c) PROVE Goal
    BY <2>7 DEF LateLoss
  <2>8. ASSUME NEW c \in Calls, VerifyPasses(c) PROVE Goal
    <3>1. stored[c] > 0
      BY <2>8 DEF VerifyPasses, Inv, TypeInv, TypeOK, CallInv, Accounted, Active, Unknowns
    <3>2. Promise!Tell(c)
      BY <2>8, <3>1, ReturnIsTell DEF VerifyPasses, Active, Promise!Answers, Promise!Truthful
    <3> QED BY <3>2 DEF Promise!Next
  <2>9. ASSUME NEW c \in Calls, VerifyRaises(c) PROVE Goal
    <3>1. CASE tries[c] < req[c].max_retries
      BY <2>9, <3>1 DEF VerifyRaises, Goto
    <3>2. CASE ~(tries[c] < req[c].max_retries)
      <4>1. /\ stored[c] = tries[c] + 1
            /\ tries[c] <= req[c].max_retries
            /\ req[c] \in Requests
        BY <2>9 DEF VerifyRaises, Inv, TypeInv, TypeOK, Validated, CallInv, Accounted,
           Active, Unknowns
      <4>2. stored[c] = req[c].max_retries + 1
        BY <3>2, <4>1, RequestType DEF Inv, TypeInv, TypeOK
      <4>3. Promise!Tell(c)
        BY <2>9, <3>2, <4>2, ReturnIsTell
           DEF VerifyRaises, Active, Promise!Answers, Promise!Truthful
      <4> QED BY <4>3 DEF Promise!Next
    <3> QED BY <3>1, <3>2
  <2>10. CASE EditorSave
    <3>1. page' \in Seq(Line) \cup {Absent}
      BY <2>10, TypeStep DEF Inv, TypeInv, TypeOK, Page, Body
    <3> QED BY <2>10, <3>1 DEF EditorSave, Promise!Next, Promise!Foreign
  <2>11. CASE UNCHANGED vars
    BY <2>11 DEF vars
  <2> QED BY <2>1, <2>2, <2>3, <2>4, <2>5, <2>6, <2>7, <2>8, <2>9, <2>10, <2>11
          DEF Next, Step
<1>3. Inv /\ [Next]_vars => [Promise!Next]_(Promise!avars)
  BY <1>2 DEF Promise!avars
<1> QED BY Invariance, <1>1, <1>3, PTL DEF Spec, EditsAreAtomic, Promise!Spec
===============================================================================
