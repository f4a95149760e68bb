------------------------ MODULE WholePageTools_proofs -------------------------
(***************************************************************************)
(* Theorems about WholePageTools, for any number of calls and names and    *)
(* any requests, pages and bounds.                                         *)
(***************************************************************************)
EXTENDS WholePageTools, TLAPS

Writers == {"write_page", "create_page", "move_page"}
Removers == {"delete_page", "move_page"}
Active == {"read", "put", "delete", "verify"}

Tool(c) == req[c].tool
Moves(c) == Tool(c) = "move_page"
InPlace(c) == Moves(c) /\ req[c].name = req[c].new_name

(* A call is only where its tool leads. *)
Placed(c) ==
    /\ pc[c] # "idle" => req[c] \in Requests
    /\ in_flight[c] # "none" => pc[c] = "done"
    /\ pc[c] = "read" => Moves(c)
    /\ pc[c] = "put" \/ in_flight[c] = "put" => Tool(c) \in Writers
    /\ pc[c] = "delete" \/ in_flight[c] = "delete" => Tool(c) \in Removers

TypeInv == TypeOK /\ \A c \in Calls : Placed(c)

(***************************************************************************)
(* What is known of a call at each point of its life.  It mentions no      *)
(* other call and no page, so that a step disturbs it for one call.        *)
(***************************************************************************)
Idle(c) ==
    /\ req[c] = NoRequest
    /\ outcome[c] = "none"
    /\ in_flight[c] = "none"
    /\ tries[c] = 0
    /\ puts[c] = 0
    /\ deletes[c] = 0

BeforePut(c) == puts[c] = tries[c] /\ deletes[c] = tries[c]

BeforeDelete(c) ==
    /\ puts[c] = IF Moves(c) THEN tries[c] + 1 ELSE 0
    /\ deletes[c] = tries[c]

CallInv(c) ==
    /\ pc[c] = "idle" => Idle(c)
    /\ pc[c] \in Active =>
          /\ outcome[c] = "none"
          /\ in_flight[c] = "none"
          /\ IF Moves(c) /\ ~InPlace(c) THEN tries[c] <= req[c].max_retries
                                   ELSE tries[c] = 0
    /\ pc[c] = "done" => outcome[c] # "none"
    /\ in_flight[c] # "none" => pc[c] = "done" /\ outcome[c] \in Unknowns \cup {"both_exist"}
    /\ pc[c] \in {"read", "put"} \/ in_flight[c] = "put" => BeforePut(c)
    /\ pc[c] = "delete" \/ in_flight[c] = "delete" => BeforeDelete(c)
    /\ InPlace(c) => /\ pc[c] \notin {"put", "delete", "verify"}
                     /\ in_flight[c] = "none"
                     /\ tries[c] = 0
    /\ Accounted(c)
    /\ BudgetKept(c)

Inv == TypeInv /\ \A c \in Calls : CallInv(c)

-------------------------------------------------------------------------------
(* What a client may ask for, tool by tool.                                *)
LEMMA RequestType ==
    ASSUME NEW r \in Requests
    PROVE  /\ r.tool \in {"write_page", "create_page", "delete_page", "move_page"}
           /\ r.name \in Names
           /\ r.tool \in {"write_page", "create_page"} => r.content \in Body
           /\ r.tool # "create_page" => r.if_match \in IfMatchArgs
           /\ r.tool = "move_page" => r.new_name \in Names /\ r.max_retries \in Int
<1>1. r \in AllRequests
  BY WholePageAssumption
<1> QED BY <1>1 DEF AllRequests

(* The token of a body, of any kind, is a token.                           *)
LEMMA TokenType ==
    ASSUME NEW kind \in TokenKinds, NEW b \in Body
    PROVE  TokenOf(kind, b) \in Tokens
BY DEF TokenKinds, TokenOf, Tokens, Body, NoToken

(* The tokens that are not made from a body.                               *)
LEMMA FixedTokens == NoToken \in Tokens /\ Star \in Tokens
BY DEF Tokens

(* A stored PUT leaves pages at all names.                                 *)
LEMMA StoreType ==
    ASSUME TypeOK, NEW c \in Calls, StorePut(c)
    PROVE  pages' \in [Names -> Page] /\ puts' \in [Calls -> Nat]
<1>1. body[c] \in Page
  BY DEF TypeOK, Page
<1>2. pages' = [pages EXCEPT ![Target(c)] = body[c]]
  BY DEF StorePut
<1>3. pages' \in [Names -> Page]
  BY <1>1, <1>2 DEF TypeOK
<1>4. puts' \in [Calls -> Nat]
  BY DEF StorePut, TypeOK
<1> QED BY <1>3, <1>4

(* So does a DELETE that is carried out.                                   *)
LEMMA CarryOutType ==
    ASSUME TypeOK, NEW c \in Calls, CarryOutDelete(c)
    PROVE  pages' \in [Names -> Page] /\ deletes' \in [Calls -> Nat]
<1>1. Absent \in Page
  BY DEF Page
<1>2. pages' = [pages EXCEPT ![req[c].name] = Absent]
  BY DEF CarryOutDelete
<1>3. pages' \in [Names -> Page]
  BY <1>1, <1>2 DEF TypeOK
<1>4. deletes' \in [Calls -> Nat]
  BY DEF CarryOutDelete, TypeOK
<1> QED BY <1>3, <1>4

(* No call has begun, so none can be out of its type.                      *)
LEMMA TypeInit == Init => TypeInv
BY WholePageAssumption
   DEF Init, TypeInv, TypeOK, Placed, Body, Tokens, NoToken, Outcomes

(* Every action keeps the types and leaves a call only where its tool      *)
(* leads.                                                                  *)
LEMMA TypeStep ==
    ASSUME TypeInv, [Next]_vars
    PROVE  TypeInv'
<1> USE DEF TypeInv, TypeOK, Placed, Moves, Tool
<1>1. ASSUME NEW c \in Calls, Start(c) PROVE TypeInv'
  <2>1. PICK r \in Requests :
           /\ r.tool # "create_page" /\ r.if_match = "seen" => pages[r.name] # Absent
           /\ req' = [req EXCEPT ![c] = r]
           /\ if_match' = [if_match EXCEPT ![c] = TokenFor(r)]
           /\ body' = IF r.tool \in {"write_page", "create_page"}
                      THEN [body EXCEPT ![c] = r.content] ELSE body
           /\ IF StartOutcome(r) = "none"
              THEN Goto(c, FirstStep(r)) ELSE Return(c, StartOutcome(r))
    BY <1>1 DEF Start
  <2>2. TokenFor(r) \in Tokens
    <3>1. CASE r.tool = "create_page"
      BY <3>1, FixedTokens DEF TokenFor
    <3>2. CASE r.tool # "create_page" /\ r.if_match = "seen"
      <4>1. pages[r.name] \in Body
        BY <2>1, <3>2, RequestType DEF Page
      <4> QED BY <3>2, <4>1, TokenType, ServerAssumption DEF TokenFor
    <3>3. CASE r.tool # "create_page" /\ r.if_match \in {"none", "star"}
      BY <3>3, FixedTokens DEF TokenFor
    <3> QED BY <3>1, <3>2, <3>3, RequestType DEF IfMatchArgs
  <2>3. StartOutcome(r) \in Outcomes
    BY DEF StartOutcome, Outcomes
  <2>4. /\ FirstStep(r) \in {"put", "delete", "read"}
        /\ FirstStep(r) = "read" => r.tool = "move_page"
        /\ FirstStep(r) = "put" => r.tool \in Writers
        /\ FirstStep(r) = "delete" => r.tool \in Removers
    BY RequestType DEF FirstStep, Writers, Removers
  <2>5. /\ pc' \in [Calls -> {"idle", "read", "put", "delete", "verify", "done"}]
        /\ outcome' \in [Calls -> Outcomes]
        /\ pc' = [pc EXCEPT ![c] = pc'[c]]
        /\ pc'[c] \in {FirstStep(r), "done"}
    BY <2>1, <2>3, <2>4 DEF Goto, Return
  <2>6. body' \in [Calls -> Body]
    BY <2>1, RequestType
  <2>7. /\ UNCHANGED <<pages, meta_etag, tries, in_flight, saves, puts, deletes>>
        /\ pc[c] = "idle"
    BY <1>1 DEF Start
  <2>8. TypeOK'
    BY <2>1, <2>2, <2>5, <2>6, <2>7
  <2>9. ASSUME NEW d \in Calls PROVE Placed(d)'
    BY <2>1, <2>4, <2>5, <2>7
  <2> QED BY <2>8, <2>9
<1>2. ASSUME NEW c \in Calls, Read(c) PROVE TypeInv'
  <2>1. ReadOutcome(c) \in Outcomes
    BY DEF ReadOutcome, Outcomes
  <2>2. CASE ReadOutcome(c) = "none"
    <3>1. pages[req[c].name] \in Body
      BY <1>2, <2>2, RequestType DEF Read, ReadOutcome, Page
    <3> QED BY <1>2, <2>2, <3>1 DEF Read, Goto, Writers
  <2>3. CASE ReadOutcome(c) # "none"
    BY <1>2, <2>1, <2>3 DEF Read, Return
  <2> QED BY <2>2, <2>3
<1>3. ASSUME NEW c \in Calls, ReadFails(c) PROVE TypeInv'
  BY <1>3 DEF ReadFails, Return, Unknowns, Outcomes
<1>4. ASSUME NEW c \in Calls, Put(c) PROVE TypeInv'
  <2>1. TokenOf(PutEtag, body[c]) \in Tokens
    BY TokenType, ServerAssumption
  <2>2. /\ pages' \in [Names -> Page]
        /\ puts' \in [Calls -> Nat]
    BY <1>4, StoreType DEF Put
  <2>3. AfterPut(c) \in {"delete", "verify", "done"} /\ (AfterPut(c) = "delete" => Moves(c))
    BY DEF AfterPut
  <2>4. /\ meta_etag' = [meta_etag EXCEPT ![c] = TokenOf(PutEtag, body[c])]
        /\ IF AfterPut(c) = "done" THEN Return(c, "ok") ELSE Goto(c, AfterPut(c))
        /\ UNCHANGED <<req, if_match, body, tries, in_flight, saves, deletes>>
        /\ pc[c] = "put"
    BY <1>4 DEF Put
  <2>5. CASE AfterPut(c) = "done"
    BY <2>1, <2>2, <2>4, <2>5 DEF Return, Outcomes
  <2>6. CASE AfterPut(c) # "done"
    BY <2>1, <2>2, <2>3, <2>4, <2>6 DEF Goto, Removers
  <2> QED BY <2>5, <2>6
<1>5. ASSUME NEW c \in Calls, PutRefused(c) PROVE TypeInv'
  <2>1. PutRefusal(c) \in Outcomes
    BY <1>5 DEF PutRefused, PutRefusal, Writers, Outcomes
  <2> QED BY <1>5, <2>1 DEF PutRefused, Return
<1>6. ASSUME NEW c \in Calls, Delete(c) PROVE TypeInv'
  <2>1. pages[req[c].name] \in Body
    BY <1>6, RequestType DEF Delete, DeleteAdmitted, Page
  <2>2. DeleteEtag(c) \in Tokens
    BY <2>1, TokenType, FixedTokens DEF DeleteEtag, TokenKinds
  <2>3. /\ pages' \in [Names -> Page]
        /\ deletes' \in [Calls -> Nat]
    BY <1>6, CarryOutType DEF Delete
  <2> QED BY <1>6, <2>2, <2>3 DEF Delete, Goto, Return, Outcomes
<1>7. ASSUME NEW c \in Calls, DeleteRefused(c) PROVE TypeInv'
  BY <1>7 DEF DeleteRefused, Return, Outcomes
<1>8. ASSUME NEW c \in Calls, RequestFails(c) PROVE TypeInv'
  <2>1. PICK answer \in FailureAnswers(c) : Return(c, answer)
    BY <1>8 DEF RequestFails
  <2>2. answer \in Outcomes
    BY DEF FailureAnswers, Unknowns, Outcomes
  <2> QED BY <1>8, <2>1, <2>2 DEF RequestFails, Return
<1>9. ASSUME NEW c \in Calls, AnswerLost(c) PROVE TypeInv'
  <2>1. PICK answer \in FailureAnswers(c) : Return(c, answer)
    BY <1>9 DEF AnswerLost
  <2>2. answer \in Outcomes
    BY DEF FailureAnswers, Unknowns, Outcomes
  <2>3. /\ pages' \in [Names -> Page]
        /\ puts' \in [Calls -> Nat]
        /\ deletes' \in [Calls -> Nat]
    BY <1>9, StoreType, CarryOutType DEF AnswerLost
  <2> QED BY <1>9, <2>1, <2>2, <2>3 DEF AnswerLost, Return
<1>10. ASSUME NEW c \in Calls, LatePut(c) PROVE TypeInv'
  BY <1>10, StoreType DEF LatePut
<1>11. ASSUME NEW c \in Calls, LateDelete(c) PROVE TypeInv'
  BY <1>11, CarryOutType DEF LateDelete
<1>12. ASSUME NEW c \in Calls, LateLoss(c) PROVE TypeInv'
  BY <1>12 DEF LateLoss
<1>13. ASSUME NEW c \in Calls, VerifyPasses(c) PROVE TypeInv'
  BY <1>13 DEF VerifyPasses, Return, Outcomes
<1>14. ASSUME NEW c \in Calls, VerifyFails(c) PROVE TypeInv'
  BY <1>14 DEF VerifyFails, Return, Unknowns, Outcomes
<1>15. ASSUME NEW c \in Calls, VerifyRaises(c) PROVE TypeInv'
  BY <1>15 DEF VerifyRaises, Repeats, Return, Goto, Outcomes
<1>16. CASE EditorSave
  BY <1>16, WholePageAssumption DEF EditorSave
<1>17. CASE UNCHANGED vars
  BY <1>17 DEF vars
<1> QED BY <1>1, <1>2, <1>3, <1>4, <1>5, <1>6, <1>7, <1>8, <1>9, <1>10, <1>11,
           <1>12, <1>13, <1>14, <1>15, <1>16, <1>17 DEF Next, Step, Late

(* Every variable keeps its kind of value; in particular no page is ever   *)
(* given a body that was not read, sent by a client or saved by a writer.  *)
THEOREM TypeCorrect == Spec => []TypeOK
<1>1. TypeInv /\ [Next]_vars => TypeInv'
  BY TypeStep
<1>2. TypeInv => TypeOK
  BY DEF TypeInv
<1> QED BY TypeInit, <1>1, <1>2, PTL DEF Spec

-------------------------------------------------------------------------------
(* On a server that enforces both preconditions, whatever a call removes,  *)
(* even after it timed out, its client named or waived; a move's PUT       *)
(* removes nothing (the If-Match and If-None-Match headers of every tool). *)
THEOREM NothingLostUnseen ==
    ASSUME HonorsIfMatch, HonorsIfNoneMatch
    PROVE  Spec => NothingDestroyedUnseen
<1>1. ASSUME TypeInv, [Next]_vars, NEW c \in Calls, NEW n \in Names,
             pages[n] # Absent, Removes(c, n)
      PROVE  Entitled(c, n)
  <2> USE DEF TypeInv, TypeOK
  <2>1. CASE puts'[c] # puts[c]
    <3>1. (Put(c) \/ AnswerLost(c) \/ LatePut(c)) /\ PutAdmitted(c) /\ StorePut(c) /\ UNCHANGED deletes
      BY <1>1, <2>1 DEF Next, Step, Late, Start, Read, ReadFails, Put, PutRefused,
         Delete, DeleteRefused, RequestFails, AnswerLost, StorePut, CarryOutDelete,
         LatePut, LateDelete, LateLoss, VerifyPasses, VerifyFails, VerifyRaises,
         EditorSave, vars
    <3>2. Target(c) = n
      BY <1>1, <3>1 DEF Removes
    <3>3. req[c].tool # "move_page" /\ IfMatchHolds(if_match[c], pages[n])
      BY <1>1, <3>1, <3>2 DEF PutAdmitted, PutIfMatch, SendsIfNoneMatch, IfNoneMatchHolds
    <3> QED BY <3>3 DEF IfMatchHolds, Entitled
  <2>2. CASE puts'[c] = puts[c]
    <3>1. deletes'[c] # deletes[c] /\ req[c].name = n
      BY <1>1, <2>2 DEF Removes
    <3>2. DeleteAdmitted(c)
      BY <1>1, <3>1 DEF Next, Step, Late, Start, Read, ReadFails, Put, PutRefused,
         Delete, DeleteRefused, RequestFails, AnswerLost, StorePut, CarryOutDelete,
         LatePut, LateDelete, LateLoss, VerifyPasses, VerifyFails, VerifyRaises,
         EditorSave, vars
    <3> QED BY <2>2, <3>1, <3>2 DEF DeleteAdmitted, IfMatchHolds, Entitled
  <2> QED BY <2>1, <2>2
<1>2. TypeInv /\ [Next]_vars => TypeInv'
  BY TypeStep
<1>3. TypeInv /\ [Next]_vars
        => [\A c \in Calls, n \in Names :
               pages[n] # Absent /\ Removes(c, n) => Entitled(c, n)]_vars
  BY <1>1
<1> QED BY TypeInit, <1>2, <1>3, PTL DEF Spec, NothingDestroyedUnseen
-------------------------------------------------------------------------------
(* A step that leaves a call's own state alone preserves what is known of it. *)
LEMMA CallFrame ==
    ASSUME NEW d \in Calls, CallInv(d),
           pc'[d] = pc[d], req'[d] = req[d], tries'[d] = tries[d],
           outcome'[d] = outcome[d], in_flight'[d] = in_flight[d],
           puts'[d] = puts[d], deletes'[d] = deletes[d]
    PROVE  CallInv(d)'
BY DEF CallInv, Idle, BeforePut, BeforeDelete, InPlace, Moves, Tool, Accounted, BudgetKept

(* Before any call the accounts are balanced.                              *)
LEMMA InvInit == Init => Inv
<1> SUFFICES ASSUME Init PROVE \A c \in Calls : CallInv(c)
  BY TypeInit DEF Inv
<1> QED BY DEF Init, CallInv, Idle, BeforePut, BeforeDelete, InPlace, Moves, Tool, Active,
           Accounted, BudgetKept, Unknowns, NoRequest

(* Every action keeps the accounts of every call balanced: a DELETE of a   *)
(* move follows the PUT of the same attempt, and a repetition starts from  *)
(* equal counts.                                                           *)
LEMMA InvStep ==
    ASSUME Inv, [Next]_vars
    PROVE  Inv'
<1> TypeInv /\ TypeInv'
  BY TypeStep DEF Inv
<1> SUFFICES ASSUME NEW d \in Calls PROVE CallInv(d)'
  BY DEF Inv
<1>0. CallInv(d)
  BY DEF Inv
<1> USE DEF TypeInv, TypeOK, Placed, Moves, Tool, InPlace, Active
<1>1. ASSUME NEW c \in Calls, Start(c) PROVE CallInv(d)'
  <2>1. CASE d = c
    <3>1. PICK r \in Requests :
             /\ req'[c] = r
             /\ IF StartOutcome(r) = "none"
                THEN Goto(c, FirstStep(r)) ELSE Return(c, StartOutcome(r))
      BY <1>1 DEF Start
    <3>2. Idle(c)
      BY <1>0, <1>1, <2>1 DEF CallInv, Start
    <3>3. UNCHANGED <<tries, puts, deletes, in_flight>>
      BY <1>1 DEF Start
    <3>4. /\ StartOutcome(r) \in {"none", "invalid", "assertion"}
          /\ StartOutcome(r) = "none" /\ r.tool = "move_page" /\ r.name # r.new_name
                => r.max_retries >= 0
      BY RequestType DEF StartOutcome
    <3>5. /\ FirstStep(r) \in {"read", "put", "delete"}
          /\ r.tool = "move_page" => FirstStep(r) = "read"
          /\ FirstStep(r) = "read" => r.tool = "move_page"
          /\ FirstStep(r) = "delete" => r.tool = "delete_page"
      BY RequestType DEF FirstStep
    <3>6. CASE StartOutcome(r) = "none"
      <4>1. /\ req'[d] = r
            /\ pc'[d] = FirstStep(r)
            /\ outcome'[d] = "none"
            /\ in_flight'[d] = "none"
            /\ tries'[d] = 0 /\ puts'[d] = 0 /\ deletes'[d] = 0
        BY <2>1, <3>1, <3>2, <3>3, <3>6 DEF Goto, Idle
      <4> USE DEF CallInv, BeforePut, BeforeDelete, Accounted, BudgetKept, Unknowns
      <4>2. CASE r.tool = "move_page"
        BY <3>4, <3>5, <3>6, <4>1, <4>2, RequestType
      <4>3. CASE r.tool # "move_page"
        BY <3>5, <4>1, <4>3
      <4> QED BY <4>2, <4>3
    <3>7. CASE StartOutcome(r) # "none"
      BY <2>1, <3>1, <3>2, <3>3, <3>4, <3>7
         DEF Return, Idle, CallInv, BeforePut, BeforeDelete, Accounted, BudgetKept,
           Unknowns
    <3> QED BY <3>6, <3>7
  <2>2. CASE d # c
    BY <1>0, <1>1, <2>2, CallFrame DEF Start, Goto, Return
  <2> QED BY <2>1, <2>2
<1>2. ASSUME NEW c \in Calls, Read(c) PROVE CallInv(d)'
  <2>1. CASE d = c
    BY <1>0, <1>2, <2>1, RequestType
       DEF Read, ReadOutcome, Goto, Return, CallInv, BeforePut, BeforeDelete,
           Accounted, BudgetKept, Unknowns, Writers, Removers
  <2>2. CASE d # c
    BY <1>0, <1>2, <2>2, CallFrame DEF Read, Goto, Return
  <2> QED BY <2>1, <2>2
<1>3. ASSUME NEW c \in Calls, ReadFails(c) PROVE CallInv(d)'
  <2>1. CASE d = c
    BY <1>0, <1>3, <2>1, RequestType
       DEF ReadFails, Return, CallInv, BeforePut, BeforeDelete, Accounted, BudgetKept,
           Unknowns, Writers, Removers
  <2>2. CASE d # c
    BY <1>0, <1>3, <2>2, CallFrame DEF ReadFails, Return
  <2> QED BY <2>1, <2>2
<1>4. ASSUME NEW c \in Calls, Put(c) PROVE CallInv(d)'
  <2>1. CASE d = c
    BY <1>0, <1>4, <2>1, RequestType
       DEF Put, StorePut, AfterPut, Goto, Return, CallInv, BeforePut, BeforeDelete,
           Accounted, BudgetKept, Unknowns, Writers, Removers
  <2>2. CASE d # c
    BY <1>0, <1>4, <2>2, CallFrame DEF Put, StorePut, Goto, Return
  <2> QED BY <2>1, <2>2
<1>5. ASSUME NEW c \in Calls, PutRefused(c) PROVE CallInv(d)'
  <2>1. CASE d = c
    BY <1>0, <1>5, <2>1, RequestType
       DEF PutRefused, PutRefusal, Return, CallInv, BeforePut, BeforeDelete,
           Accounted, BudgetKept, Unknowns, Writers, Removers
  <2>2. CASE d # c
    BY <1>0, <1>5, <2>2, CallFrame DEF PutRefused, Return
  <2> QED BY <2>1, <2>2
<1>6. ASSUME NEW c \in Calls, Delete(c) PROVE CallInv(d)'
  <2>1. CASE d = c
    BY <1>0, <1>6, <2>1, RequestType
       DEF Delete, CarryOutDelete, Goto, Return, CallInv, BeforePut, BeforeDelete,
           Accounted, BudgetKept, Unknowns, Writers, Removers
  <2>2. CASE d # c
    BY <1>0, <1>6, <2>2, CallFrame DEF Delete, CarryOutDelete, Goto, Return
  <2> QED BY <2>1, <2>2
<1>7. ASSUME NEW c \in Calls, DeleteRefused(c) PROVE CallInv(d)'
  <2>1. CASE d = c
    BY <1>0, <1>7, <2>1, RequestType
       DEF DeleteRefused, Return, CallInv, BeforePut, BeforeDelete, Accounted,
           BudgetKept, Unknowns, Writers, Removers
  <2>2. CASE d # c
    BY <1>0, <1>7, <2>2, CallFrame DEF DeleteRefused, Return
  <2> QED BY <2>1, <2>2
<1>8. ASSUME NEW c \in Calls, RequestFails(c) PROVE CallInv(d)'
  <2>1. CASE d = c
    BY <1>0, <1>8, <2>1, RequestType
       DEF RequestFails, FailureAnswers, Return, CallInv, BeforePut, BeforeDelete,
           Accounted, BudgetKept, Unknowns, Writers, Removers
  <2>2. CASE d # c
    BY <1>0, <1>8, <2>2, CallFrame DEF RequestFails, Return
  <2> QED BY <2>1, <2>2
<1>9. ASSUME NEW c \in Calls, AnswerLost(c) PROVE CallInv(d)'
  <2>1. CASE d = c
    BY <1>0, <1>9, <2>1, RequestType
       DEF AnswerLost, FailureAnswers, StorePut, CarryOutDelete, Return, CallInv,
           BeforePut, BeforeDelete, Accounted, BudgetKept, Unknowns, Writers, Removers
  <2>2. CASE d # c
    BY <1>0, <1>9, <2>2, CallFrame DEF AnswerLost, StorePut, CarryOutDelete, Return
  <2> QED BY <2>1, <2>2
<1>10. ASSUME NEW c \in Calls, LatePut(c) PROVE CallInv(d)'
  <2>1. CASE d = c
    BY <1>0, <1>10, <2>1, RequestType
       DEF LatePut, StorePut, CallInv, BeforePut, BeforeDelete, Accounted, BudgetKept,
           Unknowns, Writers, Removers
  <2>2. CASE d # c
    BY <1>0, <1>10, <2>2, CallFrame DEF LatePut, StorePut
  <2> QED BY <2>1, <2>2
<1>11. ASSUME NEW c \in Calls, LateDelete(c) PROVE CallInv(d)'
  <2>1. CASE d = c
    BY <1>0, <1>11, <2>1, RequestType
       DEF LateDelete, CarryOutDelete, CallInv, BeforePut, BeforeDelete, Accounted,
           BudgetKept, Unknowns, Writers, Removers
  <2>2. CASE d # c
    BY <1>0, <1>11, <2>2, CallFrame DEF LateDelete, CarryOutDelete
  <2> QED BY <2>1, <2>2
<1>12. ASSUME NEW c \in Calls, LateLoss(c) PROVE CallInv(d)'
  <2>1. CASE d = c
    BY <1>0, <1>12, <2>1, RequestType
       DEF LateLoss, CallInv, BeforePut, BeforeDelete, Accounted, BudgetKept,
           Unknowns, Writers, Removers
  <2>2. CASE d # c
    BY <1>0, <1>12, <2>2, CallFrame DEF LateLoss, vars
  <2> QED BY <2>1, <2>2
<1>13. ASSUME NEW c \in Calls, VerifyPasses(c) PROVE CallInv(d)'
  <2>1. CASE d = c
    BY <1>0, <1>13, <2>1, RequestType
       DEF VerifyPasses, Return, CallInv, BeforePut, BeforeDelete, Accounted,
           BudgetKept, Unknowns, Writers, Removers
  <2>2. CASE d # c
    BY <1>0, <1>13, <2>2, CallFrame DEF VerifyPasses, Return
  <2> QED BY <2>1, <2>2
<1>14. ASSUME NEW c \in Calls, VerifyFails(c) PROVE CallInv(d)'
  <2>1. CASE d = c
    BY <1>0, <1>14, <2>1, RequestType
       DEF VerifyFails, Return, CallInv, BeforePut, BeforeDelete, Accounted,
           BudgetKept, Unknowns, Writers, Removers
  <2>2. CASE d # c
    BY <1>0, <1>14, <2>2, CallFrame DEF VerifyFails, Return
  <2> QED BY <2>1, <2>2
<1>15. ASSUME NEW c \in Calls, VerifyRaises(c) PROVE CallInv(d)'
  <2>1. CASE d = c
    BY <1>0, <1>15, <2>1, RequestType
       DEF VerifyRaises, Repeats, Goto, Return, CallInv, BeforePut, BeforeDelete,
           Accounted, BudgetKept, Unknowns, Writers, Removers
  <2>2. CASE d # c
    BY <1>0, <1>15, <2>2, CallFrame DEF VerifyRaises, Goto, Return
  <2> QED BY <2>1, <2>2
<1>16. CASE EditorSave
  BY <1>0, <1>16, CallFrame DEF EditorSave
<1>17. CASE UNCHANGED vars
  BY <1>0, <1>17, CallFrame DEF vars
<1> QED BY <1>1, <1>2, <1>3, <1>4, <1>5, <1>6, <1>7, <1>8, <1>9, <1>10, <1>11,
           <1>12, <1>13, <1>14, <1>15, <1>16, <1>17 DEF Next, Step, Late

(* Through retries, partial moves, lost responses and late processing, the *)
(* number of PUTs and DELETEs a call has got carried out is the number its *)
(* answers account for.                                                    *)
THEOREM EffectsAccounted == Spec => []AnswersAccountForEffects
<1>1. Inv /\ [Next]_vars => Inv'
  BY InvStep
<1>2. Inv => AnswersAccountForEffects
  BY DEF Inv, CallInv, AnswersAccountForEffects
<1> QED BY InvInit, <1>1, <1>2, PTL DEF Spec
-------------------------------------------------------------------------------
(***************************************************************************)
(* The calls implement AtomicPages on a server that enforces both          *)
(* preconditions and answers with the hash of the body.                    *)
(***************************************************************************)
Enforced == HonorsIfMatch /\ HonorsIfNoneMatch /\ PutEtag = "hash" /\ GetEtag = "hash"

(* A writer sends the body its client gave it, and what write_page         *)
(* verifies against is the token of that body; create_page does not.       *)
Sent(c) ==
    /\ pc[c] # "idle" /\ Tool(c) \in {"write_page", "create_page"}
          => body[c] = req[c].content
    /\ pc[c] # "idle" /\ Tool(c) = "create_page" => if_match[c] = Star
    /\ pc[c] = "verify" => Verifies(c)
    /\ pc[c] = "verify" /\ Tool(c) = "write_page"
          => meta_etag[c] = TokenOf(PutEtag, body[c])

SentInv == \A c \in Calls : Sent(c)

(* A request is never the record that stands for the lack of one.          *)
LEMMA RequestIsNotNone ==
    ASSUME NEW r \in Requests
    PROVE  r # NoRequest
<1>1. r.tool # "none"
  BY RequestType
<1> QED BY <1>1 DEF NoRequest

(* What a call sends is settled when it starts.                            *)
LEMMA SentStep ==
    ASSUME Inv, SentInv, [Next]_vars
    PROVE  SentInv'
<1> SUFFICES ASSUME NEW d \in Calls PROVE Sent(d)'
  BY DEF SentInv
<1>0. Sent(d)
  BY DEF SentInv
<1> USE DEF Inv, TypeInv, TypeOK, Placed, Moves, Tool, Verifies
<1>1. ASSUME NEW c \in Calls, Start(c) PROVE Sent(d)'
  <2>1. CASE d = c
    <3>1. PICK r \in Requests :
             /\ req' = [req EXCEPT ![c] = r]
             /\ if_match' = [if_match EXCEPT ![c] = TokenFor(r)]
             /\ body' = IF r.tool \in {"write_page", "create_page"}
                        THEN [body EXCEPT ![c] = r.content] ELSE body
             /\ IF StartOutcome(r) = "none"
                THEN Goto(c, FirstStep(r)) ELSE Return(c, StartOutcome(r))
      BY <1>1 DEF Start
    <3>2. pc'[c] # "verify"
      BY <3>1, RequestType DEF Goto, Return, FirstStep
    <3>3. r.tool = "create_page" => TokenFor(r) = Star
      BY DEF TokenFor
    <3> QED BY <2>1, <3>1, <3>2, <3>3 DEF Sent
  <2>2. CASE d # c
    BY <1>0, <1>1, <2>2 DEF Start, Goto, Return, Sent
  <2> QED BY <2>1, <2>2
<1>2. ASSUME NEW c \in Calls, Read(c) PROVE Sent(d)'
  BY <1>0, <1>2 DEF Read, Goto, Return, Sent
<1>3. ASSUME NEW c \in Calls, Put(c) PROVE Sent(d)'
  BY <1>0, <1>3 DEF Put, AfterPut, Goto, Return, Sent
<1>4. ASSUME NEW c \in Calls, Delete(c) PROVE Sent(d)'
  BY <1>0, <1>4 DEF Delete, Removers, Goto, Return, Sent
<1>5. ASSUME NEW c \in Calls,
             ReadFails(c) \/ PutRefused(c) \/ DeleteRefused(c) \/ RequestFails(c)
                \/ AnswerLost(c) \/ VerifyPasses(c) \/ VerifyFails(c)
      PROVE  Sent(d)'
  BY <1>0, <1>5 DEF ReadFails, PutRefused, DeleteRefused, RequestFails, AnswerLost,
     VerifyPasses, VerifyFails, Return, Sent
<1>6. ASSUME NEW c \in Calls, VerifyRaises(c) PROVE Sent(d)'
  BY <1>0, <1>6 DEF VerifyRaises, Repeats, Goto, Return, Sent
<1>7. CASE UNCHANGED <<pc, req, if_match, body, meta_etag>>
  BY <1>0, <1>7 DEF Sent
<1> QED BY <1>1, <1>2, <1>3, <1>4, <1>5, <1>6, <1>7
        DEF Next, Step, Late, LatePut, LateDelete, LateLoss, EditorSave, vars

(* Both specifications mean the same by a page the client named.           *)
LEMMA NamedIsIfMatch ==
    ASSUME Enforced, NEW c \in Calls
    PROVE  Promise!AsNamed(c) <=> IfMatchHolds(if_match[c], pages[req[c].name])
BY DEF Enforced, Promise!AsNamed, IfMatchHolds, TokenOf, NoToken, Star

(* A step of one call changes what that call carries and nothing else's.   *)
LEMMA CarriedFrame ==
    ASSUME NEW c \in Calls,
           \A d \in Calls \ {c} : /\ pc'[d] = pc[d] /\ req'[d] = req[d]
                                  /\ body'[d] = body[d] /\ in_flight'[d] = in_flight[d]
    PROVE  Carried' = [Carried EXCEPT ![c] = Carried'[c]]
BY DEF Carried

(* A call that is under way, or has a request under way, is still open.    *)
LEMMA OpenCall ==
    ASSUME Inv, NEW c \in Calls, pc[c] \in Active \/ in_flight[c] # "none"
    PROVE  /\ Promise!Open(c)
           /\ pc[c] \in Active => outcome[c] = "none"
           /\ in_flight[c] # "none" => outcome[c] \in Promise!Unclear
           /\ req[c] \in Requests
<1> USE DEF Inv, TypeInv, TypeOK, Placed
<1>1. req[c] \in Requests /\ req[c] # NoRequest
  BY RequestIsNotNone DEF Active
<1>2. CASE pc[c] \in Active
  BY <1>1, <1>2 DEF CallInv, Active, Promise!Open
<1>3. CASE in_flight[c] # "none"
  BY <1>1, <1>3 DEF CallInv, Active, Unknowns, Promise!Open, Promise!Unclear
<1> QED BY <1>1, <1>2, <1>3

(* An answer given by a step that changes no page is told.                 *)
LEMMA ReturnIsTell ==
    ASSUME Inv, NEW c \in Calls, pc[c] \in Active,
           NEW answer \in Promise!Answers, Promise!Truthful(c, answer),
           Return(c, answer),
           UNCHANGED <<pages, req, if_match, body, puts, deletes>>,
           in_flight'[c] \in {in_flight[c], pc[c]},
           \A d \in Calls \ {c} : in_flight'[d] = in_flight[d]
    PROVE  Promise!Tell(c)
<1> USE DEF Inv, TypeInv, TypeOK
<1>1. outcome[c] = "none" /\ req[c] # NoRequest
  BY OpenCall DEF Promise!Open
<1>2. Carried' = [Carried EXCEPT ![c] = Carried'[c]]
  BY CarriedFrame DEF Return
<1>3. Carried'[c] \in {Carried[c], Absent}
  <2>1. in_flight[c] = "none" /\ pc'[c] = "done"
    BY DEF CallInv, Return
  <2>2. Carried[c] = IF req[c].tool = "move_page" /\ pc[c] = "put" THEN body[c] ELSE Absent
    BY <2>1 DEF Carried
  <2>3. Carried'[c] = IF req[c].tool = "move_page" /\ in_flight'[c] = "put"
                      THEN body[c] ELSE Absent
    BY <2>1 DEF Carried
  <2>4. CASE pc[c] = "put"
    BY <2>2, <2>3, <2>4
  <2>5. CASE pc[c] # "put"
    BY <2>1, <2>3, <2>5
  <2> QED BY <2>4, <2>5
<1>4. Promise!MayDrop(c)
  BY <1>2, <1>3 DEF Promise!MayDrop, Carried
<1> QED BY <1>1, <1>4 DEF Return, Promise!Tell

(* A PUT the server stores, at once or late, is the write of a writer or   *)
(* the second step of a move.                                              *)
LEMMA StoreIsWrite ==
    ASSUME Inv, SentInv, Enforced, NEW c \in Calls,
           pc[c] = "put" \/ in_flight[c] = "put",
           PutAdmitted(c), StorePut(c),
           pc'[c] # "put", in_flight'[c] # "put",
           \A d \in Calls \ {c} : pc'[d] = pc[d] /\ in_flight'[d] = in_flight[d],
           UNCHANGED <<req, if_match, body, deletes>>,
           Promise!MayTell(c, Promise!Unclear)
              \/ (~Moves(c) /\ Promise!MayTell(c, {"ok"} \cup Promise!Unclear))
    PROVE  Promise!PutOrWrite(c)
<1> USE DEF Inv, TypeInv, TypeOK, Placed
<1>1. Promise!Open(c) /\ req[c] \in Requests
  BY OpenCall DEF Active
<1>2. Carried' = [Carried EXCEPT ![c] = Absent]
  <2>1. Carried'[c] = Absent
    BY DEF Carried
  <2> QED BY <2>1, CarriedFrame
<1>3. CASE Moves(c)
  <2>1. Carried[c] = body[c] /\ body[c] # Absent
    BY <1>3, ServerAssumption DEF Carried, Moves, Tool
  <2>2. pages[req[c].new_name] = Absent
    BY <1>3 DEF PutAdmitted, SendsIfNoneMatch, IfNoneMatchHolds, Target, Enforced, Moves, Tool
  <2>3. pages' = [pages EXCEPT ![req[c].new_name] = Carried[c]]
    BY <1>3, <2>1 DEF StorePut, Target, Moves, Tool
  <2>4. Promise!Put(c)
    BY <1>1, <1>2, <1>3, <2>1, <2>2, <2>3 DEF Promise!Put, Promise!Moves, Moves, Tool
  <2> QED BY <2>4 DEF Promise!PutOrWrite, StorePut
<1>4. CASE ~Moves(c)
  <2>1. Tool(c) \in {"write_page", "create_page"}
    BY <1>4 DEF Writers, Moves
  <2>2. body[c] = req[c].content
    BY <2>1 DEF SentInv, Sent
  <2>3. puts[c] = 0
    BY <2>1 DEF CallInv, BeforePut, BudgetKept, Active, Unknowns, Tool
  <2>4. Promise!AsNamed(c)
    BY <2>1, NamedIsIfMatch DEF PutAdmitted, PutIfMatch, Target, Tool
  <2>5. pages' = [pages EXCEPT ![req[c].name] = req[c].content]
    BY <2>1, <2>2 DEF StorePut, Target, Tool
  <2>6. UNCHANGED Carried
    BY <1>2, <1>4 DEF Carried, Moves, Tool
  <2>7. Promise!MayTell(c, {"ok"} \cup Promise!Unclear)
    BY DEF Promise!MayTell
  <2>8. Promise!Write(c)
    BY <1>1, <2>1, <2>3, <2>4, <2>5, <2>6, <2>7 DEF Promise!Write, Promise!Writes, Tool
  <2> QED BY <2>8 DEF Promise!PutOrWrite, StorePut
<1> QED BY <1>3, <1>4

(* A DELETE the server carries out, at once or late, is a removal.         *)
LEMMA CarryOutIsRemove ==
    ASSUME Inv, Enforced, NEW c \in Calls,
           pc[c] = "delete" \/ in_flight[c] = "delete",
           DeleteAdmitted(c), CarryOutDelete(c),
           pc'[c] # "put", in_flight'[c] # "put",
           \A d \in Calls \ {c} : pc'[d] = pc[d] /\ in_flight'[d] = in_flight[d],
           UNCHANGED <<req, if_match, body, puts>>,
           Promise!MayTell(c, {"ok"} \cup Promise!Unclear)
    PROVE  Promise!Remove(c)
<1> USE DEF Inv, TypeInv, TypeOK, Placed
<1>1. Promise!Open(c)
  BY OpenCall DEF Active
<1>2. Carried[c] = Absent /\ Carried'[c] = Absent
  BY DEF Carried, CallInv, Active
<1>3. UNCHANGED Carried
  BY <1>2, CarriedFrame DEF Carried
<1>4. pages[req[c].name] # Absent /\ Promise!AsNamed(c)
  BY NamedIsIfMatch DEF DeleteAdmitted
<1>5. \/ Promise!Moves(c) /\ puts[c] = deletes[c] + 1
      \/ req[c].tool = "delete_page" /\ deletes[c] = 0
  BY DEF CallInv, BeforeDelete, BudgetKept, Removers, Unknowns, Active, Tool, Moves,
     Promise!Moves
<1> QED BY <1>1, <1>3, <1>4, <1>5 DEF CarryOutDelete, Promise!Remove

(* A call that verifies has done all of its attempts, the current included. *)
LEMMA AllDoneAtVerify ==
    ASSUME Inv, NEW c \in Calls, pc[c] = "verify"
    PROVE  Promise!AllDone(c, tries[c] + 1)
<1>1. req[c] \in Requests
  BY DEF Inv, TypeInv, Placed
<1>2. /\ Accounted(c) /\ outcome[c] = "none"
      /\ ~InPlace(c) /\ (~Moves(c) => tries[c] = 0)
  BY DEF Inv, CallInv, Active
<1>3. /\ puts[c] = IF Tool(c) \in Writers THEN tries[c] + 1 ELSE 0
      /\ deletes[c] = IF Tool(c) \in Removers THEN tries[c] + 1 ELSE 0
  BY <1>2 DEF Accounted, Unknowns, InPlace, Moves, Tool, Writers, Removers
<1>4. CASE Moves(c)
  BY <1>3, <1>4
     DEF Promise!AllDone, Promise!Moves, Promise!Writes, Writers, Removers, Moves, Tool
<1>5. CASE ~Moves(c)
  BY <1>1, <1>2, <1>3, <1>5, RequestType
     DEF Promise!AllDone, Promise!Moves, Promise!Writes, Writers, Removers, Moves, Tool
<1> QED BY <1>4, <1>5

(* A step that changes neither pages, counters nor answers, and nothing of *)
(* what a call carries, is none of the promise's business.                 *)
LEMMA CarriedUnchanged ==
    ASSUME UNCHANGED <<req, body>>,
           \A d \in Calls : pc'[d] = pc[d] /\ in_flight'[d] = in_flight[d]
    PROVE  UNCHANGED Carried
BY DEF Carried

(* The calls do what AtomicPages describes: every write and removal is of  *)
(* the page the client named, a move copies what it saw since its last     *)
(* attempt, no effect follows a clear answer and every answer is true when *)
(* it is given, with any number of calls, names, outside writers, lost     *)
(* answers and late requests.                                              *)
THEOREM EffectsImplementPromise ==
    ASSUME Enforced
    PROVE  Spec => EffectsAreAtomic
<1>1. Init => Promise!Init
  <2>1. Init => Carried = [c \in Calls |-> Absent]
    BY DEF Init, Carried, NoRequest
  <2> QED BY <2>1 DEF Init, Promise!Init, NoToken
<1>2. Init => SentInv
  BY DEF Init, SentInv, Sent
<1>3. ASSUME Inv, SentInv, [Next]_vars
      PROVE  Promise!Next \/ UNCHANGED <<pages, req, if_match, Carried, puts, deletes, outcome>>
  <2> USE <1>3 DEF Inv, TypeInv, TypeOK, Placed
  <2> DEFINE Goal == Promise!Next
                     \/ UNCHANGED <<pages, req, if_match, Carried, puts, deletes, outcome>>
  <2>1. ASSUME NEW c \in Calls, Start(c) PROVE Goal
    <3>1. PICK r \in Requests :
             /\ req' = [req EXCEPT ![c] = r]
             /\ if_match' = [if_match EXCEPT ![c] = TokenFor(r)]
             /\ body' = IF r.tool \in {"write_page", "create_page"}
                        THEN [body EXCEPT ![c] = r.content] ELSE body
             /\ IF StartOutcome(r) = "none"
                THEN Goto(c, FirstStep(r)) ELSE Return(c, StartOutcome(r))
      BY <2>1 DEF Start
    <3>2. /\ req[c] = NoRequest /\ outcome[c] = "none" /\ in_flight[c] = "none"
          /\ UNCHANGED <<pages, puts, deletes, in_flight>>
      BY <2>1 DEF Start, CallInv, Idle
    <3>3. outcome' = [outcome EXCEPT ![c] = StartOutcome(r)]
      <4>1. CASE StartOutcome(r) = "none"
        BY <3>1, <3>2, <4>1 DEF Goto
      <4>2. CASE StartOutcome(r) # "none"
        BY <3>1, <4>2 DEF Return
      <4> QED BY <4>1, <4>2
    <3>4. TokenFor(r) = Promise!Naming(r)
      BY RequestType DEF TokenFor, Promise!Naming, TokenOf, NoToken, Star, IfMatchArgs, Enforced
    <3>5. UNCHANGED Carried
      <4>1. Carried[c] = Absent
        BY <3>2 DEF Carried, NoRequest
      <4>2. r.tool = "move_page" => pc'[c] # "put"
        BY <3>1 DEF FirstStep, Goto, Return
      <4>3. Carried'[c] = Absent
        BY <3>1, <3>2, <4>2 DEF Carried
      <4>4. \A d \in Calls \ {c} : /\ pc'[d] = pc[d] /\ req'[d] = req[d]
                                   /\ body'[d] = body[d] /\ in_flight'[d] = in_flight[d]
        BY <3>1, <3>2 DEF Goto, Return
      <4> QED BY <4>1, <4>3, <4>4, CarriedFrame DEF Carried
    <3>6. StartOutcome(r) \in {"none", "invalid", "assertion"}
      BY DEF StartOutcome
    <3>7. Promise!Ask(c)
      BY <3>1, <3>2, <3>3, <3>4, <3>5, <3>6 DEF Promise!Ask
    <3> QED BY <3>7 DEF Promise!Next
  <2>2. ASSUME NEW c \in Calls, Read(c) PROVE Goal
    <3>1. Promise!Open(c) /\ outcome[c] = "none" /\ req[c] \in Requests
      BY <2>2, OpenCall DEF Read, Active
    <3>2. Moves(c) /\ BeforePut(c) /\ in_flight[c] = "none" /\ pc[c] = "read"
      BY <2>2 DEF Read, CallInv, Active
    <3>3. CASE ReadOutcome(c) = "none"
      <4>1. body' = [body EXCEPT ![c] = pages[req[c].name]] /\ pc' = [pc EXCEPT ![c] = "put"]
        BY <2>2, <3>3 DEF Read, Goto
      <4>2. pages[req[c].name] # Absent /\ ~InPlace(c)
        BY <3>3 DEF ReadOutcome, InPlace
      <4>3. UNCHANGED <<pages, req, if_match, in_flight, puts, deletes, outcome>>
        BY <2>2, <3>3 DEF Read, Goto
      <4>4. Carried'[c] = pages[req[c].name]
        BY <3>2, <4>1, <4>3 DEF Carried, Moves, Tool
      <4>5. Carried' = [Carried EXCEPT ![c] = pages[req[c].name]]
        BY <4>1, <4>3, <4>4, CarriedFrame
      <4>6. tries[c] <= req[c].max_retries
        BY <3>2, <4>2 DEF CallInv, Active
      <4>7. puts[c] = deletes[c] /\ puts[c] < Promise!Attempts(c)
        BY <3>1, <3>2, <4>6, RequestType
           DEF BeforePut, Promise!Attempts, Promise!Moves, Moves, Tool
      <4>8. Promise!Look(c)
        BY <3>1, <3>2, <4>2, <4>3, <4>5, <4>7 DEF Promise!Look, Promise!Moves, Moves, Tool
      <4> QED BY <4>8 DEF Promise!Next
    <3>4. CASE ReadOutcome(c) # "none"
      <4>1. /\ ReadOutcome(c) \in Promise!Answers
            /\ Promise!Truthful(c, ReadOutcome(c))
        BY <3>2, <3>4
           DEF ReadOutcome, Promise!Answers, Promise!Truthful, BeforePut, Promise!Moves,
               Promise!Writes, Moves, Tool
      <4>2. Promise!Tell(c)
        BY <2>2, <3>4, <4>1, ReturnIsTell DEF Read, Active
      <4> QED BY <4>2 DEF Promise!Next
    <3> QED BY <3>3, <3>4
  <2>3. ASSUME NEW c \in Calls, ReadFails(c) \/ VerifyFails(c) PROVE Goal
    <3>1. PICK answer \in Unknowns : Return(c, answer)
      BY <2>3 DEF ReadFails, VerifyFails, Unknowns
    <3>2. answer \in Promise!Answers /\ Promise!Truthful(c, answer)
      BY DEF Unknowns, Promise!Answers, Promise!Unclear, Promise!Truthful
    <3>3. Promise!Tell(c)
      BY <2>3, <3>1, <3>2, ReturnIsTell DEF ReadFails, VerifyFails, Active
    <3> QED BY <3>3 DEF Promise!Next
  <2>4. ASSUME NEW c \in Calls, Put(c) PROVE Goal
    <3>1. outcome[c] = "none" /\ in_flight[c] = "none"
      BY <2>4 DEF Put, CallInv, Active
    <3>2. \/ UNCHANGED outcome
          \/ ~Moves(c) /\ outcome' = [outcome EXCEPT ![c] = "ok"]
      BY <2>4 DEF Put, AfterPut, Return, Goto, Moves, Tool
    <3>3. \/ Promise!MayTell(c, Promise!Unclear)
          \/ ~Moves(c) /\ Promise!MayTell(c, {"ok"} \cup Promise!Unclear)
      BY <3>1, <3>2 DEF Promise!MayTell
    <3>4. pc'[c] # "put" /\ UNCHANGED in_flight /\ \A d \in Calls \ {c} : pc'[d] = pc[d]
      BY <2>4 DEF Put, AfterPut, Return, Goto
    <3>5. Promise!PutOrWrite(c)
      BY <2>4, <3>1, <3>3, <3>4, StoreIsWrite DEF Put
    <3> QED BY <3>5 DEF Promise!Next
  <2>5. ASSUME NEW c \in Calls, PutRefused(c) PROVE Goal
    <3>1. Tool(c) \in Writers /\ BeforePut(c) /\ ~PutAdmitted(c) /\ pc[c] = "put"
      BY <2>5 DEF PutRefused, CallInv
    <3>2. CASE Moves(c)
      <4>1. pages[req[c].new_name] # Absent
        BY <3>1, <3>2 DEF PutAdmitted, PutIfMatch, IfMatchHolds, IfNoneMatchHolds, Target,
           Moves, Tool
      <4>2. /\ PutRefusal(c) \in Promise!Answers
            /\ Promise!Truthful(c, PutRefusal(c))
        BY <3>1, <3>2, <4>1
           DEF PutRefusal, Promise!Answers, Promise!Truthful, Promise!Moves, BeforePut,
               Moves, Tool
      <4>3. Promise!Tell(c)
        BY <2>5, <4>2, ReturnIsTell DEF PutRefused, Active
      <4> QED BY <4>3 DEF Promise!Next
    <3>3. CASE ~Moves(c)
      <4>1. tries[c] = 0
        BY <3>1, <3>3 DEF CallInv, Active
      <4>2. ~Promise!AsNamed(c)
        BY <3>1, <3>3, NamedIsIfMatch
           DEF PutAdmitted, PutIfMatch, SendsIfNoneMatch, Target, Moves, Tool
      <4>3. /\ PutRefusal(c) \in {"precondition", "page_exists"}
            /\ Promise!Truthful(c, PutRefusal(c))
        BY <3>1, <3>3, <4>1, <4>2
           DEF PutRefusal, Promise!Truthful, Promise!Moves, BeforePut, Writers, Moves, Tool
      <4>4. Promise!Tell(c)
        BY <2>5, <4>3, ReturnIsTell DEF PutRefused, Active, Promise!Answers
      <4> QED BY <4>4 DEF Promise!Next
    <3> QED BY <3>2, <3>3
  <2>6. ASSUME NEW c \in Calls, Delete(c) PROVE Goal
    <3>1. outcome[c] = "none" /\ in_flight[c] = "none"
      BY <2>6 DEF Delete, CallInv, Active
    <3>2. Promise!MayTell(c, {"ok"} \cup Promise!Unclear)
      BY <2>6, <3>1 DEF Delete, Return, Goto, Promise!MayTell
    <3>3. pc'[c] # "put" /\ UNCHANGED in_flight /\ \A d \in Calls \ {c} : pc'[d] = pc[d]
      BY <2>6 DEF Delete, Return, Goto
    <3>4. Promise!Remove(c)
      BY <2>6, <3>1, <3>2, <3>3, CarryOutIsRemove DEF Delete
    <3> QED BY <3>4 DEF Promise!Next
  <2>7. ASSUME NEW c \in Calls, DeleteRefused(c) PROVE Goal
    <3>1. /\ pc[c] = "delete" /\ BeforeDelete(c) /\ Tool(c) \in Removers
          /\ ~Moves(c) => tries[c] = 0
      BY <2>7 DEF DeleteRefused, CallInv, Active
    <3>2. PICK answer \in {"source_gone", "not_found", "both_exist", "precondition"} :
             /\ Return(c, answer)
             /\ answer \in {"source_gone", "both_exist"} <=> Moves(c)
             /\ answer \in {"source_gone", "not_found"} => pages[req[c].name] = Absent
             /\ answer = "precondition" => ~Promise!AsNamed(c)
      BY <2>7, NamedIsIfMatch DEF DeleteRefused, Moves, Tool
    <3>3. Promise!Truthful(c, answer)
      BY <3>1, <3>2
         DEF Promise!Truthful, Promise!Moves, Promise!Writes, BeforeDelete, Removers, Moves,
             Tool
    <3>4. Promise!Tell(c)
      BY <2>7, <3>2, <3>3, ReturnIsTell
         DEF DeleteRefused, Active, Promise!Answers, Promise!Unclear
    <3> QED BY <3>4 DEF Promise!Next
  <2>8. ASSUME NEW c \in Calls, RequestFails(c) PROVE Goal
    <3>1. pc[c] \in {"put", "delete"} /\ in_flight' = [in_flight EXCEPT ![c] = pc[c]]
      BY <2>8 DEF RequestFails
    <3>2. PICK answer \in FailureAnswers(c) : Return(c, answer)
      BY <2>8 DEF RequestFails
    <3>3. answer = "both_exist" => Moves(c) /\ puts[c] = deletes[c] + 1
      BY <3>1, <3>2 DEF FailureAnswers, Unknowns, CallInv, BeforeDelete, Moves, Tool
    <3>4. answer \in Promise!Unclear
      BY DEF FailureAnswers, Unknowns, Promise!Unclear
    <3>5. answer \in Promise!Answers /\ Promise!Truthful(c, answer)
      BY <3>3, <3>4
         DEF Promise!Answers, Promise!Unclear, Promise!Truthful, Promise!Moves, Moves, Tool
    <3>6. Promise!Tell(c)
      BY <2>8, <3>1, <3>2, <3>5, ReturnIsTell DEF RequestFails, Active
    <3> QED BY <3>6 DEF Promise!Next
  <2>9. ASSUME NEW c \in Calls, AnswerLost(c) PROVE Goal
    <3>1. PICK answer \in FailureAnswers(c) : Return(c, answer)
      BY <2>9 DEF AnswerLost
    <3>2. answer \in Promise!Unclear
      BY DEF FailureAnswers, Unknowns, Promise!Unclear
    <3>3. pc[c] \in {"put", "delete"} /\ in_flight[c] = "none" /\ outcome[c] = "none"
      BY <2>9 DEF AnswerLost, CallInv, Active
    <3>4. pc' = [pc EXCEPT ![c] = "done"] /\ outcome' = [outcome EXCEPT ![c] = answer]
      BY <3>1 DEF Return
    <3>5. /\ Promise!MayTell(c, Promise!Unclear)
          /\ Promise!MayTell(c, {"ok"} \cup Promise!Unclear)
      BY <3>2, <3>3, <3>4 DEF Promise!MayTell
    <3>6. CASE pc[c] = "put"
      <4>1. Promise!PutOrWrite(c)
        BY <2>9, <3>3, <3>4, <3>5, <3>6, StoreIsWrite DEF AnswerLost
      <4> QED BY <4>1 DEF Promise!Next
    <3>7. CASE pc[c] = "delete"
      <4>1. Promise!Remove(c)
        BY <2>9, <3>3, <3>4, <3>5, <3>7, CarryOutIsRemove DEF AnswerLost
      <4> QED BY <4>1 DEF Promise!Next
    <3> QED BY <3>3, <3>6, <3>7
  <2>10. ASSUME NEW c \in Calls, LatePut(c) PROVE Goal
    <3>1. pc[c] = "done"
      BY <2>10 DEF LatePut
    <3>2. Promise!PutOrWrite(c)
      BY <2>10, <3>1, StoreIsWrite DEF LatePut, Promise!MayTell
    <3> QED BY <3>2 DEF Promise!Next
  <2>11. ASSUME NEW c \in Calls, LateDelete(c) PROVE Goal
    <3>1. pc[c] = "done"
      BY <2>11 DEF LateDelete
    <3>2. Promise!Remove(c)
      BY <2>11, <3>1, CarryOutIsRemove DEF LateDelete, Promise!MayTell
    <3> QED BY <3>2 DEF Promise!Next
  <2>12. ASSUME NEW c \in Calls, LateLoss(c) PROVE Goal
    <3>1. pc[c] = "done" /\ outcome[c] \in Promise!Unclear
      BY <2>12, OpenCall DEF LateLoss
    <3>2. Carried'[c] = Absent
      BY <2>12, <3>1 DEF LateLoss, Carried
    <3>3. Carried' = [Carried EXCEPT ![c] = Absent]
      BY <2>12, <3>2, CarriedFrame DEF LateLoss
    <3>4. Promise!Drop(c)
      BY <2>12, <3>1, <3>3 DEF LateLoss, Promise!Drop, Promise!MayDrop
    <3> QED BY <3>4 DEF Promise!Next
  <2>13. ASSUME NEW c \in Calls, VerifyPasses(c) PROVE Goal
    <3>1. pc[c] = "verify"
      BY <2>13 DEF VerifyPasses
    <3>2. Promise!AllDone(c, tries[c] + 1)
      BY <3>1, AllDoneAtVerify
    <3>3. tries[c] + 1 \in 1..puts[c] + deletes[c]
      BY <3>1, <3>2, OpenCall, RequestType
         DEF Promise!AllDone, Promise!Moves, Promise!Writes, Active
    <3>4. Promise!Truthful(c, "ok")
      BY <3>2, <3>3 DEF Promise!Truthful
    <3>5. Promise!Tell(c)
      BY <2>13, <3>1, <3>4, ReturnIsTell DEF VerifyPasses, Active, Promise!Answers
    <3> QED BY <3>5 DEF Promise!Next
  <2>14. ASSUME NEW c \in Calls, VerifyRaises(c) PROVE Goal
    <3>1. /\ pc[c] = "verify" /\ in_flight[c] = "none" /\ Drifted(c) /\ ~InPlace(c)
          /\ IF Moves(c) THEN tries[c] <= req[c].max_retries ELSE tries[c] = 0
      BY <2>14 DEF VerifyRaises, CallInv, Active
    <3>2. CASE Repeats(c)
      <4>1. pc' = [pc EXCEPT ![c] = "read"] /\ UNCHANGED outcome
        BY <2>14, <3>2 DEF VerifyRaises, Goto
      <4>2. Carried[c] = Absent /\ Carried'[c] = Absent
        BY <2>14, <3>1, <4>1 DEF VerifyRaises, Carried
      <4>3. UNCHANGED Carried
        BY <2>14, <4>1, <4>2, CarriedFrame DEF VerifyRaises, Carried
      <4> QED BY <2>14, <4>1, <4>3 DEF VerifyRaises
    <3>3. CASE ~Repeats(c)
      <4>1. req[c] \in Requests
        BY <3>1, OpenCall DEF Active
      <4>2. tries[c] + 1 = Promise!Attempts(c)
        BY <3>1, <3>3, <4>1, RequestType
           DEF Repeats, Promise!Attempts, Promise!Moves, Moves, Tool
      <4>3. Promise!AllDone(c, tries[c] + 1)
        BY <3>1, AllDoneAtVerify
      <4>4. pages[req[c].name] # Absent
        BY <3>1 DEF Drifted
      <4>5. Promise!Writes(c) => pages[req[c].name] # req[c].content
        BY <3>1 DEF Promise!Writes, SentInv, Sent, Verifies, Drifted, TokenOf, Enforced, Tool
      <4>6. Promise!Truthful(c, "conflict")
        BY <4>2, <4>3, <4>4, <4>5 DEF Promise!Truthful
      <4>7. Promise!Tell(c)
        BY <2>14, <3>1, <3>3, <4>6, ReturnIsTell DEF VerifyRaises, Active, Promise!Answers
      <4> QED BY <4>7 DEF Promise!Next
    <3> QED BY <3>2, <3>3
  <2>15. CASE EditorSave
    <3>1. pages' \in [Names -> Seq(Line) \cup {Absent}]
      BY <2>15, TypeStep DEF Page, Body
    <3>2. UNCHANGED Carried
      BY <2>15, CarriedUnchanged DEF EditorSave
    <3> QED BY <2>15, <3>1, <3>2 DEF EditorSave, Promise!Next, Promise!Foreign
  <2>16. CASE UNCHANGED vars
    BY <2>16, CarriedUnchanged DEF vars
  <2> QED BY <2>1, <2>2, <2>3, <2>4, <2>5, <2>6, <2>7, <2>8, <2>9, <2>10, <2>11, <2>12,
             <2>13, <2>14, <2>15, <2>16 DEF Next, Step, Late
<1>4. Inv /\ SentInv /\ [Next]_vars => [Promise!Next]_(Promise!avars)
  BY <1>3 DEF Promise!avars
<1>5. Inv /\ SentInv /\ [Next]_vars => Inv' /\ SentInv'
  BY InvStep, SentStep
<1> QED BY InvInit, <1>1, <1>2, <1>4, <1>5, PTL
        DEF Spec, EffectsAreAtomic, Promise!Spec

(* When PUT and GET responses give rise to tokens of one kind, write_page  *)
(* never reports a conflict on the page it has just stored.                *)
THEOREM WriteConflictsReal ==
    ASSUME PutEtag = GetEtag
    PROVE  Spec => WriteConflictIsReal
<1>1. Init => SentInv
  BY DEF Init, SentInv, Sent
<1>2. Inv /\ SentInv /\ [Next]_vars => Inv' /\ SentInv'
  BY InvStep, SentStep
<1>3. ASSUME Inv, SentInv, [Next]_vars, NEW c \in Calls,
             req[c].tool = "write_page", tries'[c] # tries[c]
      PROVE  pages[req[c].name] # body[c]
  <2>1. VerifyRaises(c)
    BY <1>3 DEF Inv, TypeInv, TypeOK, Next, Step, Late, Start, Read, ReadFails, Put,
       PutRefused, Delete, DeleteRefused, RequestFails, AnswerLost, LatePut, LateDelete,
       LateLoss, VerifyPasses, VerifyFails, VerifyRaises, EditorSave, vars
  <2>2. Drifted(c) /\ meta_etag[c] = TokenOf(PutEtag, body[c])
    BY <1>3, <2>1 DEF VerifyRaises, SentInv, Sent, Tool
  <2> QED BY <2>2 DEF Drifted
<1>4. Inv /\ SentInv /\ [Next]_vars
        => [\A c \in Calls :
               req[c].tool = "write_page" /\ tries'[c] # tries[c]
                  => pages[req[c].name] # body[c]]_vars
  BY <1>3
<1> QED BY InvInit, <1>1, <1>2, <1>4, PTL DEF Spec, WriteConflictIsReal
===============================================================================
