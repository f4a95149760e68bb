---------------------------- MODULE WholePageTools ----------------------------
(***************************************************************************)
(* The tools that write, create, delete and move whole pages (write_page,  *)
(* create_page, delete_page, move_page).  One action is one HTTP round     *)
(* trip and the code up to the next await:                                 *)
(*                                                                         *)
(*    write_page    Start -> Put -> Verify                                 *)
(*    create_page   Start -> Put                                           *)
(*    delete_page   Start -> Delete -> Verify                              *)
(*    move_page     Start -> Read -> Put -> Delete -> Verify               *)
(*                            ^________________________|                   *)
(*                                                                         *)
(* Other calls and writers outside the bridge act in between.              *)
(***************************************************************************)
EXTENDS SilverBullet, Integers

CONSTANTS
    Names,          \* page names, after normalisation
    Calls,          \* the tool calls
    Requests,       \* the arguments a call can come with
    Oversized,      \* the bodies above the bridge's cap of 256 KiB
    EditorBodies,   \* what an outside writer may save at a name
    InitialPages,
    MaxSaves,       \* bound on the steps of outside writers
    Faults          \* may responses be lost or be errors?

IfMatchArgs == {"none", "star", "seen"}

AllRequests ==
         [tool : {"write_page"}, name : Names, content : Body,
          if_match : IfMatchArgs]
    \cup [tool : {"create_page"}, name : Names, content : Body]
    \cup [tool : {"delete_page"}, name : Names, if_match : IfMatchArgs]
    \cup [tool : {"move_page"}, name : Names, new_name : Names,
          if_match : IfMatchArgs, max_retries : Int]

ASSUME WholePageAssumption ==
    /\ Requests \subseteq AllRequests
    /\ Oversized \subseteq Body
    /\ EditorBodies \subseteq Page
    /\ InitialPages \in [Names -> Page]
    /\ MaxSaves \in Nat
    /\ Faults \in BOOLEAN

NoRequest == [tool |-> "none"]

VARIABLES
    pages,      \* what SilverBullet stores
    pc,         \* "idle", "read", "put", "delete", "verify" or "done"
    req,        \* each call's arguments
    if_match,   \* the client's token
    body,       \* the body the call PUTs
    meta_etag,  \* the token the verification compares with
    tries,      \* attempts that ended in "concurrent edit detected"
    outcome,    \* what the client was told
    in_flight,  \* the request the server may process after its call returned
    saves,      \* steps outside writers have taken
    puts,       \* history: PUTs of the call the server stored
    deletes     \* history: DELETEs of the call the server carried out

vars == <<pages, pc, req, if_match, body, meta_etag, tries, outcome, in_flight,
          saves, puts, deletes>>

Init ==
    /\ pages = InitialPages
    /\ pc = [c \in Calls |-> "idle"]
    /\ req = [c \in Calls |-> NoRequest]
    /\ if_match = [c \in Calls |-> NoToken]
    /\ body = [c \in Calls |-> << >>]
    /\ meta_etag = [c \in Calls |-> NoToken]
    /\ tries = [c \in Calls |-> 0]
    /\ outcome = [c \in Calls |-> "none"]
    /\ in_flight = [c \in Calls |-> "none"]
    /\ saves = 0
    /\ puts = [c \in Calls |-> 0]
    /\ deletes = [c \in Calls |-> 0]

Return(c, answer) ==
    /\ pc' = [pc EXCEPT ![c] = "done"]
    /\ outcome' = [outcome EXCEPT ![c] = answer]

Goto(c, label) ==
    /\ pc' = [pc EXCEPT ![c] = label]
    /\ UNCHANGED outcome

(* create_page sends If-Match: * whatever page it creates. *)
TokenFor(r) ==
    CASE r.tool = "create_page" -> Star
      [] r.tool # "create_page" /\ r.if_match = "none" -> NoToken
      [] r.tool # "create_page" /\ r.if_match = "star" -> Star
      [] r.tool # "create_page" /\ r.if_match = "seen" ->
            TokenOf(GetEtag, pages[r.name])

(* write_page refuses an empty content, both writers one above the cap; a   *)
(* negative budget runs move_page's retry loop into its assertion, unless   *)
(* the two names are the same.                                             *)
StartOutcome(r) ==
    IF \/ r.tool = "write_page" /\ r.content = << >>
       \/ r.tool \in {"write_page", "create_page"} /\ r.content \in Oversized
    THEN "invalid"
    ELSE IF r.tool = "move_page" /\ r.name # r.new_name /\ r.max_retries < 0
    THEN "assertion"
    ELSE "none"

FirstStep(r) == CASE r.tool \in {"write_page", "create_page"} -> "put"
                  [] r.tool = "delete_page" -> "delete"
                  [] r.tool = "move_page" -> "read"

(* The client calls a tool; a token it sends is that of the page it last saw. *)
Start(c) ==
    /\ pc[c] = "idle"
    /\ \E r \in Requests :
          /\ r.tool # "create_page" /\ r.if_match = "seen" => pages[r.name] # Absent
          /\ req' = [req EXCEPT ![c] = r]
          /\ if_match' = [if_match EXCEPT ![c] = TokenFor(r)]
          /\ body' = IF r.tool \in {"write_page", "create_page"}
                     THEN [body EXCEPT ![c] = r.content] ELSE body
          /\ IF StartOutcome(r) = "none"
             THEN Goto(c, FirstStep(r)) ELSE Return(c, StartOutcome(r))
    /\ UNCHANGED <<pages, meta_etag, tries, in_flight, saves, puts, deletes>>

ReadOutcomeOfAnyPage(c) ==         \* mutant: a 404 is taken for a page
    IF req[c].name = req[c].new_name THEN "ok"
    ELSE IF pages[req[c].name] \in Oversized THEN "too_large"
    ELSE "none"

(* move_page reads its source; a move onto itself ends there. *)
ReadOutcome(c) ==
    IF pages[req[c].name] = Absent THEN "not_found"
    ELSE IF req[c].name = req[c].new_name THEN "ok"
    ELSE IF pages[req[c].name] \in Oversized THEN "too_large"
    ELSE "none"

Read(c) ==
    /\ pc[c] = "read"
    /\ IF ReadOutcome(c) = "none"
       THEN Goto(c, "put") /\ body' = [body EXCEPT ![c] = pages[req[c].name]]
       ELSE Return(c, ReadOutcome(c)) /\ UNCHANGED body
    /\ UNCHANGED <<pages, req, if_match, meta_etag, tries, in_flight, saves, puts,
                   deletes>>

-------------------------------------------------------------------------------
(* The PUT: of move_page to the new name with If-None-Match: *, of the     *)
(* other tools to the name with the call's token.                          *)
Target(c) == IF req[c].tool = "move_page" THEN req[c].new_name ELSE req[c].name

SendsIfNoneMatchNever(c) == FALSE   \* mutant: move_page sends no precondition

SendsIfNoneMatch(c) == req[c].tool = "move_page"

PutIfMatch(c) == IF req[c].tool = "move_page" THEN NoToken ELSE if_match[c]

PutAdmitted(c) ==
    /\ SendsIfNoneMatch(c) => IfNoneMatchHolds(pages[Target(c)])
    /\ IfMatchHolds(PutIfMatch(c), pages[Target(c)])

StorePut(c) ==
    /\ pages' = [pages EXCEPT ![Target(c)] = body[c]]
    /\ puts' = [puts EXCEPT ![c] = @ + 1]

(* _verify_concurrency_token does nothing without a concrete token. *)
Verifies(c) == if_match[c] \notin {NoToken, Star}

AfterPutWithoutCleanUp(c) ==       \* mutant: move_page copies
    IF Verifies(c) THEN "verify" ELSE "done"

AfterPut(c) == IF req[c].tool = "move_page" THEN "delete"
               ELSE IF Verifies(c) THEN "verify" ELSE "done"

Put(c) ==
    /\ pc[c] = "put"
    /\ PutAdmitted(c)
    /\ StorePut(c)
    /\ meta_etag' = [meta_etag EXCEPT ![c] = TokenOf(PutEtag, body[c])]
    /\ IF AfterPut(c) = "done" THEN Return(c, "ok") ELSE Goto(c, AfterPut(c))
    /\ UNCHANGED <<req, if_match, body, tries, in_flight, saves, deletes>>

(* 412, in the words of each tool. *)
PutRefusal(c) == CASE req[c].tool = "write_page"  -> "precondition"
                   [] req[c].tool = "create_page" -> "page_exists"
                   [] req[c].tool = "move_page"   -> "destination_exists"

PutRefusedAgain(c) ==              \* mutant: a move waits for its destination
    /\ pc[c] = "put"
    /\ ~PutAdmitted(c)
    /\ IF req[c].tool = "move_page" THEN Goto(c, "read") ELSE Return(c, PutRefusal(c))
    /\ UNCHANGED <<pages, req, if_match, body, meta_etag, tries, in_flight, saves,
                   puts, deletes>>

PutRefused(c) ==
    /\ pc[c] = "put"
    /\ ~PutAdmitted(c)
    /\ Return(c, PutRefusal(c))
    /\ UNCHANGED <<pages, req, if_match, body, meta_etag, tries, in_flight, saves,
                   puts, deletes>>

-------------------------------------------------------------------------------
DeleteAdmitted(c) ==
    pages[req[c].name] # Absent /\ IfMatchHolds(if_match[c], pages[req[c].name])

CarryOutDelete(c) ==
    /\ pages' = [pages EXCEPT ![req[c].name] = Absent]
    /\ deletes' = [deletes EXCEPT ![c] = @ + 1]

(* What delete_page hands to the verification is its own response's token; *)
(* move_page hands over the response to its PUT.  A DELETE response has no *)
(* length to make a token of.                                              *)
DeleteEtag(c) ==
    IF req[c].tool = "move_page" THEN meta_etag[c]
    ELSE IF PutEtag = "hash" THEN TokenOf("hash", pages[req[c].name])
    ELSE NoToken

Delete(c) ==
    /\ pc[c] = "delete"
    /\ DeleteAdmitted(c)
    /\ CarryOutDelete(c)
    /\ meta_etag' = [meta_etag EXCEPT ![c] = DeleteEtag(c)]
    /\ IF Verifies(c) THEN Goto(c, "verify") ELSE Return(c, "ok")
    /\ UNCHANGED <<req, if_match, body, tries, in_flight, saves, puts>>

(* 404, or 412 when the server looks at the precondition first. *)
DeleteRefused(c) ==
    /\ pc[c] = "delete"
    /\ ~DeleteAdmitted(c)
    /\ \/ /\ pages[req[c].name] = Absent
          /\ Return(c, IF req[c].tool = "move_page" THEN "source_gone"
                                                    ELSE "not_found")
       \/ /\ ~IfMatchHolds(if_match[c], pages[req[c].name])
          /\ Return(c, IF req[c].tool = "move_page" THEN "both_exist"
                                                    ELSE "precondition")
    /\ UNCHANGED <<pages, req, if_match, body, meta_etag, tries, in_flight, saves,
                   puts, deletes>>

-------------------------------------------------------------------------------
Unknowns == {"server_error", "timeout", "transport"}

ReadFails(c) ==
    /\ Faults
    /\ pc[c] = "read"
    /\ \E answer \in Unknowns : Return(c, answer)
    /\ UNCHANGED <<pages, req, if_match, body, meta_etag, tries, in_flight, saves,
                   puts, deletes>>

(* The clean-up of move_page has words of its own for errors and timeouts. *)
FailureAnswers(c) ==
    IF req[c].tool = "move_page" /\ pc[c] = "delete"
    THEN {"both_exist", "transport"}
    ELSE Unknowns

(* A PUT or DELETE fails: it is lost, or the server will process it later. *)
RequestFails(c) ==
    /\ Faults
    /\ pc[c] \in {"put", "delete"}
    /\ \E answer \in FailureAnswers(c) : Return(c, answer)
    /\ in_flight' = [in_flight EXCEPT ![c] = pc[c]]
    /\ UNCHANGED <<pages, req, if_match, body, meta_etag, tries, saves, puts,
                   deletes>>

(* The server has processed it, and its answer is lost. *)
AnswerLost(c) ==
    /\ Faults
    /\ \/ pc[c] = "put" /\ PutAdmitted(c) /\ StorePut(c) /\ UNCHANGED deletes
       \/ pc[c] = "delete" /\ DeleteAdmitted(c) /\ CarryOutDelete(c) /\ UNCHANGED puts
    /\ \E answer \in FailureAnswers(c) : Return(c, answer)
    /\ UNCHANGED <<req, if_match, body, meta_etag, tries, in_flight, saves>>

LatePut(c) ==
    /\ in_flight[c] = "put"
    /\ PutAdmitted(c)
    /\ StorePut(c)
    /\ in_flight' = [in_flight EXCEPT ![c] = "none"]
    /\ UNCHANGED <<pc, req, if_match, body, meta_etag, tries, outcome, saves, deletes>>

LateDelete(c) ==
    /\ in_flight[c] = "delete"
    /\ DeleteAdmitted(c)
    /\ CarryOutDelete(c)
    /\ in_flight' = [in_flight EXCEPT ![c] = "none"]
    /\ UNCHANGED <<pc, req, if_match, body, meta_etag, tries, outcome, saves, puts>>

LateLoss(c) ==
    /\ in_flight[c] # "none"
    /\ in_flight' = [in_flight EXCEPT ![c] = "none"]
    /\ UNCHANGED <<pages, pc, req, if_match, body, meta_etag, tries, outcome, saves,
                   puts, deletes>>

-------------------------------------------------------------------------------
DriftedFromRead(c) ==              \* mutant: the comparison before T46
    LET now == pages[req[c].name] IN
    now # Absent /\ TokenOf(GetEtag, now) # if_match[c]

(* _verify_concurrency_token re-reads the name, also of a move. *)
Drifted(c) ==
    LET now == pages[req[c].name] IN
    now # Absent /\ TokenOf(GetEtag, now) # meta_etag[c]

(* The page is as the PUT left it, or gone, or the GET times out. *)
VerifyPasses(c) ==
    /\ pc[c] = "verify"
    /\ ~Drifted(c) \/ Faults
    /\ Return(c, "ok")
    /\ UNCHANGED <<pages, req, if_match, body, meta_etag, tries, in_flight, saves,
                   puts, deletes>>

(* A transport error, or any other error status (see RmwTools). *)
VerifyFails(c) ==
    /\ Faults
    /\ pc[c] = "verify"
    /\ Return(c, "transport")
    /\ UNCHANGED <<pages, req, if_match, body, meta_etag, tries, in_flight, saves,
                   puts, deletes>>

(* Only move_page is repeated. *)
Repeats(c) == req[c].tool = "move_page" /\ tries[c] < req[c].max_retries

VerifyRaisesAndPuts(c) ==          \* mutant: the repetition does not read again
    /\ pc[c] = "verify"
    /\ Drifted(c)
    /\ tries' = [tries EXCEPT ![c] = @ + 1]
    /\ IF Repeats(c) THEN Goto(c, "put") ELSE Return(c, "conflict")
    /\ UNCHANGED <<pages, req, if_match, body, meta_etag, in_flight, saves, puts,
                   deletes>>

VerifyRaises(c) ==
    /\ pc[c] = "verify"
    /\ Drifted(c)
    /\ tries' = [tries EXCEPT ![c] = @ + 1]
    /\ IF Repeats(c) THEN Goto(c, "read") ELSE Return(c, "conflict")
    /\ UNCHANGED <<pages, req, if_match, body, meta_etag, in_flight, saves, puts,
                   deletes>>

(* A writer outside the bridge saves or deletes a page. *)
EditorSave ==
    /\ saves < MaxSaves
    /\ saves' = saves + 1
    /\ \E n \in Names, b \in EditorBodies : pages' = [pages EXCEPT ![n] = b]
    /\ UNCHANGED <<pc, req, if_match, body, meta_etag, tries, outcome, in_flight,
                   puts, deletes>>

Step(c) ==
    \/ Read(c) \/ ReadFails(c)
    \/ Put(c) \/ PutRefused(c)
    \/ Delete(c) \/ DeleteRefused(c) \/ RequestFails(c)
    \/ AnswerLost(c)
    \/ VerifyPasses(c) \/ VerifyFails(c) \/ VerifyRaises(c)

Late(c) == LatePut(c) \/ LateDelete(c) \/ LateLoss(c)

Next ==
    \/ \E c \in Calls : Start(c) \/ Step(c) \/ Late(c)
    \/ EditorSave

Spec == Init /\ [][Next]_vars

(* Every round trip ends, by an answer or by the client's timeout. *)
FairSpec == Spec /\ \A c \in Calls : WF_vars(Step(c))

-------------------------------------------------------------------------------
(***************************************************************************)
(* Properties                                                              *)
(***************************************************************************)
Outcomes == {"none", "ok", "conflict", "invalid", "assertion", "not_found",
             "too_large", "precondition", "page_exists", "destination_exists",
             "source_gone", "both_exist"} \cup Unknowns

(* Every variable keeps its kind of value. *)
TypeOK ==
    /\ pages \in [Names -> Page]
    /\ pc \in [Calls -> {"idle", "read", "put", "delete", "verify", "done"}]
    /\ req \in [Calls -> Requests \cup {NoRequest}]
    /\ if_match \in [Calls -> Tokens]
    /\ body \in [Calls -> Body]
    /\ meta_etag \in [Calls -> Tokens]
    /\ tries \in [Calls -> Nat]
    /\ outcome \in [Calls -> Outcomes]
    /\ in_flight \in [Calls -> {"none", "put", "delete"}]
    /\ saves \in Nat
    /\ puts \in [Calls -> Nat]
    /\ deletes \in [Calls -> Nat]

(* The PUTs and DELETEs of a call that took effect are those its answer    *)
(* accounts for, through retries, partial moves, lost responses and late   *)
(* processing: no call writes or deletes more than it can be held to, and  *)
(* a move never deletes in an attempt whose PUT was not stored.            *)
Accounted(c) ==
    LET t == tries[c]
        writes  == req[c].tool \in {"write_page", "create_page", "move_page"}
        removes == req[c].tool \in {"delete_page", "move_page"}
        finished == outcome[c] = "ok" \/ pc[c] = "verify"
        same == req[c].tool = "move_page" /\ req[c].name = req[c].new_name
        all == IF req[c].tool = "move_page" THEN t ELSE 1 IN
    CASE finished ->
            /\ puts[c] = IF writes /\ ~same THEN t + 1 ELSE 0
            /\ deletes[c] = IF removes /\ ~same THEN t + 1 ELSE 0
      [] outcome[c] = "conflict" ->
            /\ puts[c] = IF writes THEN all ELSE 0
            /\ deletes[c] = IF removes THEN all ELSE 0
      [] outcome[c] \in Unknowns \cup {"both_exist"} ->
            /\ puts[c] \in {t, t + 1}
            /\ deletes[c] \in {t, t + 1}
            /\ writes => deletes[c] <= puts[c]
            /\ ~writes => puts[c] = 0
            /\ ~removes => deletes[c] = 0
      [] pc[c] = "delete" \/ outcome[c] = "source_gone" ->
            /\ puts[c] = IF writes THEN t + 1 ELSE 0
            /\ deletes[c] = t
      [] OTHER -> puts[c] = t /\ deletes[c] = t

BudgetKept(c) ==
    IF req[c].tool = "move_page"
    THEN IF outcome[c] = "conflict" THEN tries[c] = req[c].max_retries + 1
                                    ELSE tries[c] = 0 \/ tries[c] <= req[c].max_retries
    ELSE tries[c] = IF outcome[c] = "conflict" THEN 1 ELSE 0

AnswersAccountForEffects ==
    \A c \in Calls : Accounted(c) /\ BudgetKept(c)

(* On a server that enforces preconditions, what a call removes from a     *)
(* name, by overwriting or by deleting, at once or late, is a body its     *)
(* client named by its token, or the client waived the protection.  The    *)
(* PUT of a move removes nothing.                                          *)
Removes(c, n) ==
    \/ puts'[c] # puts[c] /\ Target(c) = n
    \/ deletes'[c] # deletes[c] /\ req[c].name = n

Entitled(c, n) ==
    /\ if_match[c] \in {NoToken, Star, TokenOf("hash", pages[n])}
    /\ req[c].tool = "move_page" => puts'[c] = puts[c]

NothingDestroyedUnseen ==
    [][\A c \in Calls, n \in Names :
          pages[n] # Absent /\ Removes(c, n) => Entitled(c, n)]_vars

(* write_page's "concurrent edit detected" is never raised on the page it  *)
(* has just stored.                                                        *)
WriteConflictIsReal ==
    [][\A c \in Calls :
          req[c].tool = "write_page" /\ tries'[c] # tries[c]
             => pages[req[c].name] # body[c]]_vars

(* On a server that enforces preconditions and answers with hashes, the    *)
(* calls do what AtomicPages describes: every write and removal, a late    *)
(* one included, is of the page the client named, a move copies what it    *)
(* saw since its last attempt, no clear answer is followed by an effect,   *)
(* and every answer is true when it is given.                              *)
Carried ==
    [c \in Calls |->
        IF req[c].tool = "move_page" /\ (pc[c] = "put" \/ in_flight[c] = "put")
        THEN body[c] ELSE Absent]

Promise == INSTANCE AtomicPages
              WITH asked <- req, named <- if_match, carried <- Carried,
                   written <- puts, removed <- deletes, told <- outcome

EffectsAreAtomic == Promise!Spec

(* Every call that got past its validation returns. *)
EveryCallReturns ==
    \A c \in Calls : pc[c] \notin {"idle", "done"} ~> pc[c] = "done"

(* The statements below are made in the repository; the runs named after   *)
(* them show behaviours of the code that refute them.                      *)

(* create_page refuses to overwrite. *)
CreateNeverOverwrites ==
    [][\A c \in Calls :
          req[c].tool = "create_page" /\ puts'[c] # puts[c]
             => pages[req[c].name] = Absent]_vars

(* move_page deletes the body it has copied, no other. *)
MoveDeletesWhatItCopied ==
    [][\A c \in Calls :
          req[c].tool = "move_page" /\ deletes'[c] # deletes[c]
             => pages[req[c].name] = body[c]]_vars
===============================================================================
