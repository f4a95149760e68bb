------------------------------- MODULE RmwTools -------------------------------
(***************************************************************************)
(* The read-modify-write tools of the bridge (append_to_page,              *)
(* prepend_to_page, patch_page_lines, patch_page_replace, check_task) on   *)
(* one page.  Each call is an asyncio task; it gives up control only at    *)
(* its HTTP round trips, so one action is one round trip together with the *)
(* code up to the next await:                                              *)
(*                                                                         *)
(*    Start -> ReadPage -> WritePage -> Verify -> done                     *)
(*                ^____________________|  "concurrent edit detected"       *)
(*                                                                         *)
(* Other calls, and writers that do not go through the bridge (the         *)
(* SilverBullet editor), act in between.                                   *)
(***************************************************************************)
EXTENDS SilverBullet, Integers, FiniteSets, Functions

CONSTANTS
    Calls,        \* the tool calls
    Requests,     \* the arguments a call can come with
    EditorPages,  \* what an outside writer may replace the page by
    EditorLines,  \* what an outside writer may add to the page or put in a line
    InitialPage,
    BodyLimit,    \* lines that fit the body-size limits
    MaxSaves,     \* bound on the steps of outside writers
    Faults        \* may responses be lost or be errors?

(* if_match as the client sends it: nothing, "*", or the token of the body *)
(* it saw when it made the call.                                           *)
IfMatchArgs == {"none", "star", "seen"}

ASSUME RmwAssumption ==
    /\ Requests \subseteq [edit : Edits, if_match : IfMatchArgs,
                           dry_run : BOOLEAN, max_retries : Int]
    /\ EditorPages \subseteq Page
    /\ EditorLines \subseteq Line
    /\ InitialPage \in Body
    /\ BodyLimit \in Nat
    /\ MaxSaves \in Nat
    /\ Faults \in BOOLEAN

(* The sum in OthersStored, of which ConflictsAreCaused speaks. *)
ASSUME FiniteCalls == IsFiniteSet(Calls)

NoRequest == [max_retries |-> 0]

VARIABLES
    page,       \* what SilverBullet stores
    pc,         \* where each call is: "idle", "read", "write", "verify", "done"
    req,        \* its arguments
    if_match,   \* the client's if_match
    base,       \* the body the current attempt read (and its etag's source)
    new_body,   \* what the current attempt PUTs
    meta_etag,  \* the token in the PUT's response
    tries,      \* attempts that ended in "concurrent edit detected"
    outcome,    \* what the client was told
    in_flight,  \* calls whose PUT the server may still process
    saves,      \* steps outside writers have taken
    stored,     \* history: how many PUTs of the call the server stored
    clobbered   \* history: calls that stored a PUT over a page it is no edit of

vars == <<page, pc, req, if_match, base, new_body, meta_etag, tries, outcome,
          in_flight, saves, stored, clobbered>>

write_if_match_of_client(c) == if_match[c]   \* mutant: the read's is not threaded

(* The precondition of the attempt's PUT: the client's, else the read's.   *)
write_if_match(c) ==
    IF if_match[c] # NoToken THEN if_match[c] ELSE TokenOf(GetEtag, base[c])

-------------------------------------------------------------------------------
Init ==
    /\ page = InitialPage
    /\ pc = [c \in Calls |-> "idle"]
    /\ req = [c \in Calls |-> NoRequest]
    /\ if_match = [c \in Calls |-> NoToken]
    /\ base = [c \in Calls |-> << >>]
    /\ new_body = [c \in Calls |-> << >>]
    /\ meta_etag = [c \in Calls |-> NoToken]
    /\ tries = [c \in Calls |-> 0]
    /\ outcome = [c \in Calls |-> "none"]
    /\ in_flight = {}
    /\ saves = 0
    /\ stored = [c \in Calls |-> 0]
    /\ clobbered = {}

Return(c, answer) ==
    /\ pc' = [pc EXCEPT ![c] = "done"]
    /\ outcome' = [outcome EXCEPT ![c] = answer]

Goto(c, label) ==
    /\ pc' = [pc EXCEPT ![c] = label]
    /\ UNCHANGED outcome

(* range(max_retries + 1) is empty for a negative budget: the loop falls   *)
(* through to its assertion.  check_task validates inside the loop, the    *)
(* other tools before it.                                                  *)
StartOutcome(r) ==
    IF ~WellFormed(r.edit) /\ r.edit.tool # "check_task" THEN "invalid"
    ELSE IF r.max_retries < 0 THEN "assertion"
    ELSE IF ~WellFormed(r.edit) THEN "invalid"
    ELSE "none"

(* The client calls the tool; page is the body it last saw. *)
Start(c) ==
    /\ pc[c] = "idle"
    /\ \E r \in Requests :
          /\ r.if_match = "seen" => page # Absent
          /\ req' = [req EXCEPT ![c] = r]
          /\ if_match' = [if_match EXCEPT ![c] =
                CASE r.if_match = "none" -> NoToken
                  [] r.if_match = "star" -> Star
                  [] r.if_match = "seen" -> TokenOf(GetEtag, page)]
          /\ IF StartOutcome(r) = "none"
             THEN Goto(c, "read")
             ELSE Return(c, StartOutcome(r))
    /\ UNCHANGED <<page, base, new_body, meta_etag, tries, in_flight, saves,
                   stored, clobbered>>

(* check_task caps the shaped body itself; the other tools leave a body    *)
(* that has grown too large to the server.                                 *)
TooLarge(e, body) == e.tool = "check_task" /\ Len(body) > BodyLimit

StaleUnlessAny(c) ==   \* mutant: "*" is compared like an etag
    if_match[c] \notin {NoToken, TokenOf(GetEtag, page)}

(* _validate_if_match_on_read, the dry run's mirror of the server's check. *)
StaleOnRead(c) == if_match[c] \notin {NoToken, Star, TokenOf(GetEtag, page)}

ReadOutcome(c) ==
    LET e == req[c].edit IN
    IF page = Absent THEN "not_found"
    ELSE IF ~Applicable(e, page) THEN "refused"
    ELSE IF TooLarge(e, Edited(e, page)) THEN "too_large"
    ELSE IF ~req[c].dry_run THEN "none"
    ELSE IF StaleOnRead(c) THEN "precondition"
    ELSE "preview"

(* GET the page and derive the new body from it. *)
ReadPage(c) ==
    /\ pc[c] = "read"
    /\ IF ReadOutcome(c) = "none"
       THEN /\ base' = [base EXCEPT ![c] = page]
            /\ new_body' = [new_body EXCEPT ![c] = Edited(req[c].edit, page)]
            /\ Goto(c, "write")
       ELSE /\ Return(c, ReadOutcome(c))
            /\ UNCHANGED <<base, new_body>>
    /\ UNCHANGED <<page, req, if_match, meta_etag, tries, in_flight, saves,
                   stored, clobbered>>

(* A round trip that fails leaves the client without knowing what its call *)
(* did: an error status, a timeout, or a transport error of the HTTP       *)
(* library, which nothing translates.                                      *)
Unknowns == {"server_error", "timeout", "transport"}

ReadFails(c) ==
    /\ Faults
    /\ pc[c] = "read"
    /\ \E answer \in Unknowns : Return(c, answer)
    /\ UNCHANGED <<page, req, if_match, base, new_body, meta_etag, tries,
                   in_flight, saves, stored, clobbered>>

(* The server accepts the PUT of the call. *)
Admitted(c) ==
    /\ IfMatchHolds(write_if_match(c), page)
    /\ Len(new_body[c]) <= BodyLimit

(* The server stores the PUT of the call. *)
Store(c) ==
    /\ page' = new_body[c]
    /\ stored' = [stored EXCEPT ![c] = @ + 1]
    /\ clobbered' = IF base[c] = page THEN clobbered ELSE clobbered \cup {c}

(* The verification is skipped when there is no concrete token. *)
WritePage(c) ==
    /\ pc[c] = "write"
    /\ Admitted(c)
    /\ Store(c)
    /\ meta_etag' = [meta_etag EXCEPT ![c] = TokenOf(PutEtag, new_body[c])]
    /\ IF write_if_match(c) \in {NoToken, Star}
       THEN Return(c, "ok")
       ELSE Goto(c, "verify")
    /\ UNCHANGED <<req, if_match, base, new_body, tries, in_flight, saves>>

(* 412 and 413: the auto-retry lets both through. *)
WriteRefused(c) ==
    /\ pc[c] = "write"
    /\ ~Admitted(c)
    /\ Return(c, IF IfMatchHolds(write_if_match(c), page)
                 THEN "too_large" ELSE "precondition")
    /\ UNCHANGED <<page, req, if_match, base, new_body, meta_etag, tries,
                   in_flight, saves, stored, clobbered>>

(* The PUT fails: it may be lost, may have been processed, or may be       *)
(* processed later.                                                        *)
WriteFails(c) ==
    /\ Faults
    /\ pc[c] = "write"
    /\ \E answer \in Unknowns : Return(c, answer)
    /\ in_flight' = in_flight \cup {c}
    /\ UNCHANGED <<page, req, if_match, base, new_body, meta_etag, tries, saves,
                   stored, clobbered>>

(* The server processes a PUT whose call has already returned. *)
LateWrite(c) ==
    /\ c \in in_flight
    /\ in_flight' = in_flight \ {c}
    /\ Admitted(c)
    /\ Store(c)
    /\ UNCHANGED <<pc, req, if_match, base, new_body, meta_etag, tries, outcome,
                   saves>>

(* ... or refuses it, or never gets it. *)
LateLoss(c) ==
    /\ c \in in_flight
    /\ in_flight' = in_flight \ {c}
    /\ UNCHANGED <<page, pc, req, if_match, base, new_body, meta_etag, tries,
                   outcome, saves, stored, clobbered>>

DriftedFromRead(c) ==          \* mutant: the comparison before T46
    page # Absent /\ TokenOf(GetEtag, page) # write_if_match(c)
DriftedInSize(c) ==            \* mutant: sizes although hashes are there
    page # Absent /\ Len(page) # Len(new_body[c])

(* _verify_concurrency_token's comparison. *)
Drifted(c) == page # Absent /\ TokenOf(GetEtag, page) # meta_etag[c]

(* The verification GET finds the page at the version the PUT's response   *)
(* named, or finds no page, or times out: the call is acknowledged.        *)
VerifyPasses(c) ==
    /\ pc[c] = "verify"
    /\ ~Drifted(c) \/ Faults
    /\ Return(c, "ok")
    /\ UNCHANGED <<page, req, if_match, base, new_body, meta_etag, tries,
                   in_flight, saves, stored, clobbered>>

(* The other failures of the verification reach the client although the    *)
(* PUT is done: a transport error, a 412 or 413, which are not caught, and *)
(* a 5xx or other 4xx, which is, but as a ServerError: the GET is streamed *)
(* and reading the text of the error for a hint raises ResponseNotRead.    *)
VerifyFails(c) ==
    /\ Faults
    /\ pc[c] = "verify"
    /\ Return(c, "transport")
    /\ UNCHANGED <<page, req, if_match, base, new_body, meta_etag, tries,
                   in_flight, saves, stored, clobbered>>

VerifyRaisesOnceMore(c) ==   \* mutant: an attempt too many
    /\ pc[c] = "verify"
    /\ Drifted(c)
    /\ tries' = [tries EXCEPT ![c] = @ + 1]
    /\ IF tries[c] <= req[c].max_retries
       THEN Goto(c, "read")
       ELSE Return(c, "conflict")
    /\ UNCHANGED <<page, req, if_match, base, new_body, meta_etag, in_flight,
                   saves, stored, clobbered>>

VerifyRaisesLooping(c) ==   \* mutant: the budget spent, it reads again
    /\ pc[c] = "verify"
    /\ Drifted(c)
    /\ IF tries[c] < req[c].max_retries
       THEN Goto(c, "read") /\ tries' = [tries EXCEPT ![c] = @ + 1]
       ELSE UNCHANGED <<pc, outcome, tries>>
    /\ UNCHANGED <<page, req, if_match, base, new_body, meta_etag, in_flight,
                   saves, stored, clobbered>>

(* "concurrent edit detected": the whole attempt again while the budget    *)
(* lasts, else the error goes to the client.                               *)
VerifyRaises(c) ==
    /\ pc[c] = "verify"
    /\ Drifted(c)
    /\ tries' = [tries EXCEPT ![c] = @ + 1]
    /\ IF tries[c] < req[c].max_retries
       THEN Goto(c, "read")
       ELSE Return(c, "conflict")
    /\ UNCHANGED <<page, req, if_match, base, new_body, meta_etag, in_flight,
                   saves, stored, clobbered>>

(* A writer outside the bridge saves, edits, deletes or creates the page.  *)
EditorSave ==
    /\ saves < MaxSaves
    /\ saves' = saves + 1
    /\ \/ page' \in EditorPages
       \/ /\ page # Absent
          /\ \E l \in EditorLines : page' = Append(page, l)
       \/ /\ page # Absent
          /\ \E l \in EditorLines, i \in DOMAIN page :
                page' = [page EXCEPT ![i] = l]
    /\ UNCHANGED <<pc, req, if_match, base, new_body, meta_etag, tries, outcome,
                   in_flight, stored, clobbered>>

-------------------------------------------------------------------------------
Step(c) ==
    \/ ReadPage(c) \/ ReadFails(c)
    \/ WritePage(c) \/ WriteRefused(c) \/ WriteFails(c)
    \/ VerifyPasses(c) \/ VerifyFails(c) \/ VerifyRaises(c)

Next ==
    \/ \E c \in Calls : Start(c) \/ Step(c) \/ LateWrite(c) \/ LateLoss(c)
    \/ EditorSave

Spec == Init /\ [][Next]_vars

(* Every round trip of a started call ends, by an answer or by the HTTP    *)
(* client's timeout, and the event loop then runs the task again.  Neither *)
(* clients, nor outside writers, nor lost requests owe the bridge a step.  *)
FairSpec == Spec /\ \A c \in Calls : WF_vars(Step(c))

-------------------------------------------------------------------------------
(***************************************************************************)
(* Properties                                                              *)
(***************************************************************************)
Refusals == {"invalid", "assertion", "not_found", "refused", "too_large",
             "precondition", "preview"}
Outcomes == {"none", "ok", "conflict"} \cup Refusals \cup Unknowns

(* Every variable keeps its kind of value. *)
TypeOK ==
    /\ page \in Page
    /\ pc \in [Calls -> {"idle", "read", "write", "verify", "done"}]
    /\ req \in [Calls -> Requests \cup {NoRequest}]
    /\ if_match \in [Calls -> Tokens]
    /\ base \in [Calls -> Body]
    /\ new_body \in [Calls -> Body]
    /\ meta_etag \in [Calls -> Tokens]
    /\ tries \in [Calls -> Nat]
    /\ outcome \in [Calls -> Outcomes]
    /\ in_flight \subseteq Calls
    /\ saves \in Nat
    /\ stored \in [Calls -> Nat]
    /\ clobbered \subseteq Calls

(* Across retries, refusals, lost responses and late processing, what a    *)
(* call has stored is what its answers account for: one PUT per attempt    *)
(* that ended in "concurrent edit detected", one more once it waits for    *)
(* its verification or is acknowledged, and at most one nobody knows of.   *)
Accounted(c) ==
    CASE outcome[c] \in Unknowns -> stored[c] \in {tries[c], tries[c] + 1}
      [] outcome[c] = "ok" \/ pc[c] = "verify" -> stored[c] = tries[c] + 1
      [] OTHER -> stored[c] = tries[c]

(* An attempt is repeated at most max_retries times, and the budget is     *)
(* spent when, and only when, the client is told of the conflict.          *)
BudgetKept(c) ==
    IF outcome[c] = "conflict"
    THEN tries[c] = req[c].max_retries + 1
    ELSE tries[c] = 0 \/ tries[c] <= req[c].max_retries

AnswersAccountForWrites ==
    \A c \in Calls : Accounted(c) /\ BudgetKept(c)

(* With the token the bridge threads from its own read, no PUT replaces    *)
(* anything but the body it was derived from, not even one processed after *)
(* its call timed out: nobody's concurrent edit is lost.                   *)
AutoTokenNeverClobbers ==
    \A c \in clobbered : req[c].if_match # "none"

(* A call that is acknowledged lost nobody's edit, whatever its token.     *)
AckedNeverClobbered ==
    \A c \in Calls : outcome[c] = "ok" => c \notin clobbered

(* "concurrent edit detected" is never raised on the call's own write: the *)
(* page it compares is not the page the attempt stored.                    *)
ConflictIsReal ==
    [][\A c \in Calls : tries'[c] # tries[c] => page # new_body[c]]_vars

(* Nor is it raised more often than others stored something: a call cannot *)
(* use up its retries on a page nobody else writes.                        *)
OthersStored(c) == saves + SumFunctionOnSet(stored, Calls \ {c})

ConflictsAreCaused ==
    \A c \in Calls : tries[c] <= OthersStored(c)

(* An acknowledgement after a verification that was carried out means the  *)
(* page still held what the call stored, or was deleted since.             *)
AckSeesOwnWrite ==
    [][\A c \in Calls :
          pc[c] = "verify" /\ outcome'[c] = "ok"
             => page \in {Absent, new_body[c]}]_vars

(* A dry run says what the server would say if the call were live: it      *)
(* answers with a preview exactly when the precondition that the live PUT  *)
(* would carry holds of the page the dry run read.                         *)
LivePrecondition(c) ==
    IF if_match[c] # NoToken THEN if_match[c] ELSE TokenOf(GetEtag, page)

DryRunForetells ==
    [][\A c \in Calls :
          /\ pc[c] = "read" /\ outcome'[c] = "preview"
                => IfMatchHolds(LivePrecondition(c), page)
          /\ pc[c] = "read" /\ outcome'[c] = "precondition"
                => ~IfMatchHolds(LivePrecondition(c), page)]_vars

(* Every call that got past its validation returns, however often outside  *)
(* writers change the page under it.                                       *)
EveryCallReturns == \A c \in Calls : pc[c] = "read" ~> pc[c] = "done"

(* The calls do what AtomicEdits promises: with the threaded token on a    *)
(* server that enforces it, every PUT, a late one included, is an edit of  *)
(* the page it lands on, and every answer is true when it is given.        *)
Promise == INSTANCE AtomicEdits
              WITH asked <- req, applied <- stored, told <- outcome

EditsAreAtomic == Promise!Spec
===============================================================================
