----------------------------- MODULE AtomicEdits ------------------------------
(***************************************************************************)
(* What the read-modify-write tools promise their clients: an edit happens *)
(* at one instant, on the page as it is at that instant, and the answer    *)
(* tells whether it happened.  There is no read, no token and no request   *)
(* in flight here.  A client that grants a retry budget accepts that its   *)
(* edit may happen again, once for every retry.                            *)
(***************************************************************************)
EXTENDS PageBody, Integers

CONSTANTS Absent, Calls, Requests, BodyLimit, InitialPage, NoRequest

VARIABLES page, asked, applied, told

avars == <<page, asked, applied, told>>

Init ==
    /\ page = InitialPage
    /\ asked = [c \in Calls |-> NoRequest]
    /\ applied = [c \in Calls |-> 0]
    /\ told = [c \in Calls |-> "none"]

(* A call comes in; one with bad arguments is turned away at once. *)
Ask(c) ==
    /\ asked[c] = NoRequest
    /\ \E r \in Requests : asked' = [asked EXCEPT ![c] = r]
    /\ \E answer \in {"none", "invalid", "assertion"} :
          told' = [told EXCEPT ![c] = answer]
    /\ UNCHANGED <<page, applied>>

(* The edit may still happen after a call that got no clear answer.        *)
Pending(c) == /\ asked[c] # NoRequest
              /\ told[c] \in {"none", "timeout", "server_error", "transport"}
              /\ applied[c] <= asked[c].max_retries

(* The edit happens; the client may be told in the same instant. *)
Edit(c) ==
    /\ Pending(c)
    /\ ~asked[c].dry_run
    /\ page # Absent
    /\ Applicable(asked[c].edit, page)
    /\ page' = Edited(asked[c].edit, page)
    /\ applied' = [applied EXCEPT ![c] = @ + 1]
    /\ \/ UNCHANGED told
       \/ told[c] = "none" /\ told' = [told EXCEPT ![c] = "ok"]
    /\ UNCHANGED asked

(* When each answer is true.  A refusal is about the page as it is when    *)
(* the answer is given, and leaves an edit of the budget unused.           *)
Truthful(c, answer) ==
    LET e == asked[c].edit IN
    CASE answer = "ok"           -> applied[c] > 0
      [] answer = "conflict"     -> applied[c] = asked[c].max_retries + 1
      [] answer = "not_found"    -> Pending(c) /\ page = Absent
      [] answer = "refused"      -> Pending(c) /\ page # Absent /\ ~Applicable(e, page)
      [] answer = "too_large"    -> /\ Pending(c) /\ page # Absent
                                    /\ Applicable(e, page)
                                    /\ Len(Edited(e, page)) > BodyLimit
      [] answer = "precondition" -> Pending(c)
      [] answer = "preview"      -> /\ Pending(c) /\ page # Absent
                                    /\ asked[c].dry_run /\ Applicable(e, page)
      [] OTHER                   -> TRUE

Answers == {"ok", "conflict", "not_found", "refused", "too_large", "precondition",
            "preview", "timeout", "server_error", "transport"}

Tell(c) ==
    /\ asked[c] # NoRequest
    /\ told[c] = "none"
    /\ \E answer \in Answers :
          /\ Truthful(c, answer)
          /\ told' = [told EXCEPT ![c] = answer]
    /\ UNCHANGED <<page, asked, applied>>

(* Others write the page. *)
Foreign == page' \in Seq(Line) \cup {Absent} /\ UNCHANGED <<asked, applied, told>>

Next == Foreign \/ \E c \in Calls : Ask(c) \/ Edit(c) \/ Tell(c)

Spec == Init /\ [][Next]_avars
===============================================================================
