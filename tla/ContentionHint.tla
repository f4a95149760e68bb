---------------------------- MODULE ContentionHint ----------------------------
(***************************************************************************)
(* The contention hint: the bridge keeps, for each page, a ring buffer of  *)
(* the times of its latest 412s and marks the answer to a 412 when the     *)
(* buffer says that the page is contended.  The buffer is bounded, expires *)
(* lazily and lives in the process; the history kept here is everything    *)
(* it forgets.                                                             *)
(***************************************************************************)
EXTENDS Integers, Sequences

CONSTANTS
    Names,        \* resolved page names
    THRESHOLD,    \* _CONTENTION_THRESHOLD, also the length of the ring buffer
    WINDOW,       \* _CONTENTION_WINDOW_SECONDS
    MaxTime,      \* bound on the clock
    MaxRefusals   \* bound on the counted 412s of one page

ASSUME ContentionAssumption ==
    /\ THRESHOLD \in Nat \ {0}
    /\ WINDOW \in Nat
    /\ MaxTime \in Nat
    /\ MaxRefusals \in Nat

VARIABLES
    log,      \* _contention_log
    now,      \* time.monotonic()
    hinted,   \* did the latest answer carry the marker?
    counted   \* history: the times of the 412s that went through the hint

vars == <<log, now, hinted, counted>>

Init ==
    /\ log = [n \in Names |-> << >>]
    /\ now = 0
    /\ hinted = FALSE
    /\ counted = [n \in Names |-> << >>]

Pass == now < MaxTime /\ now' = now + 1 /\ UNCHANGED <<log, hinted, counted>>

EvictionStopsAtNewest(times, k, cutoff) ==    \* mutant: <= for <
    /\ \A i \in 1..k : times[i] <= cutoff
    /\ k < Len(times) => times[k + 1] > cutoff

(* How many entries the eviction loop pops: it stops at the first that is  *)
(* not older than the cutoff.                                              *)
EvictionStops(times, k, cutoff) ==
    /\ \A i \in 1..k : times[i] < cutoff
    /\ k < Len(times) => times[k + 1] >= cutoff

PushWithoutBound(times, t) == Append(times, t)   \* mutant: a deque of no maxlen

(* deque(maxlen=THRESHOLD).append *)
Push(times, t) ==
    Append(IF Len(times) < THRESHOLD THEN times ELSE Tail(times), t)

(* _contention_hint, on the 412 of a call on page n. *)
Translated(n) ==
    /\ Len(counted[n]) < MaxRefusals
    /\ counted' = [counted EXCEPT ![n] = Append(@, now)]
    /\ \E k \in 0..Len(log[n]) :
          /\ EvictionStops(log[n], k, now - WINDOW)
          /\ LET kept == SubSeq(log[n], k + 1, Len(log[n])) IN
                /\ hinted' = (Len(kept) >= THRESHOLD)
                /\ log' = [log EXCEPT ![n] = Push(kept, now)]
    /\ UNCHANGED now

(* create_page, the steps of move_page and the dry runs put a 412 in words *)
(* of their own and do not ask for the hint.                               *)
InOwnWords == hinted' = FALSE /\ UNCHANGED <<log, now, counted>>

Next == Pass \/ InOwnWords \/ \E n \in Names : Translated(n)

Spec == Init /\ [][Next]_vars

-------------------------------------------------------------------------------
(* Every variable keeps its kind of value, and no ring buffer outgrows the *)
(* threshold.                                                              *)
TypeOK ==
    /\ log \in [Names -> Seq(Nat)]
    /\ \A n \in Names : Len(log[n]) <= THRESHOLD
    /\ now \in Nat
    /\ hinted \in BOOLEAN
    /\ counted \in [Names -> Seq(Nat)]

(* The THRESHOLD-th latest of the given times lies within the window. *)
Contended(times) ==
    /\ Len(times) >= THRESHOLD
    /\ times[Len(times) - THRESHOLD + 1] >= now - WINDOW

(* The marker is on a 412 that goes through the hint exactly when          *)
(* THRESHOLD such 412s of the same page came before it within the window:  *)
(* neither the bounded buffer nor the lazy expiry nor the 412s of other    *)
(* pages make the bridge miss or invent contention.                        *)
HintIsExact ==
    [][\A n \in Names :
          counted'[n] # counted[n] => hinted' = Contended(counted[n])]_vars
===============================================================================
