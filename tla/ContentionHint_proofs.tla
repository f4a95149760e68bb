------------------------ MODULE ContentionHint_proofs -------------------------
(***************************************************************************)
(* The contention hint is exact, for every threshold and window and every  *)
(* number of pages.  The ring buffer is a suffix of the history of 412s;   *)
(* what it has forgotten is either too old to matter or behind THRESHOLD   *)
(* younger entries.                                                        *)
(***************************************************************************)
EXTENDS ContentionHint, TLAPS

(* The times do not decrease and are not in the future of t. *)
Chronological(times, t) ==
    /\ \A i, j \in 1..Len(times) : i <= j => times[i] <= times[j]
    /\ \A i \in 1..Len(times) : times[i] <= t

(* The ring buffer is the latest part of the history. *)
Suffix(ring, times) ==
    /\ Len(ring) <= Len(times)
    /\ \A i \in 1..Len(ring) : ring[i] = times[Len(times) - Len(ring) + i]

(* Below the threshold, only what is too old at t has been forgotten. *)
ForgotOnlyOld(ring, times, t) ==
    Len(ring) < THRESHOLD
       => \A i \in 1..(Len(times) - Len(ring)) : times[i] < t - WINDOW

Remembers(ring, times, t) ==
    Chronological(times, t) /\ Suffix(ring, times) /\ ForgotOnlyOld(ring, times, t)

Inv == TypeOK /\ \A n \in Names : Remembers(log[n], counted[n], now)

-------------------------------------------------------------------------------
(* What the eviction loop leaves of the ring buffer. *)
LEMMA KeptSuffix ==
    ASSUME NEW ring \in Seq(Nat), NEW k \in 0..Len(ring)
    PROVE  /\ SubSeq(ring, k + 1, Len(ring)) \in Seq(Nat)
           /\ Len(SubSeq(ring, k + 1, Len(ring))) = Len(ring) - k
           /\ \A i \in 1..(Len(ring) - k) :
                 SubSeq(ring, k + 1, Len(ring))[i] = ring[k + i]
  OBVIOUS

(* What a push makes of a ring buffer that fits the threshold. *)
LEMMA PushKeepsLatest ==
    ASSUME NEW kept \in Seq(Nat), NEW t \in Nat, Len(kept) <= THRESHOLD
    PROVE  /\ Push(kept, t) \in Seq(Nat)
           /\ Len(Push(kept, t)) =
                 IF Len(kept) < THRESHOLD THEN Len(kept) + 1 ELSE THRESHOLD
           /\ Len(kept) < THRESHOLD =>
                 \A i \in 1..Len(Push(kept, t)) :
                    Push(kept, t)[i] = IF i <= Len(kept) THEN kept[i] ELSE t
           /\ Len(kept) = THRESHOLD =>
                 \A i \in 1..THRESHOLD :
                    Push(kept, t)[i] = IF i < THRESHOLD THEN kept[i + 1] ELSE t
  <1>1. THRESHOLD \in Nat /\ THRESHOLD > 0
    BY ContentionAssumption
  <1>2. CASE Len(kept) < THRESHOLD
    BY <1>1, <1>2 DEF Push
  <1>3. CASE Len(kept) = THRESHOLD
    <2>1. kept # << >>
      BY <1>1, <1>3
    <2>2. /\ Tail(kept) \in Seq(Nat)
          /\ Len(Tail(kept)) = THRESHOLD - 1
          /\ \A i \in 1..(THRESHOLD - 1) : Tail(kept)[i] = kept[i + 1]
      BY <2>1, <1>1, <1>3
    <2>3. Push(kept, t) = Append(Tail(kept), t)
      BY <1>1, <1>3 DEF Push
    <2> QED
      BY <2>2, <2>3, <1>1, <1>3
  <1> QED
    BY <1>1, <1>2, <1>3

(* After an eviction at time t the ring buffer still remembers the history, *)
(* and it is full exactly when the history is contended.                    *)
LEMMA EvictionStep ==
    ASSUME NEW times \in Seq(Nat), NEW ring \in Seq(Nat), NEW t \in Nat,
           NEW k \in 0..Len(ring), NEW kept \in Seq(Nat),
           Len(ring) <= THRESHOLD,
           Remembers(ring, times, t),
           EvictionStops(ring, k, t - WINDOW),
           Len(kept) = Len(ring) - k,
           \A i \in 1..(Len(ring) - k) : kept[i] = ring[k + i]
    PROVE  /\ Len(kept) <= THRESHOLD
           /\ Remembers(kept, times, t)
           /\ Len(kept) >= THRESHOLD
                 <=> /\ Len(times) >= THRESHOLD
                     /\ times[Len(times) - THRESHOLD + 1] >= t - WINDOW
  <1> DEFINE d == Len(times) - Len(ring)
             e == Len(times) - Len(kept)
  <1>1. /\ THRESHOLD \in Nat /\ THRESHOLD > 0
        /\ t - WINDOW \in Int
        /\ Len(times) \in Nat
        /\ Len(ring) \in Nat
    BY ContentionAssumption
  <1>t. \A i \in 1..Len(times) : times[i] \in Nat
    OBVIOUS
  <1>2. /\ Len(kept) = Len(ring) - k
        /\ \A i \in 1..(Len(ring) - k) : kept[i] = ring[k + i]
    OBVIOUS
  <1>3. /\ Len(ring) <= Len(times)
        /\ \A i \in 1..Len(ring) : ring[i] = times[d + i]
    BY DEF Remembers, Suffix
  <1>4. /\ \A i \in 1..k : ring[i] < t - WINDOW
        /\ k < Len(ring) => ring[k + 1] >= t - WINDOW
    BY DEF EvictionStops
  <1>5. /\ d \in Nat /\ e \in Nat /\ e = d + k
        /\ Len(kept) <= THRESHOLD
        /\ Len(kept) <= Len(times)
    BY <1>1, <1>2, <1>3
  <1>6. Len(ring) < THRESHOLD => \A i \in 1..d : times[i] < t - WINDOW
    BY DEF Remembers, ForgotOnlyOld
  <1>7. \A i, j \in 1..Len(times) : i <= j => times[i] <= times[j]
    BY DEF Remembers, Chronological
  <1>8. Suffix(kept, times)
    <2>1. ASSUME NEW i \in 1..Len(kept) PROVE kept[i] = times[e + i]
      <3>1. k + i \in 1..Len(ring) /\ d + (k + i) = e + i /\ i \in 1..(Len(ring) - k)
        BY <1>1, <1>2, <1>5
      <3> HIDE DEF d, e
      <3> QED
        BY <3>1, <1>2, <1>3
    <2> QED
      BY <2>1, <1>5 DEF Suffix
  <1> HIDE DEF d, e
  <1>9. Len(kept) < THRESHOLD => \A i \in 1..e : times[i] < t - WINDOW
    <2> SUFFICES ASSUME Len(kept) < THRESHOLD, NEW i \in 1..e
                 PROVE  times[i] < t - WINDOW
      OBVIOUS
    <2>1. CASE i > d
      <3>1. i - d \in 1..k /\ i - d \in 1..Len(ring) /\ d + (i - d) = i
        BY <2>1, <1>1, <1>5
      <3>2. ring[i - d] < t - WINDOW /\ ring[i - d] = times[d + (i - d)]
        BY <3>1, <1>3, <1>4 DEF d
      <3> QED
        BY <3>1, <3>2
    <2>2. CASE i <= d /\ Len(ring) < THRESHOLD
      BY <2>2, <1>5, <1>6
    <2>3. CASE i <= d /\ ~(Len(ring) < THRESHOLD)
      <3>1. 1 \in 1..k /\ 1 \in 1..Len(ring)
        BY <2>3, <1>1, <1>2
      <3>2. ring[1] < t - WINDOW /\ ring[1] = times[d + 1]
        BY <3>1, <1>3, <1>4 DEF d
      <3>3. d + 1 \in 1..Len(times) /\ i \in 1..Len(times) /\ i <= d + 1
        <4>1. d + 1 <= Len(times) /\ d + 1 >= 1
          BY <2>3, <1>1, <1>5 DEF d
        <4> HIDE DEF d
        <4> QED
          BY <2>3, <4>1, <1>1, <1>5
      <3>4. times[i] <= times[d + 1] /\ times[i] \in Nat /\ times[d + 1] \in Nat
        BY <3>3, <1>7, <1>t
      <3> QED
        BY <3>2, <3>4, <1>1
    <2>4. i > d \/ i <= d
      <3>1. i \in Int /\ d \in Int
        BY <1>5
      <3> QED
        BY <3>1
    <2> QED
      BY <2>1, <2>2, <2>3, <2>4
  <1>10. Remembers(kept, times, t)
    BY <1>8, <1>9 DEF Remembers, ForgotOnlyOld, e
  <1>11. CASE Len(kept) >= THRESHOLD
    <2>1. k = 0 /\ Len(ring) = THRESHOLD
      BY <1>11, <1>1, <1>2
    <2>2. ring[1] >= t - WINDOW
      BY <2>1, <1>1, <1>4
    <2>3. ring[1] = times[d + 1] /\ d + 1 = Len(times) - THRESHOLD + 1
      BY <2>1, <1>1, <1>3 DEF d
    <2> QED
      BY <1>5, <1>10, <1>11, <2>1, <2>2, <2>3, <1>3
  <1>12. CASE Len(kept) < THRESHOLD
    <2>1. ASSUME Len(times) >= THRESHOLD
          PROVE  ~(times[Len(times) - THRESHOLD + 1] >= t - WINDOW)
      <3>1. /\ Len(times) - THRESHOLD + 1 \in 1..e
            /\ Len(times) - THRESHOLD + 1 \in 1..Len(times)
        BY <2>1, <1>12, <1>1 DEF e
      <3>2. times[Len(times) - THRESHOLD + 1] < t - WINDOW
        BY <3>1, <1>9, <1>12
      <3>3. times[Len(times) - THRESHOLD + 1] \in Nat
        BY <3>1, <1>t
      <3> QED
        BY <3>2, <3>3, <1>1
    <2> QED
      BY <2>1, <1>1, <1>5, <1>10, <1>12
  <1> QED
    BY <1>1, <1>2, <1>11, <1>12

(* Pushing the present time keeps the ring buffer the memory of a history  *)
(* with that time added.                                                   *)
LEMMA PushStep ==
    ASSUME NEW times \in Seq(Nat), NEW kept \in Seq(Nat), NEW t \in Nat,
           Len(kept) <= THRESHOLD,
           Remembers(kept, times, t)
    PROVE  Remembers(Push(kept, t), Append(times, t), t)
  <1> DEFINE ring2 == Push(kept, t)
             times2 == Append(times, t)
             e == Len(times) - Len(kept)
  <1>1. /\ THRESHOLD \in Nat /\ THRESHOLD > 0
        /\ t - WINDOW \in Int
        /\ Len(times) \in Nat
        /\ Len(kept) \in Nat
    BY ContentionAssumption
  <1>2. /\ Len(times2) = Len(times) + 1
        /\ \A i \in 1..Len(times) : times2[i] = times[i]
        /\ times2[Len(times) + 1] = t
    OBVIOUS
  <1>3. /\ Len(kept) < THRESHOLD =>
              /\ Len(ring2) = Len(kept) + 1
              /\ \A i \in 1..Len(ring2) :
                    ring2[i] = IF i <= Len(kept) THEN kept[i] ELSE t
        /\ Len(kept) = THRESHOLD =>
              /\ Len(ring2) = THRESHOLD
              /\ \A i \in 1..THRESHOLD :
                    ring2[i] = IF i < THRESHOLD THEN kept[i + 1] ELSE t
    <2>1. /\ Len(ring2) = IF Len(kept) < THRESHOLD THEN Len(kept) + 1 ELSE THRESHOLD
          /\ Len(kept) < THRESHOLD =>
                \A i \in 1..Len(ring2) :
                   ring2[i] = IF i <= Len(kept) THEN kept[i] ELSE t
          /\ Len(kept) = THRESHOLD =>
                \A i \in 1..THRESHOLD :
                   ring2[i] = IF i < THRESHOLD THEN kept[i + 1] ELSE t
      BY PushKeepsLatest
    <2> HIDE DEF ring2
    <2> QED
      BY <2>1, <1>1
  <1> HIDE DEF ring2, times2
  <1>l. /\ Len(times2) = Len(times) + 1
        /\ Len(kept) < THRESHOLD => Len(ring2) = Len(kept) + 1
        /\ Len(kept) = THRESHOLD => Len(ring2) = THRESHOLD
    BY <1>2, <1>3
  <1>e. e \in Nat
    BY <1>1 DEF Remembers, Suffix
  <1>4. /\ e \in Nat
        /\ \A i \in 1..Len(kept) : kept[i] = times[e + i]
    BY <1>1 DEF Remembers, Suffix
  <1>5. Chronological(times2, t)
    <2>1. /\ \A i \in 1..Len(times) : times[i] <= t
          /\ \A i, j \in 1..Len(times) : i <= j => times[i] <= times[j]
      BY DEF Remembers, Chronological
    <2>2. ASSUME NEW i \in 1..Len(times2) PROVE times2[i] <= t
      <3>1. CASE i = Len(times) + 1
        BY <3>1, <1>2
      <3>2. CASE i # Len(times) + 1
        <4>1. i \in 1..Len(times)
          BY <3>2, <1>1, <1>l
        <4> QED
          BY <4>1, <2>1, <1>2
      <3> QED
        BY <3>1, <3>2
    <2>3. ASSUME NEW i \in 1..Len(times2), NEW j \in 1..Len(times2), i <= j
          PROVE  times2[i] <= times2[j]
      <3>1. CASE j = Len(times) + 1
        BY <3>1, <2>2, <1>2
      <3>2. CASE j # Len(times) + 1
        <4>1. i \in 1..Len(times) /\ j \in 1..Len(times)
          BY <2>3, <3>2, <1>1, <1>2
        <4> QED
          BY <4>1, <2>1, <2>3, <1>2
      <3> QED
        BY <3>1, <3>2
    <2> QED
      BY <2>2, <2>3 DEF Chronological
  <1>6. CASE Len(kept) < THRESHOLD
    <2>1. /\ Len(times2) - Len(ring2) = e
          /\ Len(ring2) = Len(kept) + 1
          /\ Len(ring2) <= Len(times2)
      BY <1>6, <1>1, <1>l, <1>e
    <2>2. ASSUME NEW i \in 1..Len(ring2) PROVE ring2[i] = times2[e + i]
      <3>1. CASE i <= Len(kept)
        <4>1. i \in 1..Len(kept) /\ e + i \in 1..Len(times)
          BY <3>1, <1>1, <1>4
        <4>2. ring2[i] = kept[i]
          BY <3>1, <1>3, <1>6
        <4> HIDE DEF e
        <4> QED
          BY <4>1, <4>2, <1>2, <1>4
      <3>2. CASE i = Len(kept) + 1
        <4>1. e + i = Len(times) + 1
          BY <3>2, <1>1
        <4>2. ring2[i] = t
          BY <3>2, <1>1, <1>3, <1>6
        <4> QED
          BY <4>1, <4>2, <1>2
      <3> QED
        BY <3>1, <3>2, <2>1, <1>1
    <2>3. \A i \in 1..e : times2[i] < t - WINDOW
      <3>1. \A i \in 1..e : times[i] < t - WINDOW /\ i \in 1..Len(times)
        BY <1>1, <1>4, <1>6 DEF Remembers, ForgotOnlyOld
      <3> HIDE DEF e
      <3> QED
        BY <3>1, <1>2
    <2> QED
      BY <1>5, <2>1, <2>2, <2>3 DEF Remembers, Suffix, ForgotOnlyOld, ring2, times2
  <1>7. CASE Len(kept) = THRESHOLD
    <2>1. /\ Len(times2) - Len(ring2) = e + 1
          /\ Len(ring2) = THRESHOLD
          /\ Len(ring2) <= Len(times2)
      BY <1>7, <1>1, <1>l, <1>e
    <2>2. ASSUME NEW i \in 1..Len(ring2) PROVE ring2[i] = times2[(e + 1) + i]
      <3>1. CASE i < THRESHOLD
        <4>1. /\ i + 1 \in 1..Len(kept)
              /\ e + (i + 1) = (e + 1) + i
              /\ e + (i + 1) \in 1..Len(times)
          BY <3>1, <1>1, <1>4, <1>7
        <4>2. ring2[i] = kept[i + 1]
          BY <3>1, <2>1, <1>3, <1>7
        <4> HIDE DEF e
        <4> QED
          BY <4>1, <4>2, <1>2, <1>4
      <3>2. CASE i = THRESHOLD
        <4>1. (e + 1) + i = Len(times) + 1
          BY <3>2, <1>1, <1>7
        <4>2. ring2[i] = t
          BY <3>2, <1>1, <1>3, <1>7
        <4> QED
          BY <4>1, <4>2, <1>2
      <3> QED
        BY <3>1, <3>2, <2>1, <1>1
    <2> QED
      <3>1. Suffix(ring2, times2)
        BY <2>1, <2>2 DEF Suffix
      <3>2. ForgotOnlyOld(ring2, times2, t)
        BY <2>1, <1>1 DEF ForgotOnlyOld
      <3> QED
        BY <3>1, <3>2, <1>5 DEF Remembers, ring2, times2
  <1> QED
    BY <1>1, <1>6, <1>7

(* A 412 that goes through the hint keeps the invariant, and its marker    *)
(* says whether the page is contended.                                     *)
LEMMA TranslatedStep ==
    ASSUME Inv, NEW m \in Names, Translated(m)
    PROVE  /\ Inv'
           /\ hinted' = Contended(counted[m])
  <1>1. /\ counted[m] \in Seq(Nat)
        /\ log[m] \in Seq(Nat)
        /\ Len(log[m]) <= THRESHOLD
        /\ now \in Nat
        /\ Remembers(log[m], counted[m], now)
        /\ THRESHOLD \in Nat /\ THRESHOLD > 0
    BY ContentionAssumption DEF Inv, TypeOK
  <1>2. PICK k \in 0..Len(log[m]) :
            LET kept == SubSeq(log[m], k + 1, Len(log[m])) IN
            /\ EvictionStops(log[m], k, now - WINDOW)
            /\ hinted' = (Len(kept) >= THRESHOLD)
            /\ log' = [log EXCEPT ![m] = Push(kept, now)]
    BY DEF Translated
  <1> DEFINE kept == SubSeq(log[m], k + 1, Len(log[m]))
  <1>3. kept \in Seq(Nat)
    BY <1>1
  <1>4. /\ Len(kept) <= THRESHOLD
        /\ Remembers(kept, counted[m], now)
        /\ Len(kept) >= THRESHOLD
              <=> /\ Len(counted[m]) >= THRESHOLD
                  /\ counted[m][Len(counted[m]) - THRESHOLD + 1] >= now - WINDOW
    <2>1. /\ Len(kept) = Len(log[m]) - k
          /\ \A i \in 1..(Len(log[m]) - k) : kept[i] = log[m][k + i]
      BY <1>1, KeptSuffix
    <2> HIDE DEF kept
    <2> QED
      BY <2>1, <1>1, <1>2, <1>3, EvictionStep
  <1>5. /\ log' = [log EXCEPT ![m] = Push(kept, now)]
        /\ hinted' = (Len(kept) >= THRESHOLD)
        /\ counted' = [counted EXCEPT ![m] = Append(counted[m], now)]
        /\ now' = now
    BY <1>2 DEF Translated
  <1> HIDE DEF kept
  <1>6. hinted' = Contended(counted[m])
    <2>1. Contended(counted[m]) <=> Len(kept) >= THRESHOLD
      BY <1>4 DEF Contended
    <2>2. Contended(counted[m]) \in BOOLEAN
      BY DEF Contended
    <2>3. (Len(kept) >= THRESHOLD) \in BOOLEAN
      BY <1>1, <1>3
    <2> QED
      BY <2>1, <2>2, <2>3, <1>5
  <1>7. Remembers(Push(kept, now), Append(counted[m], now), now)
    BY <1>1, <1>3, <1>4, PushStep
  <1>8. Push(kept, now) \in Seq(Nat) /\ Len(Push(kept, now)) <= THRESHOLD
    <2>1. /\ Push(kept, now) \in Seq(Nat)
          /\ Len(Push(kept, now)) =
                IF Len(kept) < THRESHOLD THEN Len(kept) + 1 ELSE THRESHOLD
      BY <1>1, <1>3, <1>4, PushKeepsLatest
    <2> QED
      BY <2>1, <1>1, <1>3
  <1>9. TypeOK'
    <2>1. log' \in [Names -> Seq(Nat)] /\ \A n \in Names : Len(log'[n]) <= THRESHOLD
      BY <1>5, <1>8 DEF Inv, TypeOK
    <2>2. counted' \in [Names -> Seq(Nat)]
      BY <1>1, <1>5 DEF Inv, TypeOK
    <2>3. hinted' \in BOOLEAN /\ now' \in Nat
      BY <1>1, <1>5
    <2> QED
      BY <2>1, <2>2, <2>3 DEF TypeOK
  <1>10. ASSUME NEW n \in Names PROVE Remembers(log'[n], counted'[n], now')
    BY <1>5, <1>7 DEF Inv, TypeOK
  <1> QED
    BY <1>6, <1>9, <1>10 DEF Inv

-------------------------------------------------------------------------------
(* Empty buffers and empty histories are in agreement.                     *)
LEMMA InitInv == Init => Inv
  <1> SUFFICES ASSUME Init PROVE Inv
    OBVIOUS
  <1>1. TypeOK
    <2>1. THRESHOLD \in Nat /\ << >> \in Seq(Nat)
      BY ContentionAssumption
    <2>2. \A n \in Names : Len(log[n]) = 0
      BY DEF Init
    <2>3. ASSUME NEW n \in Names PROVE Len(log[n]) <= THRESHOLD
      <3>1. 0 <= THRESHOLD
        BY <2>1
      <3> QED
        BY <2>2, <3>1
    <2> QED
      BY <2>1, <2>3 DEF Init, TypeOK
  <1>2. Remembers(<< >>, << >>, 0)
    BY DEF Remembers, Chronological, Suffix, ForgotOnlyOld
  <1> QED
    BY <1>1, <1>2 DEF Init, Inv

(* Time passes: what was too old stays too old. *)
LEMMA PassStep == Inv /\ Pass => Inv'
  <1> SUFFICES ASSUME Inv, Pass PROVE Inv'
    OBVIOUS
  <1>1. TypeOK'
    BY DEF Inv, TypeOK, Pass
  <1>2. ASSUME NEW n \in Names PROVE Remembers(log[n], counted[n], now + 1)
    <2>1. /\ counted[n] \in Seq(Nat) /\ log[n] \in Seq(Nat) /\ now \in Nat
          /\ Remembers(log[n], counted[n], now)
      BY DEF Inv, TypeOK
    <2>2. \A i \in 1..Len(counted[n]) : counted[n][i] \in Nat
      BY <2>1
    <2>3. Chronological(counted[n], now + 1)
      BY <2>1, <2>2 DEF Remembers, Chronological
    <2>4. \A i \in 1..(Len(counted[n]) - Len(log[n])) : i \in 1..Len(counted[n])
      BY <2>1
    <2>5. ForgotOnlyOld(log[n], counted[n], now + 1)
      BY <2>1, <2>2, <2>4, ContentionAssumption DEF Remembers, ForgotOnlyOld
    <2> QED
      BY <2>1, <2>3, <2>5 DEF Remembers
  <1> QED
    BY <1>1, <1>2 DEF Inv, Pass

(* The clock, the eviction loop and the push keep each buffer a suffix of  *)
(* its history that has forgotten nothing that matters.                    *)
LEMMA NextInv == Inv /\ [Next]_vars => Inv'
  <1> SUFFICES ASSUME Inv, [Next]_vars PROVE Inv'
    OBVIOUS
  <1>1. CASE Pass
    BY <1>1, PassStep
  <1>2. ASSUME NEW n \in Names, Translated(n) PROVE Inv'
    BY <1>2, TranslatedStep
  <1>3. CASE InOwnWords
    BY <1>3 DEF InOwnWords, Inv, TypeOK
  <1>4. CASE UNCHANGED vars
    BY <1>4 DEF Inv, TypeOK, vars
  <1> QED
    BY <1>1, <1>2, <1>3, <1>4 DEF Next

(* The counters of all pages stay bounded and well-typed. *)
THEOREM TypeCorrect == Spec => []TypeOK
  <1>1. Inv => TypeOK
    BY DEF Inv
  <1> QED
    BY <1>1, InitInv, NextInv, PTL DEF Spec

(* The marker is on a 412 exactly when the page is contended, for every    *)
(* threshold, window and number of 412s (_contention_hint).                *)
THEOREM MarkerExact == Spec => HintIsExact
  <1> DEFINE Exact == \A n \in Names :
                         counted'[n] # counted[n] => hinted' = Contended(counted[n])
  <1>1. Inv /\ [Next]_vars => [Exact]_vars
    <2> SUFFICES ASSUME Inv, Next, NEW n \in Names, counted'[n] # counted[n]
                 PROVE  hinted' = Contended(counted[n])
      OBVIOUS
    <2>1. CASE Pass
      BY <2>1 DEF Pass
    <2>2. CASE InOwnWords
      BY <2>2 DEF InOwnWords
    <2>3. ASSUME NEW m \in Names, Translated(m)
          PROVE  hinted' = Contended(counted[n])
      <3>1. m = n
        BY <2>3 DEF Translated, Inv, TypeOK
      <3> QED
        BY <2>3, <3>1, TranslatedStep
    <2> QED
      BY <2>1, <2>2, <2>3 DEF Next
  <1> QED
    BY <1>1, InitInv, NextInv, PTL DEF Spec, HintIsExact
===============================================================================
