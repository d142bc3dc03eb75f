--------------------------- MODULE OutboundProofs ---------------------------
(***************************************************************************)
(* Theorems about Outbound, for any number of workers, any refill rates    *)
(* and any back-off: the types, the pacing of the calls and of the         *)
(* requests, how long a call keeps trying before its row fails, and that   *)
(* a row sees each call as one step (IngestRow).                           *)
(***************************************************************************)
EXTENDS Outbound, FiniteSetTheorems, TLAPS

USE OutboundAssumption

LEMMA Backoffs ==
  /\ NextDelay(Initial) \in Nat
  /\ FullBackoff \in Nat /\ Outlasted \in Nat
  /\ Initial <= FullBackoff
  /\ 4 * Outlasted >= 3 * FullBackoff
BY DEF NextDelay, FullBackoff, Outlasted

LEMMA NextDelayTyped ==
  ASSUME NEW d \in Nat
  PROVE  NextDelay(d) \in Nat
BY DEF NextDelay

LEMMA JitterTyped ==
  ASSUME NEW d \in Nat, NEW t \in Jitter(d)
  PROVE  t \in Nat /\ 4 * t >= 3 * d
BY DEF Jitter

LEMMA BurstTyped == Burst \in Nat
BY FS_CardinalityType DEF Burst

LEMMA Caps ==
  ASSUME NEW l \in Limited
  PROVE  Refill[l] \in Nat \ {0} /\ Burst * Refill[l] \in Nat
BY BurstTyped

LEMMA CallTyped ==
  ASSUME NEW c \in Calls
  PROVE  /\ Service(c) \in {"llm", "mapbox", "cms"}
         /\ After(c) \in Calls \cup {"none"}
         /\ c # "write" => After(c) \in Calls
         /\ Service(c) \in Limited => c \in Retried
BY DEF Calls, Service, After, Limited, Retried

-----------------------------------------------------------------------------
(* What is true of one worker.  Where it is in the call fixes how many      *)
(* attempts it has made, which delay comes next and how long it has slept   *)
(* at least: counting what is left of the sleep, three quarters of the      *)
(* delays that began.                                                       *)
InStep(c, p, a, d, t, o, g) ==
  /\ p \in {"wait", "ready", "sent", "sleep", "over"} => c \in Calls
  /\ p = "wait" => a = 0 /\ d = Initial /\ Service(c) \in Limited
  /\ p = "ready" =>
       \/ a = 0 /\ d = Initial
       \/ a = 1 /\ d = NextDelay(Initial) /\ 4 * g >= 3 * Initial
       \/ a = 2 /\ 4 * g >= 3 * FullBackoff
  /\ p = "sent" =>
       \/ a = 1 /\ d = Initial
       \/ a = 2 /\ d = NextDelay(Initial) /\ 4 * g >= 3 * Initial
       \/ a = 3 /\ 4 * g >= 3 * FullBackoff
  /\ p = "sleep" =>
       \/ a = 1 /\ d = Initial /\ 4 * (g + t) >= 3 * Initial
       \/ a = 2 /\ d = NextDelay(Initial) /\ 4 * (g + t) >= 3 * FullBackoff
  /\ p = "over" /\ o = "transient" /\ c \in Retried =>
       a = MaxAttempts /\ 4 * g >= 3 * FullBackoff

WorkerInStep(w) ==
  InStep(call[w], pc[w], attempt[w], delay[w], timer[w], outcome[w], slept[w])

(* The inductive invariant: a bucket pays for every call the window counts. *)
Inv ==
  /\ TypeOK
  /\ \A w \in Workers : WorkerInStep(w)
  /\ window.admitted * Refill[window.service] + level[window.service]
       <= Burst * Refill[window.service] + window.elapsed

LEMMA InitTyped == Init => TypeOK
<1> SUFFICES ASSUME Init PROVE TypeOK
  OBVIOUS
<1>1. WorkerTypeOK
  BY Backoffs DEF Init, WorkerTypeOK, MaxAttempts, Results
<1>2. \A l \in Limited : level[l] \in 0 .. Burst * Refill[l]
  BY Caps DEF Init
<1>3. window \in [service : Limited, elapsed : 0 .. MaxWindow, admitted : Nat, sent : Nat]
  BY DEF Init, Watch
<1> QED
  BY <1>1, <1>2, <1>3 DEF Init, TypeOK

LEMMA InitInv == Init => Inv
<1> SUFFICES ASSUME Init PROVE Inv
  OBVIOUS
<1>1. \A w \in Workers : WorkerInStep(w)
  BY DEF Init, WorkerInStep, InStep
<1>2. PICK l \in Limited : window = Watch(l)
  BY DEF Init
<1>3. /\ window.service = l /\ window.admitted = 0 /\ window.elapsed = 0
      /\ level[l] = Burst * Refill[l]
  BY <1>2 DEF Init, Watch
<1>4. 0 * Refill[l] = 0
  BY Caps
<1> QED
  BY <1>1, <1>3, <1>4, InitTyped, Caps DEF Inv

-----------------------------------------------------------------------------
(* A step of one worker leaves the others where they are. *)
Others(w) ==
  \A v \in Workers \ {w} :
    /\ call'[v] = call[v] /\ pc'[v] = pc[v] /\ attempt'[v] = attempt[v]
    /\ delay'[v] = delay[v] /\ timer'[v] = timer[v]
    /\ outcome'[v] = outcome[v] /\ slept'[v] = slept[v]

LEMMA OthersInStep ==
  ASSUME NEW w \in Workers, Inv, Others(w), WorkerInStep(w)'
  PROVE  \A v \in Workers : WorkerInStep(v)'
BY DEF Inv, Others, WorkerInStep

LEMMA Turned ==
  ASSUME NEW w \in Workers, Inv, NEW c \in Calls \cup {"none"},
         NEW label \in {"idle", "wait", "ready"}, TurnTo(w, c, label),
         label # "idle" => c \in Calls,
         label = "wait" => Service(c) \in Limited
  PROVE  WorkerTypeOK' /\ Others(w) /\ WorkerInStep(w)'
<1> USE DEF Inv, TypeOK, WorkerTypeOK, TurnTo, Goto
<1>1. WorkerTypeOK'
  BY Backoffs DEF MaxAttempts, Results
<1>2. Others(w)
  BY DEF Others
<1>3. /\ call'[w] = c /\ pc'[w] = label /\ attempt'[w] = 0 /\ delay'[w] = Initial
      /\ outcome'[w] = "none"
  OBVIOUS
<1> HIDE DEF Inv, TypeOK, WorkerTypeOK, TurnTo, Goto
<1>4. WorkerInStep(w)'
  BY <1>3 DEF WorkerInStep, InStep
<1> QED
  BY <1>1, <1>2, <1>4

LEMMA Ended ==
  ASSUME NEW w \in Workers, Inv, NEW result \in Results, End(w, result),
         pc[w] \in {"wait", "ready", "sent", "sleep"},
         result = "transient" => pc[w] = "sent" /\ ~Repeats(w)
  PROVE  WorkerTypeOK' /\ Others(w) /\ WorkerInStep(w)'
<1>1. WorkerTypeOK'
  BY Backoffs DEF Inv, TypeOK, WorkerTypeOK, End, Goto
<1>2. Others(w)
  BY DEF Inv, TypeOK, WorkerTypeOK, End, Goto, Others
<1>3. /\ call'[w] = call[w] /\ pc'[w] = "over" /\ attempt'[w] = attempt[w]
      /\ outcome'[w] = result /\ (result = "transient" => slept'[w] = slept[w])
  BY DEF Inv, TypeOK, WorkerTypeOK, End, Goto
<1>4. WorkerInStep(w)
  BY DEF Inv
<1>5. call[w] \in Calls
  BY <1>4 DEF WorkerInStep, InStep
<1>6. result = "transient" /\ call[w] \in Retried =>
        attempt[w] = MaxAttempts /\ 4 * slept[w] >= 3 * FullBackoff
  <2> SUFFICES ASSUME result = "transient", call[w] \in Retried
               PROVE  attempt[w] = MaxAttempts /\ 4 * slept[w] >= 3 * FullBackoff
    OBVIOUS
  <2>1. pc[w] = "sent" /\ ~(attempt[w] < MaxAttempts)
    BY DEF Repeats
  <2> QED
    BY <1>4, <2>1 DEF WorkerInStep, InStep, MaxAttempts
<1>7. WorkerInStep(w)'
  BY <1>3, <1>5, <1>6 DEF WorkerInStep, InStep
<1> QED
  BY <1>1, <1>2, <1>7

-----------------------------------------------------------------------------
(* The steps that start or end a call. *)

LEMMA BeginInv ==
  ASSUME NEW w \in Workers, Inv, NEW c \in Calls, Begin(w, c),
         UNCHANGED <<cancelled, level, window>>
  PROVE  Inv'
<1> DEFINE label == IF Service(c) \in Limited THEN "wait" ELSE "ready"
<1>1. label \in {"idle", "wait", "ready"} /\ (label = "wait" => Service(c) \in Limited)
  OBVIOUS
<1>2. TurnTo(w, c, label)
  BY DEF Begin
<1> HIDE DEF label
<1>3. WorkerTypeOK' /\ Others(w) /\ WorkerInStep(w)'
  BY <1>1, <1>2, Turned
<1>4. \A v \in Workers : WorkerInStep(v)'
  BY <1>3, OthersInStep
<1> QED
  BY <1>3, <1>4 DEF Inv, TypeOK

LEMMA EndInv ==
  ASSUME NEW w \in Workers, Inv, NEW result \in Results, End(w, result),
         pc[w] \in {"wait", "ready", "sent", "sleep"},
         result = "transient" => pc[w] = "sent" /\ ~Repeats(w),
         UNCHANGED <<cancelled, level, window>>
  PROVE  Inv'
<1>1. WorkerTypeOK' /\ Others(w) /\ WorkerInStep(w)'
  BY Ended
<1>2. \A v \in Workers : WorkerInStep(v)'
  BY <1>1, OthersInStep
<1> QED
  BY <1>1, <1>2 DEF Inv, TypeOK

LEMMA CallKnown ==
  ASSUME NEW w \in Workers, Inv, pc[w] \in {"wait", "ready", "sent", "sleep", "over"}
  PROVE  call[w] \in Calls
BY DEF Inv, WorkerInStep, InStep

LEMMA BeginRowInv ==
  ASSUME NEW w \in Workers, Inv, BeginRow(w)
  PROVE  Inv'
BY BeginInv DEF BeginRow, Calls

LEMMA NextCallInv ==
  ASSUME NEW w \in Workers, Inv, NextCall(w)
  PROVE  Inv'
<1>1. call[w] \in Calls /\ call[w] # "write"
  BY CallKnown DEF NextCall, Continues
<1>2. After(call[w]) \in Calls
  BY <1>1, CallTyped
<1> QED
  BY <1>2, BeginInv DEF NextCall

LEMMA EndRowInv ==
  ASSUME NEW w \in Workers, Inv, EndRow(w)
  PROVE  Inv'
<1>1. TurnTo(w, "none", "idle") /\ UNCHANGED <<cancelled, level, window>>
  BY DEF EndRow
<1>2. WorkerTypeOK' /\ Others(w) /\ WorkerInStep(w)'
  BY <1>1, Turned
<1>3. \A v \in Workers : WorkerInStep(v)'
  BY <1>2, OthersInStep
<1> QED
  BY <1>1, <1>2, <1>3 DEF Inv, TypeOK

LEMMA UnadmittedInv ==
  ASSUME NEW w \in Workers, Inv, Unadmitted(w)
  PROVE  Inv'
BY EndInv DEF Unadmitted, Results

LEMMA GiveUpInv ==
  ASSUME NEW w \in Workers, Inv, GiveUp(w)
  PROVE  Inv'
BY EndInv DEF GiveUp, Results

LEMMA NoLocationInv ==
  ASSUME NEW w \in Workers, Inv, NoLocation(w)
  PROVE  Inv'
BY EndInv DEF NoLocation, Results

-----------------------------------------------------------------------------
(* The steps within a call. *)

LEMMA AdmitInv ==
  ASSUME NEW w \in Workers, Inv, Admit(w)
  PROVE  Inv'
<1> DEFINE l == Service(call[w])
<1>1. WorkerInStep(w) /\ TypeOK
  BY DEF Inv
<1>2. call[w] \in Calls /\ l \in Limited /\ attempt[w] = 0 /\ delay[w] = Initial
  BY <1>1 DEF Admit, WorkerInStep, InStep
<1>3. WorkerTypeOK'
  BY <1>1 DEF TypeOK, WorkerTypeOK, Admit, Goto
<1>4. Others(w)
  BY <1>1 DEF TypeOK, WorkerTypeOK, Admit, Goto, Others
<1>5. /\ call'[w] = call[w] /\ pc'[w] = "ready" /\ attempt'[w] = 0
      /\ delay'[w] = Initial
  BY <1>1, <1>2 DEF TypeOK, WorkerTypeOK, Admit, Goto
<1>6. WorkerInStep(w)'
  BY <1>2, <1>5 DEF WorkerInStep, InStep
<1>7. \A v \in Workers : WorkerInStep(v)'
  BY <1>4, <1>6, OthersInStep
<1> HIDE DEF l
<1>8. level' = Charge(l) /\ level[l] >= Refill[l]
  BY DEF Admit, l
<1>9. /\ DOMAIN level' = Limited
      /\ level'[l] = level[l] - Refill[l]
      /\ \A k \in Limited \ {l} : level'[k] = level[k]
  BY <1>1, <1>2, <1>8 DEF TypeOK, Charge
<1>10. \A k \in Limited : level'[k] \in 0 .. Burst * Refill[k]
  <2> SUFFICES ASSUME NEW k \in Limited PROVE level'[k] \in 0 .. Burst * Refill[k]
    OBVIOUS
  <2>1. level[k] \in 0 .. Burst * Refill[k] /\ Burst * Refill[k] \in Nat
        /\ Refill[k] \in Nat
    BY <1>1, Caps DEF TypeOK
  <2> QED
    BY <2>1, <1>8, <1>9
<1>11. /\ window.service \in Limited /\ window.admitted \in Nat
       /\ window.elapsed \in 0 .. MaxWindow /\ window.sent \in Nat
       /\ window' = [window EXCEPT !.admitted =
                       IF window.service = l THEN @ + 1 ELSE @]
  BY <1>1 DEF TypeOK, Admit, l
<1>12. /\ window' \in [service : Limited, elapsed : 0 .. MaxWindow,
                       admitted : Nat, sent : Nat]
       /\ window'.service = window.service /\ window'.elapsed = window.elapsed
       /\ window'.admitted =
            IF window.service = l THEN window.admitted + 1 ELSE window.admitted
  BY <1>1, <1>11 DEF TypeOK
<1>13. window'.admitted * Refill[window'.service] + level'[window'.service]
         <= Burst * Refill[window'.service] + window'.elapsed
  <2>1. window.admitted * Refill[window.service] + level[window.service]
          <= Burst * Refill[window.service] + window.elapsed
    BY DEF Inv
  <2>2. CASE window.service = l
    <3>1. Refill[l] \in Nat /\ Burst * Refill[l] \in Nat /\ level[l] \in Nat
      BY <1>1, <1>2, Caps DEF TypeOK
    <3>2. (window.admitted + 1) * Refill[l] = window.admitted * Refill[l] + Refill[l]
      BY <1>11, <3>1
    <3>3. window.admitted * Refill[l] \in Nat
      BY <1>11, <3>1
    <3> QED
      BY <2>1, <2>2, <3>1, <3>2, <3>3, <1>9, <1>11, <1>12
  <2>3. CASE window.service # l
    BY <2>1, <2>3, <1>9, <1>11, <1>12
  <2> QED
    BY <2>2, <2>3
<1>14. cancelled' \in BOOLEAN
  BY <1>1 DEF TypeOK, Admit
<1> QED
  BY <1>3, <1>7, <1>9, <1>10, <1>12, <1>13, <1>14 DEF Inv, TypeOK

LEMMA SendInv ==
  ASSUME NEW w \in Workers, Inv, Send(w)
  PROVE  Inv'
<1>1. WorkerInStep(w) /\ TypeOK
  BY DEF Inv
<1>2. call[w] \in Calls /\ attempt[w] \in 0 .. 2
  BY <1>1 DEF Send, WorkerInStep, InStep
<1>3. WorkerTypeOK'
  BY <1>1, <1>2 DEF TypeOK, WorkerTypeOK, Send, Goto, MaxAttempts
<1>4. Others(w)
  BY <1>1 DEF TypeOK, WorkerTypeOK, Send, Goto, Others
<1>5. /\ call'[w] = call[w] /\ pc'[w] = "sent" /\ attempt'[w] = attempt[w] + 1
      /\ delay'[w] = delay[w] /\ slept'[w] = slept[w]
  BY <1>1 DEF TypeOK, WorkerTypeOK, Send, Goto
<1>6. WorkerInStep(w)'
  BY <1>1, <1>2, <1>5 DEF WorkerInStep, InStep, Send
<1>7. \A v \in Workers : WorkerInStep(v)'
  BY <1>4, <1>6, OthersInStep
<1>8. /\ window' \in [service : Limited, elapsed : 0 .. MaxWindow,
                      admitted : Nat, sent : Nat]
      /\ window'.service = window.service /\ window'.elapsed = window.elapsed
      /\ window'.admitted = window.admitted
  BY <1>1 DEF TypeOK, Send
<1>9. level' = level /\ cancelled' = cancelled
  BY DEF Send
<1> QED
  BY <1>1, <1>3, <1>7, <1>8, <1>9 DEF Inv, TypeOK

LEMMA SleepInv ==
  ASSUME NEW w \in Workers, Inv, pc[w] = "sent", Repeats(w), Goto(w, "sleep"),
         NEW t \in Jitter(delay[w]), timer' = [timer EXCEPT ![w] = t],
         UNCHANGED <<call, attempt, delay, outcome, slept, cancelled, level, window>>
  PROVE  Inv'
<1>1. WorkerInStep(w) /\ TypeOK
  BY DEF Inv
<1>2. delay[w] \in Nat /\ slept[w] \in Nat /\ timer[w] \in Nat
  BY <1>1, Backoffs DEF TypeOK, WorkerTypeOK
<1>3. t \in Nat /\ 4 * t >= 3 * delay[w]
  BY <1>2, JitterTyped
<1>4. WorkerTypeOK'
  BY <1>1, <1>3 DEF TypeOK, WorkerTypeOK, Goto
<1>5. Others(w)
  BY <1>1 DEF TypeOK, WorkerTypeOK, Goto, Others
<1>6. pc'[w] = "sleep" /\ timer'[w] = t
  BY <1>1 DEF TypeOK, WorkerTypeOK, Goto
<1>7. WorkerInStep(w)'
  BY <1>1, <1>2, <1>3, <1>6, Backoffs
  DEF WorkerInStep, InStep, Repeats, MaxAttempts, FullBackoff
<1>8. \A v \in Workers : WorkerInStep(v)'
  BY <1>5, <1>7, OthersInStep
<1> QED
  BY <1>1, <1>4, <1>8 DEF Inv, TypeOK

LEMMA AnswerInv ==
  ASSUME NEW w \in Workers, Inv, Answer(w)
  PROVE  Inv'
<1>1. pc[w] = "sent" /\ UNCHANGED <<cancelled, level, window>>
  BY DEF Answer
<1>2. CASE \E result \in Results \ {"transient"} : End(w, result)
  BY <1>1, <1>2, EndInv
<1>3. CASE ~Repeats(w) /\ End(w, "transient")
  BY <1>1, <1>3, EndInv DEF Results
<1>4. CASE /\ Repeats(w)
           /\ Goto(w, "sleep")
           /\ \E t \in Jitter(delay[w]) : timer' = [timer EXCEPT ![w] = t]
           /\ UNCHANGED <<call, attempt, delay, outcome, slept>>
  BY <1>1, <1>4, SleepInv
<1> QED
  BY <1>2, <1>3, <1>4 DEF Answer, Results

LEMMA WakeInv ==
  ASSUME NEW w \in Workers, Inv, Wake(w)
  PROVE  Inv'
<1>1. WorkerInStep(w) /\ TypeOK
  BY DEF Inv
<1>2. delay[w] \in Nat /\ slept[w] \in Nat /\ timer[w] = 0
  BY <1>1, Backoffs DEF TypeOK, WorkerTypeOK, Wake
<1>3. WorkerTypeOK'
  BY <1>1, <1>2, NextDelayTyped DEF TypeOK, WorkerTypeOK, Wake, Goto
<1>4. Others(w)
  BY <1>1 DEF TypeOK, WorkerTypeOK, Wake, Goto, Others
<1>5. /\ call'[w] = call[w] /\ pc'[w] = "ready" /\ attempt'[w] = attempt[w]
      /\ delay'[w] = NextDelay(delay[w]) /\ slept'[w] = slept[w]
  BY <1>1 DEF TypeOK, WorkerTypeOK, Wake, Goto
<1>6. WorkerInStep(w)'
  BY <1>1, <1>2, <1>5 DEF WorkerInStep, InStep, Wake
<1>7. \A v \in Workers : WorkerInStep(v)'
  BY <1>4, <1>6, OthersInStep
<1> QED
  BY <1>1, <1>3, <1>7 DEF Inv, TypeOK, Wake

LEMMA WorkerStepInv ==
  ASSUME NEW w \in Workers, Inv, WorkerStep(w)
  PROVE  Inv'
<1>1. CASE BeginRow(w)
  BY <1>1, BeginRowInv
<1>2. CASE Admit(w)
  BY <1>2, AdmitInv
<1>3. CASE Unadmitted(w)
  BY <1>3, UnadmittedInv
<1>4. CASE Send(w)
  BY <1>4, SendInv
<1>5. CASE Answer(w)
  BY <1>5, AnswerInv
<1>6. CASE Wake(w)
  BY <1>6, WakeInv
<1>7. CASE GiveUp(w)
  BY <1>7, GiveUpInv
<1>8. CASE NoLocation(w)
  BY <1>8, NoLocationInv
<1>9. CASE NextCall(w)
  BY <1>9, NextCallInv
<1>10. CASE EndRow(w)
  BY <1>10, EndRowInv
<1> QED
  BY <1>1, <1>2, <1>3, <1>4, <1>5, <1>6, <1>7, <1>8, <1>9, <1>10 DEF WorkerStep

-----------------------------------------------------------------------------
(* Time. *)

(* What has been slept and what is left of the sleep add up. *)
LEMMA TickInStep ==
  ASSUME NEW w \in Workers, Inv, Tick
  PROVE  WorkerInStep(w)' /\ timer'[w] \in Nat /\ slept'[w] \in 0 .. Outlasted
<1>1. WorkerInStep(w) /\ TypeOK
  BY DEF Inv
<1>2. /\ timer[w] \in Nat /\ slept[w] \in 0 .. Outlasted /\ attempt[w] \in 0 .. MaxAttempts
      /\ FullBackoff \in Nat /\ Outlasted \in Nat /\ Initial <= FullBackoff
      /\ 4 * Outlasted >= 3 * FullBackoff
  BY <1>1, Backoffs DEF TypeOK, WorkerTypeOK
<1>3. /\ timer'[w] = IF timer[w] > 0 THEN timer[w] - 1 ELSE 0
      /\ slept'[w] = IF timer[w] > 0 /\ slept[w] < Outlasted THEN slept[w] + 1 ELSE slept[w]
      /\ UNCHANGED <<call, pc, attempt, delay, outcome>>
  BY DEF Tick
<1>4. /\ slept'[w] \in 0 .. Outlasted /\ slept'[w] >= slept[w] /\ timer'[w] \in Nat
      /\ \/ slept'[w] + timer'[w] >= slept[w] + timer[w]
         \/ slept'[w] = Outlasted
  BY <1>2, <1>3
<1>5. CASE pc[w] = "sleep"
  BY <1>1, <1>2, <1>3, <1>4, <1>5 DEF WorkerInStep, InStep
<1>6. CASE pc[w] # "sleep"
  BY <1>1, <1>2, <1>3, <1>4, <1>6 DEF WorkerInStep, InStep
<1> QED
  BY <1>4, <1>5, <1>6

LEMMA TickInv ==
  ASSUME Inv, Tick
  PROVE  Inv'
<1>1. TypeOK
  BY DEF Inv
<1>2. WorkerTypeOK'
  <2>1. /\ timer' \in [Workers -> Nat]
        /\ slept' \in [Workers -> 0 .. Outlasted]
    BY TickInStep DEF Tick
  <2> QED
    BY <1>1, <2>1 DEF TypeOK, WorkerTypeOK, Tick
<1>3. \A l \in Limited : /\ level'[l] \in 0 .. Burst * Refill[l]
                         /\ level'[l] <= level[l] + 1
  <2> SUFFICES ASSUME NEW l \in Limited
               PROVE  level'[l] \in 0 .. Burst * Refill[l] /\ level'[l] <= level[l] + 1
    OBVIOUS
  <2>1. Burst * Refill[l] \in Nat /\ level[l] \in 0 .. Burst * Refill[l]
    BY <1>1, Caps DEF TypeOK
  <2>2. level'[l] = IF level[l] < Burst * Refill[l] THEN level[l] + 1 ELSE level[l]
    BY DEF Tick, Earned
  <2> QED
    BY <2>1, <2>2
<1>4. /\ window' \in [service : Limited, elapsed : 0 .. MaxWindow,
                      admitted : Nat, sent : Nat]
      /\ window'.service = window.service /\ window'.elapsed = window.elapsed + 1
      /\ window'.admitted = window.admitted
      /\ window.service \in Limited /\ window.elapsed \in Nat /\ window.admitted \in Nat
  BY <1>1 DEF TypeOK, Tick
<1>5. window'.admitted * Refill[window'.service] + level'[window'.service]
        <= Burst * Refill[window'.service] + window'.elapsed
  <2>1. /\ window.admitted * Refill[window.service] \in Nat
        /\ Burst * Refill[window.service] \in Nat
        /\ level[window.service] \in Nat
        /\ level'[window.service] \in Nat
        /\ level'[window.service] <= level[window.service] + 1
    BY <1>1, <1>3, <1>4, Caps DEF TypeOK
  <2>2. window.admitted * Refill[window.service] + level[window.service]
          <= Burst * Refill[window.service] + window.elapsed
    BY DEF Inv
  <2> QED
    BY <1>4, <2>1, <2>2
<1>6. DOMAIN level' = Limited /\ cancelled' \in BOOLEAN
  BY <1>1 DEF TypeOK, Tick
<1>7. \A w \in Workers : WorkerInStep(w)'
  BY TickInStep
<1> QED
  BY <1>2, <1>3, <1>4, <1>5, <1>6, <1>7 DEF Inv, TypeOK

(* A watch that begins has counted nothing. *)
LEMMA WatchedInv ==
  ASSUME NEW l \in Limited, Inv, window' = Watch(l), UNCHANGED <<worker, level>>,
         cancelled' \in BOOLEAN
  PROVE  Inv'
<1>1. TypeOK' /\ \A w \in Workers : WorkerInStep(w)'
  BY DEF Inv, TypeOK, WorkerTypeOK, WorkerInStep, Watch, worker
<1>2. window'.service = l /\ window'.admitted = 0 /\ window'.elapsed = 0
  BY DEF Watch
<1>3. 0 * Refill[l] = 0 /\ level[l] \in 0 .. Burst * Refill[l] /\ Burst * Refill[l] \in Nat
  BY Caps DEF Inv, TypeOK
<1>4. 0 * Refill[l] + level[l] <= Burst * Refill[l] + 0
  BY <1>3
<1> QED
  BY <1>1, <1>2, <1>4 DEF Inv

LEMMA TerminateInv ==
  ASSUME Inv, Terminate
  PROVE  Inv'
<1>1. window.service \in Limited
  BY DEF Inv, TypeOK
<1> QED
  BY <1>1, WatchedInv DEF Terminate

LEMMA ObserveInv ==
  ASSUME NEW l \in Limited, Inv, Observe(l)
  PROVE  Inv'
<1>1. cancelled \in BOOLEAN
  BY DEF Inv, TypeOK
<1> QED
  BY <1>1, WatchedInv DEF Observe

LEMMA StutterInv ==
  ASSUME Inv, UNCHANGED vars
  PROVE  Inv'
BY DEF Inv, TypeOK, WorkerTypeOK, WorkerInStep, vars, worker

LEMMA NextInv ==
  ASSUME Inv, [Next]_vars
  PROVE  Inv'
BY WorkerStepInv, TickInv, TerminateInv, ObserveInv, StutterInv DEF Next

(* The inductive invariant holds: attempts, delays and the time a service   *)
(* has been failing keep step, and the bucket pays for the calls begun.     *)
THEOREM InvHolds == Spec => []Inv
<1>1. Init => Inv
  BY InitInv
<1>2. Inv /\ [Next]_vars => Inv'
  BY NextInv
<1> QED
  BY <1>1, <1>2, PTL DEF Spec

-----------------------------------------------------------------------------
(* Every variable keeps its type: no call is tried more often than the      *)
(* policy says, and no bucket is overdrawn or overfull.                     *)
THEOREM TypesHold == Spec => []TypeOK
<1>1. Inv => TypeOK
  BY DEF Inv
<1> QED
  BY <1>1, InvHolds, PTL

(* A row fails for a transient reason only when its service was down at     *)
(* both ends of three quarters of the back-off, whatever the jitter chose.  *)
THEOREM BlipsOutlasted == Spec => []OutlastsBlips
<1>1. Inv => OutlastsBlips
  BY DEF Inv, WorkerInStep, InStep, OutlastsBlips
<1> QED
  BY <1>1, InvHolds, PTL

-----------------------------------------------------------------------------
(* The requests.  Every call under way has attempts left: they are paid for *)
(* by its admission, or by the worker's share when the watch began.         *)

Underway(w) ==
  pc[w] \in {"ready", "sent", "sleep"} /\ Service(call[w]) = window.service

(* The workers that have not made their n-th attempt yet. *)
Before(n) == {w \in Workers : Underway(w) /\ attempt[w] < n}

(* The attempts left, counted by their number. *)
AttemptsLeft == Cardinality(Before(1)) + Cardinality(Before(2)) + Cardinality(Before(3))

Paid == window.sent + AttemptsLeft <= 3 * (window.admitted + Cardinality(Workers))

LEMMA Counted ==
  ASSUME NEW n
  PROVE  /\ Before(n) \subseteq Workers /\ IsFiniteSet(Before(n))
         /\ Cardinality(Before(n)) \in Nat
         /\ Cardinality(Before(n)) <= Cardinality(Workers)
         /\ Cardinality(Workers) \in Nat
<1>1. Before(n) \subseteq Workers
  BY DEF Before
<1> QED
  BY <1>1, FS_Subset, FS_CardinalityType

LEMMA CountedNext ==
  ASSUME NEW n
  PROVE  /\ Before(n)' \subseteq Workers /\ IsFiniteSet(Before(n)')
         /\ Cardinality(Before(n)') \in Nat
<1>1. Before(n)' \subseteq Workers
  BY DEF Before
<1> QED
  BY <1>1, FS_Subset, FS_CardinalityType

LEMMA CountShrinks ==
  ASSUME NEW n, Before(n)' \subseteq Before(n)
  PROVE  Cardinality(Before(n)') <= Cardinality(Before(n))
BY Counted, FS_Subset

LEMMA CountGrows ==
  ASSUME NEW n, NEW w, Before(n)' \subseteq Before(n) \cup {w}
  PROVE  Cardinality(Before(n)') <= Cardinality(Before(n)) + 1
<1>1. /\ IsFiniteSet(Before(n) \cup {w})
      /\ Cardinality(Before(n) \cup {w}) <= Cardinality(Before(n)) + 1
      /\ Cardinality(Before(n)) \in Nat
  BY Counted, FS_AddElement
<1>2. /\ Cardinality(Before(n)') <= Cardinality(Before(n) \cup {w})
      /\ Cardinality(Before(n) \cup {w}) \in Nat
  BY <1>1, FS_Subset, FS_CardinalityType
<1> QED
  BY <1>1, <1>2, CountedNext

LEMMA CountDrops ==
  ASSUME NEW n, NEW w \in Before(n), Before(n)' \subseteq Before(n) \ {w}
  PROVE  Cardinality(Before(n)') <= Cardinality(Before(n)) - 1
<1>1. /\ IsFiniteSet(Before(n) \ {w})
      /\ Cardinality(Before(n) \ {w}) = Cardinality(Before(n)) - 1
  BY Counted, FS_RemoveElement
<1> QED
  BY <1>1, FS_Subset

(* Whatever only ends or continues calls keeps the balance. *)
LEMMA PaidStays ==
  ASSUME Inv, Paid, \A n \in 1 .. 3 : Before(n)' \subseteq Before(n),
         window'.sent = window.sent, window'.admitted = window.admitted
  PROVE  Paid'
<1>1. /\ Cardinality(Before(1)') <= Cardinality(Before(1))
      /\ Cardinality(Before(2)') <= Cardinality(Before(2))
      /\ Cardinality(Before(3)') <= Cardinality(Before(3))
  BY CountShrinks
<1>2. \A n \in 1 .. 3 : Cardinality(Before(n)) \in Nat /\ Cardinality(Before(n)') \in Nat
  BY Counted, CountedNext
<1>3. window.sent \in Nat /\ window.admitted \in Nat /\ Cardinality(Workers) \in Nat
  BY Counted DEF Inv, TypeOK
<1> QED
  BY <1>1, <1>2, <1>3 DEF Paid, AttemptsLeft

LEMMA InitPaid == Init => Paid
<1> SUFFICES ASSUME Init PROVE Paid
  OBVIOUS
<1>1. window.sent = 0 /\ window.admitted = 0
  BY DEF Init, Watch
<1>2. \A n \in 1 .. 3 : /\ Cardinality(Before(n)) \in Nat
                        /\ Cardinality(Before(n)) <= Cardinality(Workers)
                        /\ Cardinality(Workers) \in Nat
  BY Counted
<1> QED
  BY <1>1, <1>2 DEF Paid, AttemptsLeft

LEMMA WatchedPaid ==
  ASSUME NEW l \in Limited, window' = Watch(l)
  PROVE  Paid'
<1>1. window'.sent = 0 /\ window'.admitted = 0
  BY DEF Watch
<1>2. \A n \in 1 .. 3 : /\ Cardinality(Before(n)') \in Nat
                        /\ Cardinality(Before(n)') <= Cardinality(Workers)
                        /\ Cardinality(Workers) \in Nat
  BY CountedNext, FS_Subset, FS_CardinalityType
<1> QED
  BY <1>1, <1>2 DEF Paid, AttemptsLeft

LEMMA AroundPaid ==
  ASSUME Inv, Terminate \/ \E l \in Limited : Observe(l)
  PROVE  Paid'
<1>1. \E l \in Limited : window' = Watch(l)
  BY DEF Inv, TypeOK, Terminate, Observe
<1> QED
  BY <1>1, WatchedPaid

LEMMA AdmitPaid ==
  ASSUME NEW w \in Workers, Inv, Paid, Admit(w)
  PROVE  Paid'
<1>1. /\ window.sent \in Nat /\ window.admitted \in Nat
      /\ window'.sent = window.sent
      /\ window'.service = window.service
      /\ window'.admitted = IF window.service = Service(call[w])
                            THEN window.admitted + 1 ELSE window.admitted
  BY DEF Inv, TypeOK, Admit
<1>2. \A v \in Workers : /\ call'[v] = call[v] /\ attempt'[v] = attempt[v]
                         /\ v # w => pc'[v] = pc[v]
  BY DEF Inv, TypeOK, WorkerTypeOK, Admit, Goto
<1>3. CASE window.service = Service(call[w])
  <2>1. \A n \in 1 .. 3 : Before(n)' \subseteq Before(n) \cup {w}
    BY <1>1, <1>2 DEF Before, Underway
  <2>2. /\ Cardinality(Before(1)') <= Cardinality(Before(1)) + 1
        /\ Cardinality(Before(2)') <= Cardinality(Before(2)) + 1
        /\ Cardinality(Before(3)') <= Cardinality(Before(3)) + 1
    BY <2>1, CountGrows
  <2>3. \A n \in 1 .. 3 : /\ Cardinality(Before(n)) \in Nat
                          /\ Cardinality(Before(n)') \in Nat
                          /\ Cardinality(Workers) \in Nat
    BY Counted, CountedNext
  <2> QED
    BY <1>1, <1>3, <2>2, <2>3 DEF Paid, AttemptsLeft
<1>4. CASE window.service # Service(call[w])
  <2>1. \A n \in 1 .. 3 : Before(n)' \subseteq Before(n)
    BY <1>1, <1>2, <1>4 DEF Before, Underway
  <2> QED
    BY <1>1, <1>4, <2>1, PaidStays
<1> QED
  BY <1>3, <1>4

LEMMA SendPaid ==
  ASSUME NEW w \in Workers, Inv, Paid, Send(w)
  PROVE  Paid'
<1>1. /\ window.sent \in Nat /\ window.admitted \in Nat
      /\ window'.admitted = window.admitted
      /\ window'.service = window.service
      /\ window'.sent = IF window.service = Service(call[w])
                        THEN window.sent + 1 ELSE window.sent
  BY DEF Inv, TypeOK, Send
<1>2. \A v \in Workers : /\ call'[v] = call[v]
                         /\ v # w => pc'[v] = pc[v] /\ attempt'[v] = attempt[v]
  BY DEF Inv, TypeOK, WorkerTypeOK, Send, Goto
<1>3. attempt[w] \in 0 .. 2 /\ pc[w] = "ready" /\ attempt'[w] = attempt[w] + 1
  <2>1. WorkerInStep(w) /\ pc[w] = "ready"
    BY DEF Inv, Send
  <2>2. attempt'[w] = attempt[w] + 1
    BY DEF Inv, TypeOK, WorkerTypeOK, Send
  <2> QED
    BY <2>1, <2>2 DEF WorkerInStep, InStep
<1>4. \A n \in 1 .. 3 : Before(n)' \subseteq Before(n)
  BY <1>1, <1>2, <1>3 DEF Before, Underway
<1>5. CASE window.service = Service(call[w])
  <2>0. PICK m \in 1 .. 3 : m = attempt[w] + 1
    BY <1>3
  <2>1. w \in Before(m)
    BY <1>3, <1>5, <2>0 DEF Before, Underway
  <2>2. Before(m)' \subseteq Before(m) \ {w}
    BY <1>3, <1>4, <2>0 DEF Before
  <2>3. Cardinality(Before(m)') <= Cardinality(Before(m)) - 1
    BY <2>1, <2>2, CountDrops
  <2>4. /\ Cardinality(Before(1)') <= Cardinality(Before(1))
        /\ Cardinality(Before(2)') <= Cardinality(Before(2))
        /\ Cardinality(Before(3)') <= Cardinality(Before(3))
    BY <1>4, CountShrinks
  <2>5. \A n \in 1 .. 3 : /\ Cardinality(Before(n)) \in Nat
                          /\ Cardinality(Before(n)') \in Nat
                          /\ Cardinality(Workers) \in Nat
    BY Counted, CountedNext
  <2>6. AttemptsLeft' <= AttemptsLeft - 1
    <3>1. CASE m = 1
      BY <2>3, <2>4, <2>5, <3>1 DEF AttemptsLeft
    <3>2. CASE m = 2
      BY <2>3, <2>4, <2>5, <3>2 DEF AttemptsLeft
    <3>3. CASE m = 3
      BY <2>3, <2>4, <2>5, <3>3 DEF AttemptsLeft
    <3> QED
      BY <3>1, <3>2, <3>3
  <2>7. AttemptsLeft \in Nat /\ AttemptsLeft' \in Nat
    BY <2>5 DEF AttemptsLeft
  <2> QED
    BY <1>1, <1>5, <2>5, <2>6, <2>7 DEF Paid
<1>6. CASE window.service # Service(call[w])
  BY <1>1, <1>4, <1>6, PaidStays
<1> QED
  BY <1>5, <1>6

(* The other steps bring no call of the watched service under way. *)
LEMMA WorkerStepPaid ==
  ASSUME NEW w \in Workers, Inv, Paid, WorkerStep(w)
  PROVE  Paid'
<1>1. CASE Admit(w)
  BY <1>1, AdmitPaid
<1>2. CASE Send(w)
  BY <1>2, SendPaid
<1>3. ASSUME UNCHANGED window, NEW c, NEW label, TurnTo(w, c, label),
             label = "ready" => Service(c) \notin Limited,
             label \notin {"sent", "sleep"}
      PROVE  Paid'
  <2>1. \A v \in Workers \ {w} : /\ call'[v] = call[v] /\ pc'[v] = pc[v]
                                 /\ attempt'[v] = attempt[v]
    BY <1>3 DEF TurnTo, Goto, Inv, TypeOK, WorkerTypeOK
  <2>2. pc'[w] = label /\ call'[w] = c
    BY <1>3 DEF TurnTo, Goto, Inv, TypeOK, WorkerTypeOK
  <2>3. window.service \in Limited
    BY DEF Inv, TypeOK
  <2>4. \A n \in 1 .. 3 : Before(n)' \subseteq Before(n)
    BY <1>3, <2>1, <2>2, <2>3 DEF Before, Underway
  <2> QED
    BY <1>3, <2>4, PaidStays
<1>4. ASSUME UNCHANGED window, NEW result, End(w, result)
      PROVE  Paid'
  <2>1. \A v \in Workers : /\ call'[v] = call[v] /\ attempt'[v] = attempt[v]
                           /\ v # w => pc'[v] = pc[v]
    BY <1>4 DEF End, Goto, Inv, TypeOK, WorkerTypeOK
  <2>2. pc'[w] = "over"
    BY <1>4 DEF End, Goto, Inv, TypeOK, WorkerTypeOK
  <2>3. \A n \in 1 .. 3 : Before(n)' \subseteq Before(n)
    BY <1>4, <2>1, <2>2 DEF Before, Underway
  <2> QED
    BY <1>4, <2>3, PaidStays
<1>5. ASSUME UNCHANGED <<window, call, attempt>>, NEW label, Goto(w, label),
             pc[w] \in {"sent", "sleep"}
      PROVE  Paid'
  <2>1. \A v \in Workers : v # w => pc'[v] = pc[v]
    BY <1>5 DEF Goto, Inv, TypeOK, WorkerTypeOK
  <2>2. \A n \in 1 .. 3 : Before(n)' \subseteq Before(n)
    BY <1>5, <2>1 DEF Before, Underway
  <2> QED
    BY <1>5, <2>2, PaidStays
<1>6. CASE BeginRow(w)
  BY <1>6, <1>3 DEF BeginRow, Begin
<1>7. CASE NextCall(w)
  BY <1>7, <1>3 DEF NextCall, Begin
<1>8. CASE EndRow(w)
  BY <1>8, <1>3 DEF EndRow
<1>9. CASE Unadmitted(w)
  BY <1>9, <1>4 DEF Unadmitted
<1>10. CASE GiveUp(w)
  BY <1>10, <1>4 DEF GiveUp
<1>11. CASE NoLocation(w)
  BY <1>11, <1>4 DEF NoLocation
<1>12. CASE Wake(w)
  BY <1>12, <1>5 DEF Wake
<1>13. CASE Answer(w)
  BY <1>13, <1>4, <1>5 DEF Answer
<1> QED
  BY <1>1, <1>2, <1>6, <1>7, <1>8, <1>9, <1>10, <1>11, <1>12, <1>13 DEF WorkerStep

LEMMA TimePaid ==
  ASSUME Inv, Paid, Tick \/ UNCHANGED vars
  PROVE  Paid'
<1>1. /\ UNCHANGED <<call, pc, attempt>>
      /\ window'.sent = window.sent /\ window'.admitted = window.admitted
      /\ window'.service = window.service
  BY DEF Inv, TypeOK, Tick, vars, worker
<1>2. \A n \in 1 .. 3 : Before(n)' \subseteq Before(n)
  BY <1>1 DEF Before, Underway
<1> QED
  BY <1>1, <1>2, PaidStays

(* All workers together begin no more calls of a limited service than its   *)
(* bucket allows, and the service sees no more requests than the attempts   *)
(* of those calls and of the ones under way when one began to look.         *)
THEOREM RequestsArePaced == Spec => []RequestsPaced
<1>1. Init => Paid
  BY InitPaid
<1>2. Inv /\ Paid /\ [Next]_vars => Paid'
  BY WorkerStepPaid, TimePaid, AroundPaid DEF Next
<1>3. Inv /\ Paid => RequestsPaced
  <2> SUFFICES ASSUME Inv, Paid PROVE RequestsPaced
    OBVIOUS
  <2>1. CallsPaced
    <3>1. /\ window.admitted * Refill[window.service] \in Nat
          /\ Burst * Refill[window.service] \in Nat
          /\ level[window.service] \in Nat
          /\ window.elapsed \in Nat
      BY Caps DEF Inv, TypeOK
    <3> QED
      BY <3>1 DEF Inv, CallsPaced
  <2>2. AttemptsLeft \in Nat
    BY Counted DEF AttemptsLeft
  <2>3. window.sent \in Nat /\ window.admitted \in Nat /\ Cardinality(Workers) \in Nat
    BY Counted DEF Inv, TypeOK
  <2> QED
    BY <2>1, <2>2, <2>3 DEF Paid, RequestsPaced, MaxAttempts
<1> QED
  BY <1>1, <1>2, <1>3, InvHolds, PTL DEF Spec

-----------------------------------------------------------------------------
(* The contract of a row.  A worker without a call is idle, a call has its  *)
(* outcome when it is over, and a write never comes to a second attempt.    *)

InRow(w) ==
  /\ call[w] = "none" <=> pc[w] = "idle"
  /\ outcome[w] = "none" <=> pc[w] # "over"
  /\ call[w] = "write" =>
       /\ pc[w] \in {"ready", "sent", "over"}
       /\ pc[w] = "ready" => attempt[w] = 0
       /\ pc[w] = "sent" => attempt[w] = 1
       /\ outcome[w] = "ok" => attempt[w] = 1

Rows == \A w \in Workers : InRow(w)

RowStep == [Row!Next]_(Row!vars)

LEMMA InitRows == Init => Rows /\ Row!Init
BY DEF Init, Rows, InRow, Row!Init

LEMMA OthersInRow ==
  ASSUME NEW w \in Workers, Rows, Others(w), InRow(w)'
  PROVE  Rows'
BY DEF Rows, Others, InRow

(* A step that changes no call, no outcome and no attempt of a write is     *)
(* none of the row's.                                                       *)
LEMMA Hidden ==
  ASSUME UNCHANGED <<call, outcome>>,
         \A v \in Workers : call[v] = "write" => attempt'[v] = attempt[v]
  PROVE  RowStep
BY DEF RowStep, Row!vars

(* Turning to another call is making it. *)
LEMMA TurnedRow ==
  ASSUME NEW w \in Workers, Inv, Rows, NEW c \in Calls \cup {"none"},
         NEW label \in {"idle", "wait", "ready"}, TurnTo(w, c, label),
         c = "none" <=> label = "idle",
         c = "write" => label = "ready"
  PROVE  Row!Make(w, c) /\ Rows'
<1> USE DEF Inv, TypeOK, WorkerTypeOK, TurnTo, Goto
<1>1. Row!Make(w, c)
  BY DEF Row!Make
<1>2. Others(w)
  BY DEF Others
<1>3. call'[w] = c /\ pc'[w] = label /\ attempt'[w] = 0 /\ outcome'[w] = "none"
  OBVIOUS
<1> HIDE DEF Inv, TypeOK, WorkerTypeOK, TurnTo, Goto
<1>4. InRow(w)'
  BY <1>3 DEF InRow
<1> QED
  BY <1>1, <1>2, <1>4, OthersInRow

(* The end of a call is its answer. *)
LEMMA EndedRow ==
  ASSUME NEW w \in Workers, Inv, Rows, NEW result \in Results \ {"none"},
         End(w, result), pc[w] \in {"wait", "ready", "sent", "sleep"},
         result = "ok" /\ call[w] = "write" => pc[w] = "sent"
  PROVE  RowStep /\ Rows'
<1>1. /\ call' = call /\ attempt' = attempt
      /\ outcome' = [outcome EXCEPT ![w] = result]
      /\ outcome'[w] = result /\ pc'[w] = "over"
  BY DEF End, Goto, Inv, TypeOK, WorkerTypeOK
<1>2. call[w] # "none" /\ outcome[w] = "none"
  BY DEF Rows, InRow
<1>3. result = "ok" /\ call[w] = "write" => attempt[w] = 1
  BY DEF Rows, InRow
<1>4. Row!Return(w)
  <2>1. result \in {"ok"} \cup (Results \ {"none", "ok"})
    OBVIOUS
  <2> QED
    BY <1>1, <1>2, <1>3, <2>1 DEF Row!Return
<1>5. RowStep
  BY <1>4 DEF RowStep, Row!Next
<1>6. Others(w)
  BY DEF Others, End, Goto, Inv, TypeOK, WorkerTypeOK
<1>7. InRow(w)'
  BY <1>1, <1>2, <1>3 DEF InRow
<1> QED
  BY <1>5, <1>6, <1>7, OthersInRow

(* The steps inside a call are hidden, but for the request of a write.      *)

LEMMA BegunRow ==
  ASSUME NEW w \in Workers, Inv, Rows, NEW c \in Calls, Begin(w, c)
  PROVE  Row!Make(w, c) /\ Rows'
<1> DEFINE label == IF Service(c) \in Limited THEN "wait" ELSE "ready"
<1>1. /\ label \in {"idle", "wait", "ready"}
      /\ c = "none" <=> label = "idle"
      /\ c = "write" => label = "ready"
  BY DEF Calls, Service, Limited
<1>2. TurnTo(w, c, label)
  BY DEF Begin
<1> HIDE DEF label
<1> QED
  BY <1>1, <1>2, TurnedRow

LEMMA BeginRowRow ==
  ASSUME NEW w \in Workers, Inv, Rows, BeginRow(w)
  PROVE  RowStep /\ Rows'
<1>1. Begin(w, "lookup") /\ call[w] = "none"
  BY DEF BeginRow, Rows, InRow
<1>2. Row!Make(w, "lookup") /\ Rows'
  BY <1>1, BegunRow DEF Calls
<1> QED
  BY <1>1, <1>2 DEF RowStep, Row!Next, Row!Take

LEMMA NextCallRow ==
  ASSUME NEW w \in Workers, Inv, Rows, NextCall(w)
  PROVE  RowStep /\ Rows'
<1>1. call[w] \in Calls \ {"write"} /\ pc[w] = "over" /\ outcome[w] \in Results \ {"none"}
  BY CallKnown DEF NextCall, Continues, Rows, InRow, Inv, TypeOK, WorkerTypeOK
<1>2. /\ call[w] \in DOMAIN Row!Following
      /\ Row!Following[call[w]] = After(call[w])
      /\ After(call[w]) \in Calls
  BY <1>1 DEF Row!Following, After, Calls
<1>3. outcome[w] = "ok" \/ (outcome[w] \in Results \ {"none", "ok"} /\ call[w] = "geocode")
  <2>1. outcome[w] = "ok" \/ call[w] = "geocode"
    BY DEF NextCall, Continues
  <2> QED
    BY <1>1, <2>1
<1>4. Row!Make(w, After(call[w])) /\ Rows'
  BY <1>2, BegunRow DEF NextCall, Row!Make
<1>5. Row!Proceed(w)
  BY <1>2, <1>3, <1>4 DEF Row!Proceed, Row!Make
<1> QED
  BY <1>4, <1>5 DEF RowStep, Row!Next

LEMMA EndRowRow ==
  ASSUME NEW w \in Workers, Inv, Rows, EndRow(w)
  PROVE  RowStep /\ Rows'
<1>1. Row!Make(w, "none") /\ Rows'
  BY TurnedRow DEF EndRow
<1>2. outcome[w] # "none" /\ (outcome[w] = "ok" => call[w] \in {"lookup", "geocode", "write"})
  BY DEF EndRow, Continues, Rows, InRow
<1> QED
  BY <1>1, <1>2 DEF RowStep, Row!Next, Row!Leave

LEMMA UnadmittedRow ==
  ASSUME NEW w \in Workers, Inv, Rows, Unadmitted(w)
  PROVE  RowStep /\ Rows'
BY EndedRow DEF Unadmitted, Results

LEMMA GiveUpRow ==
  ASSUME NEW w \in Workers, Inv, Rows, GiveUp(w)
  PROVE  RowStep /\ Rows'
BY EndedRow DEF GiveUp, Results

LEMMA NoLocationRow ==
  ASSUME NEW w \in Workers, Inv, Rows, NoLocation(w)
  PROVE  RowStep /\ Rows'
BY EndedRow DEF NoLocation, Results

LEMMA AdmitRow ==
  ASSUME NEW w \in Workers, Inv, Rows, Admit(w)
  PROVE  RowStep /\ Rows'
<1>1. RowStep
  BY Hidden DEF Admit
<1>2. Others(w) /\ pc'[w] = "ready" /\ pc[w] = "wait"
      /\ call' = call /\ outcome' = outcome /\ attempt' = attempt
  BY DEF Admit, Goto, Others, Inv, TypeOK, WorkerTypeOK
<1>3. InRow(w)'
  BY <1>2 DEF Rows, InRow
<1> QED
  BY <1>1, <1>2, <1>3, OthersInRow

(* The first request of a write is the only one. *)
LEMMA SendRow ==
  ASSUME NEW w \in Workers, Inv, Rows, Send(w)
  PROVE  RowStep /\ Rows'
<1>1. /\ Others(w) /\ pc[w] = "ready" /\ pc'[w] = "sent"
      /\ call' = call /\ outcome' = outcome
      /\ attempt' = [attempt EXCEPT ![w] = @ + 1]
      /\ attempt'[w] = attempt[w] + 1
  BY DEF Send, Goto, Others, Inv, TypeOK, WorkerTypeOK
<1>2. InRow(w)'
  BY <1>1 DEF Rows, InRow
<1>3. ASSUME call[w] = "write" PROVE RowStep
  <2>1. attempt[w] = 0 /\ outcome[w] = "none"
    BY <1>1, <1>3 DEF Rows, InRow
  <2>2. Row!Write(w)
    <3>1. call[w] = "write" /\ attempt'[w] = 1 /\ call' = call
          /\ \A v \in Workers \ {w} : attempt'[v] = attempt[v]
      BY <1>1, <1>3, <2>1 DEF Others
    <3> QED
      BY <1>1, <2>1, <3>1 DEF Row!Write
  <2> QED
    BY <2>2 DEF RowStep, Row!Next
<1>4. ASSUME call[w] # "write" PROVE RowStep
  BY <1>1, <1>4, Hidden DEF Others
<1> QED
  BY <1>1, <1>2, <1>3, <1>4, OthersInRow

(* A write that fails is not repeated. *)
LEMMA AnswerRow ==
  ASSUME NEW w \in Workers, Inv, Rows, Answer(w)
  PROVE  RowStep /\ Rows'
<1>1. CASE \E result \in Results \ {"none"} : End(w, result)
  BY <1>1, EndedRow DEF Answer
<1>2. CASE ~\E result \in Results \ {"none"} : End(w, result)
  <2>1. /\ pc[w] = "sent" /\ Repeats(w) /\ Goto(w, "sleep")
        /\ UNCHANGED <<call, attempt, delay, outcome, slept>>
        /\ \E t \in Jitter(delay[w]) : timer' = [timer EXCEPT ![w] = t]
    BY <1>2 DEF Answer, Results
  <2>2. RowStep
    BY <2>1, Hidden
  <2>3. Others(w) /\ pc'[w] = "sleep"
    BY <2>1 DEF Goto, Others, Inv, TypeOK, WorkerTypeOK
  <2>4. call[w] # "write"
    BY <2>1 DEF Repeats, Retried
  <2>5. InRow(w)'
    BY <2>1, <2>3, <2>4 DEF Rows, InRow
  <2> QED
    BY <2>2, <2>3, <2>5, OthersInRow
<1> QED
  BY <1>1, <1>2

LEMMA WakeRow ==
  ASSUME NEW w \in Workers, Inv, Rows, Wake(w)
  PROVE  RowStep /\ Rows'
<1>1. RowStep
  BY Hidden DEF Wake
<1>2. /\ Others(w) /\ pc[w] = "sleep" /\ pc'[w] = "ready"
      /\ call' = call /\ outcome' = outcome /\ attempt' = attempt
  BY DEF Wake, Goto, Others, Inv, TypeOK, WorkerTypeOK
<1>3. InRow(w)'
  BY <1>2 DEF Rows, InRow
<1> QED
  BY <1>1, <1>2, <1>3, OthersInRow

LEMMA WorkerStepRow ==
  ASSUME NEW w \in Workers, Inv, Rows, WorkerStep(w)
  PROVE  RowStep /\ Rows'
BY BeginRowRow, AdmitRow, UnadmittedRow, SendRow, AnswerRow, WakeRow, GiveUpRow,
   NoLocationRow, NextCallRow, EndRowRow DEF WorkerStep

(* Time, the watch and the signal are no steps of a row. *)
LEMMA AroundRow ==
  ASSUME Inv, Rows,
         Tick \/ Terminate \/ (\E l \in Limited : Observe(l)) \/ UNCHANGED vars
  PROVE  RowStep /\ Rows'
<1>1. UNCHANGED <<call, pc, attempt, outcome>>
  BY DEF Tick, Terminate, Observe, vars, worker
<1> QED
  BY <1>1, Hidden DEF Rows, InRow

(* The calls, with their attempts, limiters, back-offs and cancellation, do *)
(* what Ingestion takes them for; in particular a write whose answer is     *)
(* lost is never sent a second time.                                        *)
THEOREM RowRefinement == Spec => ImplementsRow
<1>1. Init => Rows /\ Row!Init
  BY InitRows
<1>2. Inv /\ Rows /\ [Next]_vars => RowStep /\ Rows'
  BY WorkerStepRow, AroundRow DEF Next
<1>3. Inv /\ Rows /\ [Next]_vars => [Row!Next]_(Row!vars)
  BY <1>2 DEF RowStep
<1> QED
  BY <1>1, <1>2, <1>3, InvHolds, PTL DEF Spec, ImplementsRow, Row!Spec
=============================================================================
