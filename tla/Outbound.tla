------------------------------ MODULE Outbound ------------------------------
(***************************************************************************)
(* The HTTP calls of the ingestion job, attempt by attempt.  The workers   *)
(* of IngestUseCase (one goroutine per row, at most Concurrency at once)   *)
(* look a row up in the CMS, have its text read by the LLM, geocode it,    *)
(* search the CMS again and write the item.  LLM and Mapbox calls first    *)
(* wait for a token of a bucket all workers share; every call but the      *)
(* write goes through retry.Do, which repeats a transient failure after a  *)
(* back-off that doubles and is jittered by a quarter.                     *)
(*                                                                         *)
(* Ingestion has one step per call; this module is about what is inside.   *)
(* Time is counted in ticks, kept as the time that is left (timers) or has *)
(* been slept, never as a date.                                            *)
(***************************************************************************)
EXTENDS Integers, FiniteSets

CONSTANTS
  Workers,   (* the goroutines that may run at once                          *)
  Initial,   (* retry.DefaultPolicy.Initial, in ticks                        *)
  Ceiling,   (* retry.DefaultPolicy.Max, in ticks                            *)
  Refill,    (* [Limited -> ticks it takes to earn a token]                  *)
  MaxWindow, (* bound: how long the services are watched for, in ticks       *)
  Faults     (* the failures that may happen                                 *)

Limited == {"llm", "mapbox"}

FaultKinds ==
  { "down",     (* the service is down or overloaded, or the connection is  *)
    "refuse",   (* an answer that is final: 4xx, or a body that is no JSON  *)
    "timeout",  (* http.Client.Timeout passes before the answer is read     *)
    "term" }    (* SIGTERM cancels the context of the run                   *)

ASSUME OutboundAssumption ==
  /\ IsFiniteSet(Workers)
  /\ Initial \in Nat \ {0}
  /\ Ceiling \in Nat
  /\ Initial <= Ceiling
  /\ Refill \in [Limited -> Nat \ {0}]
  /\ MaxWindow \in Nat
  /\ Faults \subseteq FaultKinds

(* retry.DefaultPolicy.MaxAttempts. *)
MaxAttempts == 3

(* The tokens a full bucket holds: INGESTION_CONCURRENCY, as the workers. *)
Burst == Cardinality(Workers)

Calls == {"lookup", "complete", "geocode", "search", "write"}

Service(c) ==
  CASE c = "complete" -> "llm"
    [] c = "geocode" -> "mapbox"
    [] OTHER -> "cms"

(* Variant: doJSON goes through retry.Do as well. *)
RetriedAll == Calls

(* doJSON sends a POST or PATCH once; the LLM's POST is repeated like a GET. *)
Retried == Calls \ {"write"}

VARIABLES
  call,      (* [Workers -> the call it makes, or none]                      *)
  pc,        (* where the worker is in it                                    *)
  attempt,   (* requests sent for the call                                   *)
  delay,     (* retry.Do's delay before the jitter                           *)
  timer,     (* what is left of its sleep                                    *)
  outcome,   (* how the call ended                                           *)
  cancelled, (* the run's context is cancelled                               *)
  level,     (* [Limited -> ticks' worth of tokens in the bucket]            *)
  slept,     (* history: ticks the call has slept between its attempts, up  *)
             (* to Outlasted, while it may end in a transient failure        *)
  window     (* history: a limited service, watched for a while              *)

worker == <<call, pc, attempt, delay, timer, outcome, slept>>
vars == <<worker, cancelled, level, window>>

Watch(s) == [service |-> s, elapsed |-> 0, admitted |-> 0, sent |-> 0]

Init ==
  /\ call = [w \in Workers |-> "none"]
  /\ pc = [w \in Workers |-> "idle"]
  /\ attempt = [w \in Workers |-> 0]
  /\ delay = [w \in Workers |-> Initial]
  /\ timer = [w \in Workers |-> 0]
  /\ outcome = [w \in Workers |-> "none"]
  /\ slept = [w \in Workers |-> 0]
  /\ cancelled = FALSE
  /\ level = [l \in Limited |-> Burst * Refill[l]]
  /\ window \in {Watch(l) : l \in Limited}

Goto(w, label) == pc' = [pc EXCEPT ![w] = label]

-----------------------------------------------------------------------------
(* retry.Do. *)

NextDelay(d) == IF 2 * d > Ceiling THEN Ceiling ELSE 2 * d

(* Variant: the offset is drawn from the whole delay. *)
JitterFull(d) == 0 .. 2 * d

(* The sleeps jitter may choose: a quarter more or less than d. *)
Jitter(d) == {t \in 0 .. 2 * d : 3 * d <= 4 * t /\ 4 * t <= 5 * d}

(* A back-off that is over and has been waited out in full lasts this long  *)
(* before its jitter.                                                       *)
FullBackoff == Initial + NextDelay(Initial)

(* The ticks that make three quarters of it: a history counts no further. *)
Outlasted == (3 * FullBackoff + 3) \div 4

(* Variant: the bucket is asked before the work, and not charged for it. *)
AdmitFree(l) == level

(* rate.Limiter: one token leaves the bucket (external). *)
Charge(l) == [level EXCEPT ![l] = @ - Refill[l]]

(* The worker turns to c with nothing left of the call before. *)
TurnTo(w, c, label) ==
  /\ call' = [call EXCEPT ![w] = c]
  /\ Goto(w, label)
  /\ attempt' = [attempt EXCEPT ![w] = 0]
  /\ delay' = [delay EXCEPT ![w] = Initial]
  /\ timer' = [timer EXCEPT ![w] = 0]
  /\ outcome' = [outcome EXCEPT ![w] = "none"]
  /\ slept' = [slept EXCEPT ![w] = 0]

(* The call c begins: with Limiter.Wait, or at once. *)
Begin(w, c) == TurnTo(w, c, IF Service(c) \in Limited THEN "wait" ELSE "ready")

(* The call returns to processItem. *)
End(w, result) ==
  /\ Goto(w, "over")
  /\ outcome' = [outcome EXCEPT ![w] = result]
  /\ delay' = [delay EXCEPT ![w] = Initial]
  /\ timer' = [timer EXCEPT ![w] = 0]
  /\ slept' = [slept EXCEPT ![w] = IF result = "transient" THEN @ ELSE 0]
  /\ UNCHANGED <<call, attempt>>

(* Limiter.Wait gets its token. *)
Admit(w) ==
  LET l == Service(call[w]) IN
  /\ pc[w] = "wait"
  /\ ~cancelled
  /\ level[l] >= Refill[l]
  /\ level' = Charge(l)
  /\ Goto(w, "ready")
  /\ window' = [window EXCEPT !.admitted = IF window.service = l THEN @ + 1 ELSE @]
  /\ UNCHANGED <<call, attempt, delay, timer, outcome, slept, cancelled>>

(* The context is looked at, and the request goes out. *)
Send(w) ==
  /\ pc[w] = "ready"
  /\ ~cancelled
  /\ attempt' = [attempt EXCEPT ![w] = @ + 1]
  /\ Goto(w, "sent")
  /\ window' = [window EXCEPT !.sent =
                  IF window.service = Service(call[w]) THEN @ + 1 ELSE @]
  /\ UNCHANGED <<call, delay, timer, outcome, slept, cancelled, level>>

(* A transient failure is repeated while attempts are left. *)
Repeats(w) == call[w] \in Retried /\ attempt[w] < MaxAttempts

(* The answer of one attempt.  429, 5xx, a connection error and a body cut  *)
(* off are transient: KindExternal.  A timeout and a cancelled context are  *)
(* wrapped as KindExternal too, but ShouldRetry tells them apart by their   *)
(* cause: they end the call, like a refusal.                                *)
Answer(w) ==
  /\ pc[w] = "sent"
  /\ \/ End(w, "ok")
     \/ "refuse" \in Faults /\ End(w, "final")
     \/ "timeout" \in Faults /\ End(w, "final")
     \/ cancelled /\ End(w, "cancelled")
     \/ "down" \in Faults /\ ~Repeats(w) /\ End(w, "transient")
     \/ /\ "down" \in Faults
        /\ Repeats(w)
        /\ Goto(w, "sleep")
        /\ \E t \in Jitter(delay[w]) : timer' = [timer EXCEPT ![w] = t]
        /\ UNCHANGED <<call, attempt, delay, outcome, slept>>
  /\ UNCHANGED <<cancelled, level, window>>

(* time.After fires. *)
Wake(w) ==
  /\ pc[w] = "sleep"
  /\ timer[w] = 0
  /\ delay' = [delay EXCEPT ![w] = NextDelay(@)]
  /\ Goto(w, "ready")
  /\ UNCHANGED <<call, attempt, timer, outcome, slept, cancelled, level, window>>

(* Limiter.Wait returns without a token. *)
Unadmitted(w) ==
  /\ pc[w] = "wait"
  /\ cancelled
  /\ End(w, "unadmitted")
  /\ UNCHANGED <<cancelled, level, window>>

(* The check before an attempt, or the sleep, sees ctx.Done. *)
GiveUp(w) ==
  /\ pc[w] \in {"ready", "sleep"}
  /\ cancelled
  /\ End(w, "cancelled")
  /\ UNCHANGED <<cancelled, level, window>>

(* Geocode has its answer without a request: the LLM found no location. *)
NoLocation(w) ==
  /\ pc[w] = "ready"
  /\ call[w] = "geocode"
  /\ attempt[w] = 0
  /\ End(w, "ok")
  /\ UNCHANGED <<cancelled, level, window>>

-----------------------------------------------------------------------------
(* processItem. *)

(* The call that follows c in a row. *)
After(c) ==
  CASE c = "lookup" -> "complete"
    [] c = "complete" -> "geocode"
    [] c = "geocode" -> "search"
    [] c = "search" -> "write"
    [] OTHER -> "none"

(* A Mapbox call that fails gives way to the country's centroid; every      *)
(* other failure, that of Limiter.Wait included, is the end of the row.     *)
Continues(w) ==
  /\ call[w] # "write"
  /\ \/ outcome[w] = "ok"
     \/ call[w] = "geocode" /\ outcome[w] # "unadmitted"

(* A worker takes the next row of the feed. *)
BeginRow(w) ==
  /\ pc[w] = "idle"
  /\ Begin(w, "lookup")
  /\ UNCHANGED <<cancelled, level, window>>

NextCall(w) ==
  /\ pc[w] = "over"
  /\ Continues(w)
  /\ Begin(w, After(call[w]))
  /\ UNCHANGED <<cancelled, level, window>>

(* The row is written or has failed, the lookup found it, or nothing places *)
(* it: Mapbox does not, and there is no centroid to fall back on.           *)
EndRow(w) ==
  /\ pc[w] = "over"
  /\ ~Continues(w) \/ call[w] \in {"lookup", "geocode"}
  /\ TurnTo(w, "none", "idle")
  /\ UNCHANGED <<cancelled, level, window>>

-----------------------------------------------------------------------------
(* Time and the platform (external).  SIGTERM ends the watch and the clock: *)
(* a cancelled worker neither waits nor sends.                              *)

Earned(l) == IF level[l] < Burst * Refill[l] THEN level[l] + 1 ELSE level[l]

Tick ==
  /\ ~cancelled
  /\ window.elapsed < MaxWindow
  /\ window' = [window EXCEPT !.elapsed = @ + 1]
  /\ level' = [l \in Limited |-> Earned(l)]
  /\ timer' = [w \in Workers |-> IF timer[w] > 0 THEN timer[w] - 1 ELSE 0]
  /\ slept' = [w \in Workers |->
                IF timer[w] > 0 /\ slept[w] < Outlasted THEN slept[w] + 1 ELSE slept[w]]
  /\ UNCHANGED <<call, pc, attempt, delay, outcome, cancelled>>

Terminate ==
  /\ "term" \in Faults
  /\ ~cancelled
  /\ cancelled' = TRUE
  /\ window' = Watch(window.service)
  /\ UNCHANGED <<worker, level>>

(* The watch may begin at any time, on either service. *)
Observe(l) ==
  /\ ~cancelled
  /\ window' = Watch(l)
  /\ UNCHANGED <<worker, cancelled, level>>
-----------------------------------------------------------------------------
WorkerStep(w) ==
  \/ BeginRow(w)
  \/ Admit(w)
  \/ Unadmitted(w)
  \/ Send(w)
  \/ Answer(w)
  \/ Wake(w)
  \/ GiveUp(w)
  \/ NoLocation(w)
  \/ NextCall(w)
  \/ EndRow(w)

Next ==
  \/ \E w \in Workers : WorkerStep(w)
  \/ Tick
  \/ Terminate
  \/ \E l \in Limited : Observe(l)

Spec == Init /\ [][Next]_vars

-----------------------------------------------------------------------------
Results == {"none", "ok", "final", "transient", "cancelled", "unadmitted"}

WorkerTypeOK ==
  /\ call \in [Workers -> Calls \cup {"none"}]
  /\ pc \in [Workers -> {"idle", "wait", "ready", "sent", "sleep", "over"}]
  /\ attempt \in [Workers -> 0 .. MaxAttempts]
  /\ delay \in [Workers -> Nat]
  /\ timer \in [Workers -> Nat]
  /\ outcome \in [Workers -> Results]
  /\ slept \in [Workers -> 0 .. Outlasted]

(* Every variable stays within its type; in particular no call is tried     *)
(* more than MaxAttempts times and no bucket is overdrawn or overfull.      *)
TypeOK ==
  /\ WorkerTypeOK
  /\ cancelled \in BOOLEAN
  /\ \A l \in Limited : level[l] \in 0 .. Burst * Refill[l]
  /\ DOMAIN level = Limited
  /\ window \in [service : Limited, elapsed : 0 .. MaxWindow, admitted : Nat, sent : Nat]

(* Over any stretch of time, all workers together begin no more calls of a  *)
(* limited service than the burst and the rate allow.                       *)
CallsPaced ==
  window.admitted * Refill[window.service]
    <= Burst * Refill[window.service] + window.elapsed

(* What the services get to see: retries are not admitted by the limiter,   *)
(* so the requests may exceed the rate, but by no more than the attempts of *)
(* the calls begun and of those under way when the watch began.             *)
RequestsPaced ==
  /\ CallsPaced
  /\ window.sent <= MaxAttempts * (window.admitted + Cardinality(Workers))

(* With its limiters, attempts, back-offs and cancellation hidden, a worker *)
(* takes its rows through the calls as Ingestion says, and a POST or PATCH  *)
(* whose answer is lost is not sent again: that could store the row twice.  *)
Row == INSTANCE IngestRow WITH
         Failures <- Results \ {"none", "ok"},
         writes <- [w \in Workers |-> IF call[w] = "write" THEN attempt[w] ELSE 0]
ImplementsRow == Row!Spec

(* A blip does not fail a row: a call that is repeated fails for a          *)
(* transient reason only after three attempts, the last of them sent when   *)
(* at least three quarters of the full back-off (1.125 s by default) had    *)
(* been slept since the first, whatever the jitter and the cap made of the  *)
(* sleeps.  A timeout is no transient reason in this sense: it is never     *)
(* repeated.                                                                *)
OutlastsBlips ==
  \A w \in Workers :
    pc[w] = "over" /\ outcome[w] = "transient" /\ call[w] \in Retried =>
      /\ attempt[w] = MaxAttempts
      /\ 4 * slept[w] >= 3 * FullBackoff
=============================================================================
