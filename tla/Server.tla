------------------------------- MODULE Server -------------------------------
(***************************************************************************)
(* The life of a deployable that listens: the BFF and the notifier.  Its   *)
(* main goroutine resolves what it depends on, serves until SIGTERM or     *)
(* until the listener fails, drains within a grace period, closes its      *)
(* clients and exits; meanwhile requests come in, pass the interceptors of *)
(* the BFF (Recover, Error, Auth) and are handled.                         *)
(*                                                                         *)
(* What a handler does is the business of the other modules: here it is    *)
(* how it ended.  A handler may take as long as it likes.                  *)
(***************************************************************************)
EXTENDS Naturals, Sequences, FiniteSets

CONSTANTS
  Clients,     (* who connects: one connection and one request at a time     *)
  Multiplexed, (* those that speak HTTP/2 (h2c), as gRPC clients do          *)
  Env,         (* PLATFORM_ENV                                               *)
  Faults       (* the failures that may happen                               *)

FaultKinds ==
  { "boot",     (* something the start-up depends on fails                   *)
    "listen",   (* the port is taken, or accepting fails later               *)
    "verify",   (* the keys to verify a token with cannot be fetched         *)
    "panic",    (* a handler panics                                          *)
    "kill" }    (* SIGKILL                                                   *)

ASSUME ServerAssumption ==
  /\ Multiplexed \subseteq Clients
  /\ Faults \subseteq FaultKinds

ProdEnv == "prod"

Programs == {"bff", "notifier"}

(* What run() resolves before it serves, in this order. *)
BootSteps(p) ==
  IF p = "bff"
    THEN <<"observability", "project", "model", "firebase", "firestore", "auth">>
    ELSE <<"observability", "firebase", "firestore", "messaging">>

VARIABLES
  program,   (* which of the two it is                                       *)
  main,      (* where the main goroutine is                                  *)
  booted,    (* how many of its BootSteps are done                           *)
  status,    (* the exit status, once it is known                            *)
  listener,  (* none, open, closed by Shutdown, or failed                    *)
  firestore, (* the client: none, open or closed                             *)
  term,      (* SIGTERM has arrived                                          *)
  overdue,   (* the grace period was over before the drain                   *)
  conn,      (* [Clients -> its connection]                                  *)
  req        (* [Clients -> its request, kept until it makes the next]       *)

process == <<main, booted, status, firestore, overdue>>
vars == <<program, process, listener, term, conn, req>>

InFlight == {"auth", "handle"}

NoRequest == [stage |-> "none", token |-> "none", why |-> "none",
              code |-> "none", raw |-> FALSE]

Init ==
  /\ program \in Programs
  /\ main = "boot"
  /\ booted = 0
  /\ status = "running"
  /\ listener = "none"
  /\ firestore = "none"
  /\ term = FALSE
  /\ overdue = FALSE
  /\ conn = [c \in Clients |-> "closed"]
  /\ req = [c \in Clients |-> NoRequest]

-----------------------------------------------------------------------------
(* The interceptors of the BFF. *)

(* How a request may end.  The handlers' errors carry a kind: what the      *)
(* request asks for does not exist or makes no sense, the CMS refuses the   *)
(* BFF's own token or reports a conflict, a service is down, an answer      *)
(* cannot be decoded, or the error was never wrapped.                       *)
HandlerErrors == {"not found", "invalid", "refused", "clash", "down", "broken", "bare"}

AuthErrors == {"missing token", "bad token", "verifier failed"}

(* errs.KindOf.  The verifier gives every failure the same kind; nothing    *)
(* gives one the kind permission_denied.                                    *)
KindOf(why) ==
  CASE why \in AuthErrors \cup {"refused"} -> "unauthorized"
    [] why = "not found" -> "not_found"
    [] why = "invalid" -> "invalid_input"
    [] why = "clash" -> "conflict"
    [] why = "down" -> "external"
    [] why = "broken" -> "internal"
    [] OTHER -> "unknown"

KindToCode(kind) ==
  CASE kind = "not_found" -> "not_found"
    [] kind = "invalid_input" -> "invalid_argument"
    [] kind = "unauthorized" -> "unauthenticated"
    [] kind = "permission_denied" -> "permission_denied"
    [] kind = "conflict" -> "already_exists"
    [] kind = "external" -> "unavailable"
    [] OTHER -> "internal"

(* Variant: an unavailable service is not taken for an internal matter. *)
MaskedInternalOnly(code) == Env = ProdEnv /\ code = "internal"

(* The error interceptor replaces the message in production. *)
Masked(code) == Env = ProdEnv /\ code \in {"internal", "unavailable"}

(* What the client of the BFF gets.  The error a panic is turned into is    *)
(* made outside the error interceptor: connect calls it unknown and sends   *)
(* its text.                                                                *)
Answer(r, why) ==
  LET code == CASE why = "nil" -> "ok"
                [] why = "panic" -> "unknown"
                [] OTHER -> KindToCode(KindOf(why))
  IN  [r EXCEPT !.stage = "answered", !.why = why, !.code = code,
                !.raw = code # "ok" /\ ~Masked(code)]

-----------------------------------------------------------------------------
(* Requests. *)

(* The start-up is done and the process has not ended. *)
Serving ==
  /\ main \in {"serve", "poll", "wait", "closing"}
  /\ booted = Len(BootSteps(program))

(* h2c takes an HTTP/2 connection over from net/http, for good. *)
Arrival(c) == IF program = "bff" /\ c \in Multiplexed THEN "hijacked" ELSE "new"

(* A connection is accepted. *)
Connect(c) ==
  /\ Serving
  /\ listener = "open"
  /\ conn[c] = "closed"
  /\ conn' = [conn EXCEPT ![c] = Arrival(c)]
  /\ UNCHANGED <<program, process, listener, term, req>>

(* A request comes in: an RPC with its token, or a push of Pub/Sub. *)
Request(c) ==
  /\ Serving
  /\ conn[c] \in {"new", "idle", "hijacked"}
  /\ req[c].stage \notin InFlight
  /\ IF program = "bff"
       THEN \E token \in {"valid", "invalid", "missing"} :
              req' = [req EXCEPT ![c] = [NoRequest EXCEPT !.stage = "auth", !.token = token]]
       ELSE req' = [req EXCEPT ![c] = [NoRequest EXCEPT !.stage = "handle"]]
  /\ conn' = [conn EXCEPT ![c] = IF @ = "hijacked" THEN @ ELSE "active"]
  /\ UNCHANGED <<program, process, listener, term>>

(* After an answer a connection is kept, unless the server is shutting down. *)
Kept(c) ==
  IF conn[c] = "hijacked" THEN "hijacked"
  ELSE IF main = "serve" THEN "idle" ELSE "closed"

Finish(c, why) ==
  /\ req' = [req EXCEPT ![c] = Answer(@, why)]
  /\ conn' = [conn EXCEPT ![c] = Kept(c)]

(* NewAuthInterceptor and Verifier.Verify. *)
Auth(c) ==
  /\ Serving
  /\ req[c].stage = "auth"
  /\ \/ req[c].token = "missing" /\ Finish(c, "missing token")
     \/ req[c].token = "invalid" /\ Finish(c, "bad token")
     \/ req[c].token # "missing" /\ "verify" \in Faults /\ Finish(c, "verifier failed")
     \/ /\ req[c].token = "valid"
        /\ req' = [req EXCEPT ![c].stage = "handle"]
        /\ UNCHANGED conn
  /\ UNCHANGED <<program, process, listener, term>>

(* The handler returns, in its own time. *)
Handle(c) ==
  /\ Serving
  /\ req[c].stage = "handle"
  /\ \/ Finish(c, "nil")
     \/ program = "bff" /\ \E why \in HandlerErrors : Finish(c, why)
     \/ program = "bff" /\ "panic" \in Faults /\ Finish(c, "panic")
     \/ (* net/http recovers, and drops the connection *)
        /\ program = "notifier"
        /\ "panic" \in Faults
        /\ req' = [req EXCEPT ![c].stage = "dropped", ![c].why = "panic"]
        /\ conn' = [conn EXCEPT ![c] = "closed"]
  /\ UNCHANGED <<program, process, listener, term>>

(* A client that waits for nothing closes its connection. *)
Leave(c) ==
  /\ conn[c] # "closed"
  /\ req[c].stage \notin InFlight
  /\ conn' = [conn EXCEPT ![c] = "closed"]
  /\ UNCHANGED <<program, process, listener, term, req>>

-----------------------------------------------------------------------------
(* The main goroutine. *)

BootStep == BootSteps(program)[booted + 1]

(* The CMS is asked through retry.Do, which looks at the context first. *)
Cancellable == {"project", "model"}

Boot ==
  /\ main = "boot"
  /\ ~(term /\ BootStep \in Cancellable)
  /\ booted' = booted + 1
  /\ main' = IF booted' = Len(BootSteps(program)) THEN "serve" ELSE "boot"
  /\ firestore' = IF BootStep = "firestore" THEN "open" ELSE firestore
  /\ UNCHANGED <<program, status, listener, term, overdue, conn, req>>

(* run returns and its deferred calls begin. *)
Return(result) ==
  /\ main' = "closing"
  /\ status' = result

BootFails ==
  /\ main = "boot"
  /\ "boot" \in Faults \/ (term /\ BootStep \in Cancellable)
  /\ Return("error")
  /\ UNCHANGED <<program, booted, listener, firestore, term, overdue, conn, req>>

(* The goroutine of ListenAndServe, which does not listen once Shutdown has *)
(* begun.                                                                   *)
Listen ==
  /\ Serving
  /\ listener = "none"
  /\ \/ main = "serve" /\ listener' = "open"
     \/ main # "serve" /\ listener' = "closed"
     \/ "listen" \in Faults /\ listener' = "failed"
  /\ UNCHANGED <<program, process, term, conn, req>>

AcceptFails ==
  /\ Serving
  /\ "listen" \in Faults
  /\ listener = "open"
  /\ listener' = "failed"
  /\ UNCHANGED <<program, process, term, conn, req>>

(* The error of ListenAndServe is returned at once: nothing is drained. *)
ListenerFailed ==
  /\ main = "serve"
  /\ listener = "failed"
  /\ Return("error")
  /\ UNCHANGED <<program, booted, listener, firestore, term, overdue, conn, req>>

(* Variant: Close in place of Shutdown. *)
CloseServer ==
  /\ main = "serve"
  /\ term
  /\ Return("ok")
  /\ listener' = IF listener = "open" THEN "closed" ELSE listener
  /\ UNCHANGED <<program, booted, firestore, term, overdue, conn, req>>

(* Shutdown closes the listener and begins to look at the connections. *)
Shutdown ==
  /\ main = "serve"
  /\ term
  /\ main' = "poll"
  /\ listener' = IF listener = "open" THEN "closed" ELSE listener
  /\ UNCHANGED <<program, booted, status, firestore, term, overdue, conn, req>>

(* Shutdown waits for the connections it tracks: not for hijacked ones. *)
Quiescent(closing) ==
  \A c \in Clients \ closing : conn[c] \in {"closed", "hijacked"}

(* Idle connections are closed, and new ones that sent nothing for 5 s. *)
Poll ==
  /\ main = "poll"
  /\ \E silent \in SUBSET {c \in Clients : conn[c] = "new"} :
       LET closing == silent \cup {c \in Clients : conn[c] = "idle"} IN
       /\ conn' = [c \in Clients |-> IF c \in closing THEN "closed" ELSE conn[c]]
       /\ IF Quiescent(closing)
            THEN Return("ok")
            ELSE main' = "wait" /\ UNCHANGED status
  /\ UNCHANGED <<program, booted, listener, firestore, term, overdue, req>>

PollAgain ==
  /\ main = "wait"
  /\ main' = "poll"
  /\ UNCHANGED <<program, booted, status, listener, firestore, term, overdue, conn, req>>

(* Variant: the context of Shutdown has no deadline. *)
GraceForever == FALSE /\ UNCHANGED vars

(* ShutdownTimeout is over.  The BFF returns the error; the notifier warns. *)
GraceOver ==
  /\ main = "wait"
  /\ overdue' = TRUE
  /\ Return(IF program = "bff" THEN "error" ELSE "ok")
  /\ UNCHANGED <<program, booted, listener, firestore, term, conn, req>>

(* The deferred App.Close. *)
CloseClients ==
  /\ main = "closing"
  /\ firestore = "open"
  /\ firestore' = "closed"
  /\ UNCHANGED <<program, main, booted, status, listener, term, overdue, conn, req>>

(* Whatever is in flight when the process ends gets no answer. *)
End ==
  /\ main' = "exited"
  /\ conn' = [c \in Clients |-> "closed"]
  /\ req' = [c \in Clients |->
               IF req[c].stage \in InFlight THEN [req[c] EXCEPT !.stage = "cut"] ELSE req[c]]

Exit ==
  /\ main = "closing"
  /\ firestore # "open"
  /\ End
  /\ UNCHANGED <<program, booted, status, listener, firestore, term, overdue>>

-----------------------------------------------------------------------------
(* The platform (external). *)

Sigterm ==
  /\ main # "exited"
  /\ ~term
  /\ term' = TRUE
  /\ UNCHANGED <<program, process, listener, conn, req>>

Sigkill ==
  /\ main # "exited"
  /\ "kill" \in Faults
  /\ End
  /\ status' = "killed"
  /\ UNCHANGED <<program, booted, listener, firestore, term, overdue>>

-----------------------------------------------------------------------------
MainStep ==
  \/ Boot
  \/ BootFails
  \/ ListenerFailed
  \/ Shutdown
  \/ Poll
  \/ PollAgain
  \/ GraceOver
  \/ CloseClients
  \/ Exit

ClientStep(c) ==
  \/ Connect(c)
  \/ Request(c)
  \/ Auth(c)
  \/ Handle(c)
  \/ Leave(c)

Next ==
  \/ MainStep
  \/ Listen
  \/ AcceptFails
  \/ \E c \in Clients : ClientStep(c)
  \/ Sigterm
  \/ Sigkill

Spec == Init /\ [][Next]_vars

(* The main goroutine runs; the grace period passes although Shutdown looks *)
(* at the connections again and again.  No handler is assumed to return.    *)
FairSpec == Spec /\ WF_vars(MainStep) /\ SF_vars(GraceOver)

-----------------------------------------------------------------------------
Codes == {"none", "ok", "not_found", "invalid_argument", "unauthenticated",
          "permission_denied", "already_exists", "unavailable", "internal", "unknown"}

Endings == {"none", "nil", "panic"} \cup AuthErrors \cup HandlerErrors

Requests == [stage : {"none", "answered", "cut", "dropped"} \cup InFlight,
             token : {"none", "valid", "invalid", "missing"},
             why : Endings, code : Codes, raw : BOOLEAN]

(* Every variable stays within its type. *)
TypeOK ==
  /\ program \in Programs
  /\ main \in {"boot", "serve", "poll", "wait", "closing", "exited"}
  /\ booted \in 0 .. Len(BootSteps(program))
  /\ status \in {"running", "ok", "error", "killed"}
  /\ listener \in {"none", "open", "closed", "failed"}
  /\ firestore \in {"none", "open", "closed"}
  /\ term \in BOOLEAN
  /\ overdue \in BOOLEAN
  /\ conn \in [Clients -> {"closed", "new", "active", "idle", "hijacked"}]
  /\ req \in [Clients -> Requests]

(* h2c has taken the connection of c over. *)
Hijacks(c) == program = "bff" /\ c \in Multiplexed

(* The request of c is lost, or its handler is left without Firestore. *)
Abandoned(c) ==
  \/ req[c].stage = "cut"
  \/ req[c].stage \in InFlight /\ firestore = "closed"

(* The drain of Shutdown: a request on an HTTP/1 connection, however late   *)
(* it came in, is abandoned only when the grace period is over, the process *)
(* is killed or the listener failed; and a BFF that exits with 0 abandoned  *)
(* none.  (Nothing of the kind holds for HTTP/2: see the README.)           *)
CutOnlyWhenOverdue ==
  \A c \in Clients :
    Abandoned(c) /\ ~Hijacks(c) =>
      /\ overdue \/ status = "killed" \/ listener = "failed"
      /\ program = "bff" => status # "ok"

(* What an answer of the BFF tells: success means that a valid token's      *)
(* request was handled; no handler ran for another token; unauthenticated   *)
(* is the answer to a token that is not verified, and to the CMS refusing   *)
(* the BFF's own; in production the text of an internal failure stays       *)
(* inside.  (Of a panic only that it is no success: see PanicIsInternal.)   *)
AnswersTellTheTruth ==
  \A c \in Clients :
    req[c].stage = "answered" /\ program = "bff" =>
      /\ req[c].code = "ok" <=> req[c].why = "nil"
      /\ req[c].why \notin AuthErrors => req[c].token = "valid"
      /\ req[c].code = "unauthenticated" <=> req[c].why \in AuthErrors \cup {"refused"}
      /\ Env = ProdEnv /\ req[c].raw =>
           req[c].why \in AuthErrors \cup {"not found", "invalid", "refused", "clash", "panic"}

(* What recovery.go:13-15 and cmd/bff/main.go:167-168 say of a panic: the   *)
(* client receives CodeInternal; error_interceptor.go:16-19 masks such an   *)
(* answer in production.  The code does neither: Recover is outside Error.  *)
PanicIsInternal ==
  \A c \in Clients :
    req[c].stage = "answered" /\ req[c].why = "panic" =>
      /\ req[c].code = "internal"
      /\ Env = ProdEnv => ~req[c].raw

(* SIGTERM ends the process, whatever its handlers do. *)
StopsAfterSigterm == term ~> main = "exited"
=============================================================================
