---------------------------- MODULE ServerProofs ----------------------------
(***************************************************************************)
(* Theorems about Server, for any number of clients, whichever of them     *)
(* speak HTTP/2: the types, what a drain may cut off, and what the answers *)
(* of the BFF mean.                                                        *)
(***************************************************************************)
EXTENDS Server, TLAPS

USE ServerAssumption

(* The start-up has more to do, or stopped before its end. *)
Unstarted == booted < Len(BootSteps(program))

LEMMA Booting ==
  ASSUME program \in Programs
  PROVE  /\ Len(BootSteps(program)) \in Nat
         /\ 0 < Len(BootSteps(program))
BY DEF BootSteps, Programs

-----------------------------------------------------------------------------
(* The inductive invariant, in parts. *)

(* A request is in flight only on a connection, and only HTTP/2 is taken    *)
(* over from net/http.                                                      *)
Connected(c) ==
  /\ conn[c] = "hijacked" => Hijacks(c)
  /\ Hijacks(c) => conn[c] \in {"closed", "hijacked"}
  /\ req[c].stage \in InFlight => conn[c] \in {"active", "hijacked"}

(* Requests are cut by the end of the process, which leaves none in flight. *)
Ended(c) ==
  /\ req[c].stage = "cut" => main = "exited"
  /\ main = "exited" => req[c].stage \notin InFlight

(* Before it serves nobody is connected. *)
Quiet(c) == Unstarted => conn[c] = "closed" /\ req[c].stage = "none"

(* A drain that met its deadline has left no HTTP/1 connection behind. *)
Drained(c) ==
  status = "ok" /\ ~overdue /\ ~Hijacks(c) => conn[c] = "closed" /\ req[c].stage # "cut"

(* Where the main goroutine is. *)
Course ==
  /\ main = "boot" => Unstarted
  /\ main \in {"serve", "poll", "wait"} => ~Unstarted
  /\ main \in {"boot", "serve", "poll", "wait"} <=> status = "running"
  /\ main \in {"poll", "wait"} => listener # "open"
  /\ status = "ok" => listener # "open"
  /\ status = "error" => overdue \/ listener = "failed" \/ Unstarted
  /\ status = "killed" => main = "exited"
  /\ overdue => main \in {"closing", "exited"} /\ (program = "bff" => status # "ok")
  /\ firestore = "closed" => main \in {"closing", "exited"}
  /\ Unstarted => listener = "none"

(* What a request of the BFF has been through. *)
Told(c) ==
  program = "bff" =>
    /\ req[c].stage = "handle" => req[c].token = "valid"
    /\ req[c].stage = "answered" =>
         /\ req[c].code = "ok" <=> req[c].why = "nil"
         /\ req[c].why \notin AuthErrors => req[c].token = "valid"
         /\ req[c].code = "unauthenticated" <=> req[c].why \in AuthErrors \cup {"refused"}
         /\ Env = ProdEnv /\ req[c].raw =>
              req[c].why \in AuthErrors \cup {"not found", "invalid", "refused", "clash", "panic"}

Client(c) == Connected(c) /\ Ended(c) /\ Quiet(c) /\ Drained(c) /\ Told(c)

Inv == TypeOK /\ Course /\ \A c \in Clients : Client(c)

LEMMA NoRequestTyped == NoRequest \in Requests
BY DEF NoRequest, Requests, Endings, Codes

LEMMA InitInv == Init => Inv
<1> SUFFICES ASSUME Init PROVE Inv
  OBVIOUS
<1>1. TypeOK
  <2>1. booted \in 0 .. Len(BootSteps(program)) /\ program \in Programs
    BY Booting DEF Init
  <2>2. req \in [Clients -> Requests]
    BY NoRequestTyped DEF Init
  <2>3. conn \in [Clients -> {"closed", "new", "active", "idle", "hijacked"}]
    BY DEF Init
  <2> QED
    BY <2>1, <2>2, <2>3 DEF Init, TypeOK
<1>2. Unstarted
  BY Booting DEF Init, Unstarted
<1>3. Course
  BY <1>2 DEF Init, Course
<1>4. \A c \in Clients : Client(c)
  BY DEF Init, NoRequest, InFlight, Client, Connected, Ended, Quiet, Drained, Told
<1> QED
  BY <1>1, <1>3, <1>4 DEF Inv

-----------------------------------------------------------------------------
(* How a request ends. *)

LEMMA Codings ==
  ASSUME NEW why \in {"nil", "panic"} \cup AuthErrors \cup HandlerErrors,
         NEW r \in Requests
  PROVE  /\ Answer(r, why) \in Requests
         /\ Answer(r, why).stage = "answered"
         /\ Answer(r, why).token = r.token
         /\ Answer(r, why).why = why
         /\ Answer(r, why).code = "ok" <=> why = "nil"
         /\ Answer(r, why).code = "unauthenticated" <=> why \in AuthErrors \cup {"refused"}
         /\ Env = ProdEnv /\ Answer(r, why).raw =>
              why \in AuthErrors \cup {"not found", "invalid", "refused", "clash", "panic"}
<1> DEFINE code == CASE why = "nil" -> "ok"
                     [] why = "panic" -> "unknown"
                     [] OTHER -> KindToCode(KindOf(why))
           raw == code # "ok" /\ ~Masked(code)
<1>1. /\ code \in Codes
      /\ code = "ok" <=> why = "nil"
      /\ code = "unauthenticated" <=> why \in AuthErrors \cup {"refused"}
      /\ code \notin {"internal", "unavailable"} =>
           why \in {"nil"} \cup AuthErrors \cup {"not found", "invalid", "refused", "clash", "panic"}
  BY DEF Codes, KindToCode, KindOf, AuthErrors, HandlerErrors
<1>2. raw \in BOOLEAN
  OBVIOUS
<1>3. Env = ProdEnv /\ raw =>
        why \in AuthErrors \cup {"not found", "invalid", "refused", "clash", "panic"}
  BY <1>1 DEF Masked
<1>4. Answer(r, why) = [r EXCEPT !.stage = "answered", !.why = why, !.code = code, !.raw = raw]
  BY DEF Answer
<1> HIDE DEF code, raw
<1>5. why \in Endings
  BY DEF Endings
<1>6. /\ Answer(r, why) \in Requests
      /\ Answer(r, why).stage = "answered" /\ Answer(r, why).token = r.token
      /\ Answer(r, why).why = why
      /\ Answer(r, why).code = code /\ Answer(r, why).raw = raw
  BY <1>1, <1>2, <1>4, <1>5 DEF Requests
<1> QED
  BY <1>1, <1>3, <1>6

-----------------------------------------------------------------------------
(* The steps of a client leave the others alone. *)

Others(c) == \A d \in Clients \ {c} : conn'[d] = conn[d] /\ req'[d] = req[d]

LEMMA ClientInv ==
  ASSUME NEW c \in Clients, Inv, Others(c), Client(c)',
         conn' \in [Clients -> {"closed", "new", "active", "idle", "hijacked"}],
         req' \in [Clients -> Requests],
         UNCHANGED <<program, process, listener, term>>
  PROVE  Inv'
<1>1. TypeOK' /\ Course'
  BY DEF Inv, TypeOK, Course, Unstarted, process
<1>2. \A d \in Clients \ {c} : Client(d)'
  <2> SUFFICES ASSUME NEW d \in Clients \ {c} PROVE Client(d)'
    OBVIOUS
  <2>1. /\ conn'[d] = conn[d] /\ req'[d] = req[d] /\ Client(d)
        /\ UNCHANGED <<program, main, booted, status, overdue>>
    BY DEF Others, Inv, process
  <2>2. Connected(d)'
    BY <2>1 DEF Client, Connected, Hijacks
  <2>3. Ended(d)'
    BY <2>1 DEF Client, Ended
  <2>4. Quiet(d)'
    BY <2>1 DEF Client, Quiet, Unstarted
  <2>5. Drained(d)'
    BY <2>1 DEF Client, Drained, Hijacks
  <2>6. Told(d)'
    BY <2>1 DEF Client, Told
  <2> QED
    BY <2>2, <2>3, <2>4, <2>5, <2>6 DEF Client
<1> QED
  BY <1>1, <1>2 DEF Inv

LEMMA FinishInv ==
  ASSUME NEW c \in Clients, Inv, Serving,
         NEW why \in {"nil", "panic"} \cup AuthErrors \cup HandlerErrors,
         Finish(c, why), req[c].stage \in InFlight,
         program = "bff" /\ why \notin AuthErrors => req[c].token = "valid",
         UNCHANGED <<program, process, listener, term>>
  PROVE  Inv'
<1>1. TypeOK /\ Course /\ Client(c) /\ req[c] \in Requests
  BY DEF Inv, TypeOK
<1>2. /\ conn'[c] = Kept(c) /\ req'[c] = Answer(req[c], why) /\ Others(c)
      /\ DOMAIN conn' = Clients /\ DOMAIN req' = Clients
      /\ conn' = [conn EXCEPT ![c] = Kept(c)] /\ req' = [req EXCEPT ![c] = Answer(req[c], why)]
  BY <1>1 DEF Finish, TypeOK, Others
<1>3. /\ Kept(c) \in {"closed", "idle", "hijacked"}
      /\ Kept(c) = "hijacked" <=> conn[c] = "hijacked"
      /\ Kept(c) = "idle" => main = "serve"
  BY DEF Kept
<1>4. /\ req'[c] \in Requests
      /\ req'[c].stage = "answered" /\ req'[c].token = req[c].token /\ req'[c].why = why
      /\ req'[c].code = "ok" <=> why = "nil"
      /\ req'[c].code = "unauthenticated" <=> why \in AuthErrors \cup {"refused"}
      /\ Env = ProdEnv /\ req'[c].raw =>
           why \in AuthErrors \cup {"not found", "invalid", "refused", "clash", "panic"}
  <2>1. PICK r \in Requests : r = req[c]
    BY <1>1
  <2>2. req'[c] = Answer(r, why) /\ req[c].token = r.token
    BY <1>2, <2>1
  <2>3. Answer(r, why) \in Requests
    BY Codings
  <2>6. Answer(r, why).stage = "answered"
    BY Codings
  <2>8. Answer(r, why).token = r.token
    BY DEF Answer, Requests
  <2>7. Answer(r, why).why = why
    BY Codings
  <2>4. /\ Answer(r, why).code = "ok" <=> why = "nil"
        /\ Answer(r, why).code = "unauthenticated" <=> why \in AuthErrors \cup {"refused"}
    BY Codings
  <2>5. Env = ProdEnv /\ Answer(r, why).raw =>
          why \in AuthErrors \cup {"not found", "invalid", "refused", "clash", "panic"}
    BY Codings
  <2> QED
    BY <2>2, <2>3, <2>4, <2>5, <2>6, <2>7, <2>8
<1>5. /\ conn' \in [Clients -> {"closed", "new", "active", "idle", "hijacked"}]
      /\ req' \in [Clients -> Requests]
  BY <1>1, <1>2, <1>3, <1>4 DEF TypeOK
<1>6. ~Unstarted /\ main # "exited"
  BY <1>1, Booting DEF Serving, Unstarted, TypeOK
<1>7. /\ conn'[c] \in {"closed", "idle", "hijacked"}
      /\ conn'[c] = "hijacked" => Hijacks(c)
      /\ Hijacks(c) => conn'[c] \in {"closed", "hijacked"}
  <2>1. CASE conn[c] = "hijacked"
    BY <1>1, <1>2, <1>3, <2>1 DEF Client, Connected
  <2>2. CASE conn[c] # "hijacked"
    <3>1. ~Hijacks(c)
      BY <1>1, <2>2 DEF Client, Connected
    <3> QED
      BY <1>2, <1>3, <2>2, <3>1
  <2> QED
    BY <2>1, <2>2
<1>8. UNCHANGED <<program, main, booted, status, overdue>>
  BY DEF process
<1>9. Connected(c)' /\ Ended(c)' /\ Quiet(c)'
  BY <1>4, <1>6, <1>7, <1>8 DEF Connected, Ended, Quiet, InFlight, Hijacks, Unstarted
<1>10. Drained(c)'
  <2>1. status = "ok" => main # "serve"
    BY <1>1 DEF Course
  <2>2. status = "ok" /\ ~Hijacks(c) => conn'[c] = "closed"
    BY <1>2, <1>3, <1>7, <2>1
  <2> QED
    BY <1>4, <1>8, <2>2 DEF Drained, Hijacks
<1>11. Told(c)'
  BY <1>4, <1>8 DEF Told
<1> QED
  BY <1>2, <1>5, <1>9, <1>10, <1>11, ClientInv DEF Client

LEMMA ConnectInv ==
  ASSUME NEW c \in Clients, Inv, Connect(c)
  PROVE  Inv'
<1>1. TypeOK /\ Course /\ Client(c)
  BY DEF Inv
<1>2. ~Unstarted
  BY <1>1, Booting DEF Connect, Serving, Unstarted, TypeOK
<1>3. /\ conn'[c] = Arrival(c) /\ req' = req /\ Others(c)
      /\ conn' \in [Clients -> {"closed", "new", "active", "idle", "hijacked"}]
  BY <1>1 DEF Connect, TypeOK, Others, Arrival
<1>4. UNCHANGED <<program, process, listener, term>>
  BY DEF Connect
<1>5. Connected(c)' /\ Ended(c)' /\ Quiet(c)'
  BY <1>1, <1>2, <1>3, <1>4
  DEF Client, Connected, Ended, Quiet, Hijacks, Unstarted, Arrival, process, Connect
<1>6. Drained(c)'
  BY <1>1, <1>3, <1>4 DEF Course, Drained, Connect, process
<1>7. Told(c)'
  BY <1>1, <1>3, <1>4 DEF Client, Told
<1>8. req' \in [Clients -> Requests]
  BY <1>1, <1>3 DEF TypeOK
<1> QED
  BY <1>3, <1>4, <1>5, <1>6, <1>7, <1>8, ClientInv DEF Client

LEMMA RequestInv ==
  ASSUME NEW c \in Clients, Inv, Request(c)
  PROVE  Inv'
<1>1. TypeOK /\ Course /\ Client(c)
  BY DEF Inv
<1>2. ~Unstarted /\ main # "exited"
  BY <1>1, Booting DEF Request, Serving, Unstarted, TypeOK
<1>3. PICK r \in Requests :
        /\ req' = [req EXCEPT ![c] = r]
        /\ r.stage \in InFlight
        /\ program = "bff" => r.stage = "auth"
  <2> DEFINE rpc(token) == [NoRequest EXCEPT !.stage = "auth", !.token = token]
             push == [NoRequest EXCEPT !.stage = "handle"]
  <2>1. CASE program = "bff"
    <3>1. PICK token \in {"valid", "invalid", "missing"} : req' = [req EXCEPT ![c] = rpc(token)]
      BY <2>1 DEF Request
    <3>2. rpc(token) \in Requests /\ rpc(token).stage = "auth"
      BY DEF Requests, NoRequest, InFlight, Endings, Codes
    <3> QED
      BY <3>1, <3>2 DEF InFlight
  <2>2. CASE program # "bff"
    <3>1. req' = [req EXCEPT ![c] = push]
      BY <2>2 DEF Request
    <3>2. push \in Requests /\ push.stage = "handle"
      BY DEF Requests, NoRequest, InFlight, Endings, Codes
    <3> QED
      BY <2>2, <3>1, <3>2 DEF InFlight
  <2> QED
    BY <2>1, <2>2
<1>4. /\ req'[c] = r /\ Others(c) /\ req' \in [Clients -> Requests]
      /\ conn'[c] = IF conn[c] = "hijacked" THEN "hijacked" ELSE "active"
      /\ conn' \in [Clients -> {"closed", "new", "active", "idle", "hijacked"}]
  BY <1>1, <1>3 DEF Request, TypeOK, Others
<1>5. UNCHANGED <<program, process, listener, term>>
  BY DEF Request
<1>6. Connected(c)' /\ Ended(c)' /\ Quiet(c)'
  BY <1>1, <1>2, <1>3, <1>4, <1>5
  DEF Client, Connected, Ended, Quiet, Hijacks, Unstarted, process, Request, InFlight
<1>7. Drained(c)'
  BY <1>1, <1>5 DEF Client, Connected, Drained, process, Request, Hijacks
<1>8. Told(c)'
  BY <1>3, <1>4, <1>5 DEF Told, InFlight
<1> QED
  BY <1>4, <1>5, <1>6, <1>7, <1>8, ClientInv DEF Client

LEMMA AuthInv ==
  ASSUME NEW c \in Clients, Inv, Auth(c)
  PROVE  Inv'
<1>1. TypeOK /\ Course /\ Client(c)
  BY DEF Inv
<1>2. UNCHANGED <<program, process, listener, term>> /\ Serving /\ req[c].stage = "auth"
  BY DEF Auth
<1>3. CASE \E why \in AuthErrors : Finish(c, why)
  BY <1>2, <1>3, FinishInv DEF InFlight
<1>4. CASE /\ req[c].token = "valid"
           /\ req' = [req EXCEPT ![c].stage = "handle"]
           /\ UNCHANGED conn
  <2>1. /\ req'[c] \in Requests /\ req'[c].stage = "handle" /\ req'[c].token = "valid"
        /\ Others(c) /\ req' \in [Clients -> Requests]
    BY <1>1, <1>4 DEF TypeOK, Others, Requests, InFlight
  <2>2. Connected(c)' /\ Ended(c)' /\ Quiet(c)' /\ Drained(c)'
    BY <1>1, <1>2, <1>4, <2>1
    DEF Client, Connected, Ended, Quiet, Drained, Hijacks, Unstarted, process, Serving, InFlight
  <2>3. Told(c)'
    BY <2>1 DEF Told
  <2>4. conn' \in [Clients -> {"closed", "new", "active", "idle", "hijacked"}]
    BY <1>1, <1>4 DEF TypeOK
  <2> QED
    BY <1>2, <2>1, <2>2, <2>3, <2>4, ClientInv DEF Client
<1> QED
  BY <1>3, <1>4 DEF Auth, AuthErrors

LEMMA HandleInv ==
  ASSUME NEW c \in Clients, Inv, Handle(c)
  PROVE  Inv'
<1>1. TypeOK /\ Course /\ Client(c)
  BY DEF Inv
<1>2. /\ UNCHANGED <<program, process, listener, term>> /\ Serving
      /\ req[c].stage = "handle"
      /\ program = "bff" => req[c].token = "valid"
  BY <1>1 DEF Handle, Client, Told
<1>3. CASE \E why \in {"nil", "panic"} \cup HandlerErrors : Finish(c, why)
  BY <1>2, <1>3, FinishInv DEF InFlight
<1>4. CASE /\ program = "notifier"
           /\ req' = [req EXCEPT ![c].stage = "dropped", ![c].why = "panic"]
           /\ conn' = [conn EXCEPT ![c] = "closed"]
  <2>1. /\ req'[c] \in Requests /\ req'[c].stage = "dropped" /\ conn'[c] = "closed"
        /\ Others(c) /\ req' \in [Clients -> Requests]
    BY <1>1, <1>4 DEF TypeOK, Others, Requests, InFlight, Endings
  <2>2. Connected(c)' /\ Ended(c)' /\ Drained(c)'
    BY <1>2, <2>1 DEF Connected, Ended, Drained, InFlight
  <2>3. Told(c)' /\ Quiet(c)'
    BY <1>1, <1>2, <1>4, Booting DEF Told, Quiet, Unstarted, Serving, TypeOK, process
  <2>4. conn' \in [Clients -> {"closed", "new", "active", "idle", "hijacked"}]
    BY <1>1, <1>4 DEF TypeOK
  <2> QED
    BY <1>2, <2>1, <2>2, <2>3, <2>4, ClientInv DEF Client
<1> QED
  BY <1>3, <1>4 DEF Handle

LEMMA LeaveInv ==
  ASSUME NEW c \in Clients, Inv, Leave(c)
  PROVE  Inv'
<1>1. TypeOK /\ Course /\ Client(c)
  BY DEF Inv
<1>2. /\ conn'[c] = "closed" /\ req' = req /\ Others(c)
      /\ conn' \in [Clients -> {"closed", "new", "active", "idle", "hijacked"}]
      /\ req' \in [Clients -> Requests]
      /\ UNCHANGED <<program, process, listener, term>>
  BY <1>1 DEF Leave, TypeOK, Others
<1>3. req[c].stage \notin InFlight
  BY DEF Leave
<1>4. Connected(c)' /\ Ended(c)' /\ Quiet(c)'
  BY <1>1, <1>2, <1>3 DEF Client, Connected, Ended, Quiet, Unstarted, process
<1>5. Drained(c)' /\ Told(c)'
  BY <1>1, <1>2 DEF Client, Drained, Told, Hijacks, process
<1> QED
  BY <1>2, <1>4, <1>5, ClientInv DEF Client

LEMMA ClientStepInv ==
  ASSUME NEW c \in Clients, Inv, ClientStep(c)
  PROVE  Inv'
BY ConnectInv, RequestInv, AuthInv, HandleInv, LeaveInv DEF ClientStep

-----------------------------------------------------------------------------
(* The steps of the process.  Most of them touch no connection and no       *)
(* request.                                                                 *)

LEMMA UntouchedInv ==
  ASSUME Inv, TypeOK', Course', UNCHANGED <<program, conn, req>>,
         main' = "exited" <=> main = "exited",
         Unstarted' => Unstarted,
         status' = "ok" /\ ~overdue' => status = "ok" /\ ~overdue
  PROVE  Inv'
<1> SUFFICES ASSUME NEW c \in Clients PROVE Client(c)'
  BY DEF Inv
<1>1. Client(c) /\ conn'[c] = conn[c] /\ req'[c] = req[c]
  BY DEF Inv
<1>2. Connected(c)' /\ Ended(c)'
  BY <1>1 DEF Client, Connected, Ended, Hijacks
<1>3. Quiet(c)' /\ Drained(c)'
  BY <1>1 DEF Client, Quiet, Drained, Hijacks
<1>4. Told(c)'
  BY <1>1 DEF Client, Told
<1> QED
  BY <1>2, <1>3, <1>4 DEF Client

LEMMA BootInv ==
  ASSUME Inv, Boot
  PROVE  Inv'
<1>1. TypeOK /\ Course /\ Unstarted
  BY DEF Inv, Course, Boot
<1>2. PICK n \in Nat : n = Len(BootSteps(program))
  BY <1>1, Booting DEF TypeOK
<1>3. booted \in 0 .. n - 1 /\ booted' = booted + 1 /\ program' = program
  BY <1>1, <1>2 DEF TypeOK, Unstarted, Boot
<1>4. Len(BootSteps(program))' = n
  BY <1>2, <1>3
<1>5. /\ main' \in {"serve", "boot"}
      /\ main' = "boot" => booted' < n
      /\ main' = "serve" => booted' = n
  BY <1>2, <1>3 DEF Boot
<1>6. TypeOK'
  BY <1>1, <1>3, <1>4, <1>5 DEF TypeOK, Boot
<1>7. status = "running" /\ listener = "none" /\ ~overdue /\ firestore # "closed"
  BY <1>1 DEF Course, Boot
<1>8. firestore' # "closed" /\ UNCHANGED <<status, listener, overdue>>
  BY <1>7 DEF Boot
<1>9. Course'
  BY <1>3, <1>4, <1>5, <1>7, <1>8 DEF Course, Unstarted
<1> QED
  BY <1>1, <1>5, <1>6, <1>7, <1>8, <1>9, UntouchedInv DEF Boot

LEMMA BootFailsInv ==
  ASSUME Inv, BootFails
  PROVE  Inv'
<1>1. TypeOK /\ Course
  BY DEF Inv
<1>2. TypeOK'
  BY <1>1 DEF TypeOK, BootFails, Return
<1>3. Course'
  BY <1>1 DEF Course, Unstarted, BootFails, Return
<1> QED
  BY <1>2, <1>3, UntouchedInv DEF BootFails, Return, Unstarted

LEMMA ListenInv ==
  ASSUME Inv, Listen
  PROVE  Inv'
<1>1. TypeOK /\ Course
  BY DEF Inv
<1>2. ~Unstarted /\ main # "boot"
  BY <1>1, Booting DEF Listen, Serving, Unstarted, TypeOK
<1>3. TypeOK'
  BY <1>1 DEF TypeOK, Listen, process
<1>4. Course'
  BY <1>1, <1>2 DEF Course, Unstarted, Listen, process
<1> QED
  BY <1>3, <1>4, UntouchedInv DEF Listen, Unstarted, process

LEMMA AcceptFailsInv ==
  ASSUME Inv, AcceptFails
  PROVE  Inv'
<1>1. TypeOK /\ Course
  BY DEF Inv
<1>2. TypeOK'
  BY <1>1 DEF TypeOK, AcceptFails, process
<1>3. Course'
  BY <1>1 DEF Course, Unstarted, AcceptFails, process
<1> QED
  BY <1>2, <1>3, UntouchedInv DEF AcceptFails, Unstarted, process

LEMMA ListenerFailedInv ==
  ASSUME Inv, ListenerFailed
  PROVE  Inv'
<1>1. TypeOK /\ Course
  BY DEF Inv
<1>2. TypeOK'
  BY <1>1 DEF TypeOK, ListenerFailed, Return
<1>3. Course'
  BY <1>1 DEF Course, Unstarted, ListenerFailed, Return
<1> QED
  BY <1>2, <1>3, UntouchedInv DEF ListenerFailed, Return, Unstarted

LEMMA ShutdownInv ==
  ASSUME Inv, Shutdown
  PROVE  Inv'
<1>1. TypeOK /\ Course
  BY DEF Inv
<1>2. TypeOK'
  BY <1>1 DEF TypeOK, Shutdown
<1>3. Course'
  BY <1>1 DEF Course, Unstarted, Shutdown
<1> QED
  BY <1>2, <1>3, UntouchedInv DEF Shutdown, Unstarted

LEMMA PollAgainInv ==
  ASSUME Inv, PollAgain
  PROVE  Inv'
<1>1. TypeOK /\ Course
  BY DEF Inv
<1>2. TypeOK'
  BY <1>1 DEF TypeOK, PollAgain
<1>3. Course'
  BY <1>1 DEF Course, Unstarted, PollAgain
<1> QED
  BY <1>2, <1>3, UntouchedInv DEF PollAgain, Unstarted

LEMMA GraceOverInv ==
  ASSUME Inv, GraceOver
  PROVE  Inv'
<1>1. TypeOK /\ Course
  BY DEF Inv
<1>2. TypeOK'
  BY <1>1 DEF TypeOK, GraceOver, Return
<1>3. Course'
  BY <1>1 DEF Course, Unstarted, GraceOver, Return
<1> QED
  BY <1>2, <1>3, UntouchedInv DEF GraceOver, Return, Unstarted

LEMMA CloseClientsInv ==
  ASSUME Inv, CloseClients
  PROVE  Inv'
<1>1. TypeOK /\ Course
  BY DEF Inv
<1>2. TypeOK'
  BY <1>1 DEF TypeOK, CloseClients
<1>3. Course'
  BY <1>1 DEF Course, Unstarted, CloseClients
<1> QED
  BY <1>2, <1>3, UntouchedInv DEF CloseClients, Unstarted

LEMMA SigtermInv ==
  ASSUME Inv, Sigterm
  PROVE  Inv'
<1>1. TypeOK /\ Course
  BY DEF Inv
<1>2. TypeOK'
  BY <1>1 DEF TypeOK, Sigterm, process
<1>3. Course'
  BY <1>1 DEF Course, Unstarted, Sigterm, process
<1> QED
  BY <1>2, <1>3, UntouchedInv DEF Sigterm, Unstarted, process

LEMMA StutterInv ==
  ASSUME Inv, UNCHANGED vars
  PROVE  Inv'
<1>1. TypeOK /\ Course
  BY DEF Inv
<1>2. TypeOK'
  BY <1>1 DEF TypeOK, vars, process
<1>3. Course'
  BY <1>1 DEF Course, Unstarted, vars, process
<1> QED
  BY <1>2, <1>3, UntouchedInv DEF Unstarted, vars, process

(* Shutdown returns only when no HTTP/1 connection is left. *)
LEMMA PollInv ==
  ASSUME Inv, Poll
  PROVE  Inv'
<1>1. TypeOK /\ Course /\ main = "poll" /\ \A c \in Clients : Client(c)
  BY DEF Inv, Poll
<1>2. PICK closing \in SUBSET {c \in Clients : conn[c] \in {"new", "idle"}} :
        /\ conn' = [c \in Clients |-> IF c \in closing THEN "closed" ELSE conn[c]]
        /\ IF Quiescent(closing)
             THEN Return("ok")
             ELSE main' = "wait" /\ UNCHANGED status
  BY DEF Poll
<1>3. UNCHANGED <<program, booted, listener, firestore, term, overdue, req>>
  BY DEF Poll
<1>4. /\ main' \in {"closing", "wait"}
      /\ main' = "wait" => status' = "running"
      /\ main' = "closing" => Quiescent(closing) /\ status' = "ok"
      /\ status = "running" /\ ~Unstarted /\ listener # "open" /\ ~overdue
      /\ firestore # "closed"
  BY <1>1, <1>2 DEF Course, Return
<1>5. TypeOK'
  BY <1>1, <1>2, <1>3, <1>4 DEF TypeOK
<1>6. Course'
  BY <1>3, <1>4 DEF Course, Unstarted
<1>7. ASSUME NEW c \in Clients
      PROVE  Client(c)'
  <2>1. /\ conn'[c] = IF c \in closing THEN "closed" ELSE conn[c]
        /\ c \in closing => conn[c] \in {"new", "idle"}
        /\ Client(c) /\ req'[c] = req[c]
    BY <1>1, <1>2, <1>3
  <2>2. Connected(c)'
    BY <1>3, <2>1 DEF Client, Connected, Hijacks, InFlight
  <2>3. Ended(c)'
    BY <1>1, <1>4, <2>1 DEF Client, Ended
  <2>4. Quiet(c)'
    BY <1>3, <1>4 DEF Quiet, Unstarted
  <2>5. Drained(c)'
    <3>1. req[c].stage # "cut"
      BY <1>1, <2>1 DEF Client, Ended
    <3>2. main' = "closing" /\ ~Hijacks(c) => conn'[c] = "closed"
      BY <1>4, <2>1 DEF Quiescent, Client, Connected
    <3>3. status' = "ok" => main' = "closing"
      BY <1>4
    <3> QED
      BY <1>3, <2>1, <3>1, <3>2, <3>3 DEF Drained, Hijacks
  <2>6. Told(c)'
    BY <1>3, <2>1 DEF Client, Told
  <2> QED
    BY <2>2, <2>3, <2>4, <2>5, <2>6 DEF Client
<1> QED
  BY <1>5, <1>6, <1>7 DEF Inv

(* The end of the process: from a drain that met its deadline no HTTP/1     *)
(* request is in flight.                                                    *)
LEMMA EndInv ==
  ASSUME Inv, End, TypeOK', Course', UNCHANGED <<program, booted, overdue>>,
         status' = "ok" => status = "ok"
  PROVE  Inv'
<1> SUFFICES ASSUME NEW c \in Clients PROVE Client(c)'
  BY DEF Inv
<1>1. /\ Client(c) /\ req[c] \in Requests /\ TypeOK
      /\ main' = "exited" /\ conn'[c] = "closed"
      /\ req'[c] = IF req[c].stage \in InFlight THEN [req[c] EXCEPT !.stage = "cut"] ELSE req[c]
  BY DEF Inv, TypeOK, End
<1>2. req'[c].stage = IF req[c].stage \in InFlight THEN "cut" ELSE req[c].stage
  BY <1>1 DEF Requests
<1>3. Connected(c)' /\ Ended(c)'
  BY <1>1, <1>2 DEF Connected, Ended, InFlight
<1>4. Quiet(c)'
  BY <1>1, <1>2 DEF Client, Quiet, Unstarted, InFlight
<1>5. Drained(c)'
  BY <1>1, <1>2 DEF Client, Drained, Connected, Hijacks
<1>6. Told(c)'
  <2>1. CASE req[c].stage \in InFlight
    BY <1>2, <2>1 DEF Told, InFlight
  <2>2. CASE req[c].stage \notin InFlight
    BY <1>1, <2>2 DEF Client, Told
  <2> QED
    BY <2>1, <2>2
<1> QED
  BY <1>3, <1>4, <1>5, <1>6 DEF Client

LEMMA EndTyped ==
  ASSUME TypeOK, End
  PROVE  /\ conn' \in [Clients -> {"closed", "new", "active", "idle", "hijacked"}]
         /\ req' \in [Clients -> Requests]
         /\ main' = "exited"
<1>1. \A c \in Clients :
        (IF req[c].stage \in InFlight THEN [req[c] EXCEPT !.stage = "cut"] ELSE req[c]) \in Requests
  BY DEF TypeOK, Requests
<1> QED
  BY <1>1 DEF End

LEMMA ExitInv ==
  ASSUME Inv, Exit
  PROVE  Inv'
<1>1. TypeOK /\ Course /\ End
  BY DEF Inv, Exit
<1>2. TypeOK'
  BY <1>1, EndTyped DEF TypeOK, Exit
<1>3. Course'
  BY <1>1, EndTyped DEF Course, Unstarted, Exit
<1> QED
  BY <1>1, <1>2, <1>3, EndInv DEF Exit

LEMMA SigkillInv ==
  ASSUME Inv, Sigkill
  PROVE  Inv'
<1>1. TypeOK /\ Course /\ End
  BY DEF Inv, Sigkill
<1>2. TypeOK'
  BY <1>1, EndTyped DEF TypeOK, Sigkill
<1>3. Course'
  BY <1>1, EndTyped DEF Course, Unstarted, Sigkill
<1> QED
  BY <1>1, <1>2, <1>3, EndInv DEF Sigkill

LEMMA MainStepInv ==
  ASSUME Inv, MainStep
  PROVE  Inv'
BY BootInv, BootFailsInv, ListenerFailedInv, ShutdownInv, PollInv, PollAgainInv,
   GraceOverInv, CloseClientsInv, ExitInv DEF MainStep

LEMMA NextInv ==
  ASSUME Inv, [Next]_vars
  PROVE  Inv'
BY MainStepInv, ListenInv, AcceptFailsInv, ClientStepInv, SigtermInv, SigkillInv,
   StutterInv DEF Next

(* The inductive invariant holds: what main, the listener, the connections  *)
(* and the requests say of each other, from the start-up to the exit.       *)
THEOREM InvHolds == Spec => []Inv
<1>1. Init => Inv
  BY InitInv
<1>2. Inv /\ [Next]_vars => Inv'
  BY NextInv
<1> QED
  BY <1>1, <1>2, PTL DEF Spec

-----------------------------------------------------------------------------
(* Every variable keeps its type. *)
THEOREM TypesHold == Spec => []TypeOK
<1>1. Inv => TypeOK
  BY DEF Inv
<1> QED
  BY <1>1, InvHolds, PTL

(* The drain abandons a request on an HTTP/1 connection only when the grace *)
(* period is over, the process is killed or the listener failed, and never  *)
(* one of a BFF that exits with 0.                                          *)
THEOREM DrainIsKept == Spec => []CutOnlyWhenOverdue
<1>1. ASSUME Inv, NEW c \in Clients, Abandoned(c), ~Hijacks(c)
      PROVE  /\ overdue \/ status = "killed" \/ listener = "failed"
             /\ program = "bff" => status # "ok"
  <2>1. Client(c) /\ Course /\ TypeOK
    BY <1>1 DEF Inv
  <2>2. req[c].stage \in InFlight \cup {"cut"} /\ main \in {"closing", "exited"}
    BY <1>1, <2>1 DEF Abandoned, Client, Ended, Course
  <2>3. ~Unstarted
    BY <2>1, <2>2 DEF Client, Quiet, InFlight
  <2>4. status # "running"
    BY <2>1, <2>2 DEF Course
  <2>5. ~(status = "ok" /\ ~overdue)
    BY <1>1, <2>1, <2>2 DEF Client, Drained, Connected
  <2> QED
    BY <2>1, <2>3, <2>4, <2>5 DEF Course, TypeOK
<1>2. Inv => CutOnlyWhenOverdue
  BY <1>1 DEF CutOnlyWhenOverdue
<1> QED
  BY <1>2, InvHolds, PTL

(* The answers of the BFF mean what they say, whatever the interleaving. *)
THEOREM AnswersAreTrue == Spec => []AnswersTellTheTruth
<1>1. Inv => AnswersTellTheTruth
  BY DEF Inv, Client, Told, AnswersTellTheTruth
<1> QED
  BY <1>1, InvHolds, PTL
=============================================================================
