-------------------------------- MODULE HttpApi --------------------------------
(***************************************************************************)
(* The HTTP API behind its middleware: api/server.go, middleware.go,       *)
(* handlers.go, the administrator's handlers, and UserService.EnsureUser.  *)
(* A request passes a rate limiter, the verification of its initData, the  *)
(* registration of its caller, the check of the role, for some routes a    *)
(* second limiter, and then acts on the database in one step or in two.    *)
(* Requests run concurrently, every statement may fail with or without     *)
(* its effect, and the process may start again with another administrator  *)
(* configured.                                                             *)
(*                                                                         *)
(* Six routes stand for all: "verify" logs in, "me" stands for what a user *)
(* reads, "stats" for what an administrator reads, and three that act.     *)
(***************************************************************************)
EXTENDS RateLimiter

CONSTANTS
  Person,       \* Telegram users
  Ip,           \* addresses requests come from
  Request,      \* goroutines of the HTTP server
  MaxArrivals,  \* bound: requests that reach the server
  MaxBoots      \* bound: starts of the process

VARIABLES
  role,      \* users.role, "none" for a person without a row
  admin,     \* UserService.adminTelegramID, or None
  req,       \* req[r]: where the request of goroutine r is
  trail,     \* trail[p][a]: rows of admin_audit_logs of p about a
  acted,     \* history: acted[p][a]: how often p did a
  trusted,   \* history: who was ever configured as the administrator
  arrivals,  \* requests so far
  boots      \* starts so far

vars == <<limits, role, admin, req, trail, acted, trusted, arrivals, boots>>

-----------------------------------------------------------------------------

Act == {"correct", "export", "broadcast"}
AdminOp == Act \cup {"stats"}
Op == AdminOp \cup {"verify", "me"}

\* The five limiters and what each is keyed by. The login's key is the id the
\* request claims, and the address only if it claims none.
ApiKeys ==
  ({"auth"} \X (Person \cup Ip)) \cup ({"userIP", "admin"} \X Ip)
                                 \cup ({"user", "correction"} \X Person)

ASSUME KeyAssumption == Key = ApiKeys
ASSUME PersonAssumption == None \notin Person
ASSUME BoundsAssumption ==
  /\ MaxArrivals \in Nat /\ MaxBoots \in Nat \ {0}
  /\ IsFiniteSet(Request)

\* The limiter a request meets first.
Gate(op, p, ip) ==
  CASE op = "verify" -> <<"auth", IF p = None THEN ip ELSE p>>
    [] op = "me" -> <<"userIP", ip>>
    [] op \in AdminOp -> <<"admin", ip>>

\* The limiter behind the authentication, of the routes that have one.
Budgeted == {"me", "correct"}
Allowance(r) == <<IF req[r].op = "me" THEN "user" ELSE "correction", req[r].who>>

Idling == [pc |-> "idle"]
Working(pc, op, p, rl) == [pc |-> pc, op |-> op, who |-> p, role |-> rl]

At(r, pc) == req[r].pc = pc
Goes(r, pc) == req' = [req EXCEPT ![r].pc = pc]
Ends(r) == req' = [req EXCEPT ![r] = Idling]

\* The caller is known, with role rl: requireAdmin, then the next handler.
After(r, rl) ==
  req' = [req EXCEPT ![r] =
            IF req[r].op = "verify" \/ (req[r].op \in AdminOp /\ rl # "admin") THEN Idling
            ELSE Working(IF req[r].op \in Budgeted THEN "budget" ELSE "handle",
                         req[r].op, req[r].who, rl)]

Logs(p, a) == trail' = [trail EXCEPT ![p][a] = @ + 1]
Does(p, a) == acted' = [acted EXCEPT ![p][a] = @ + 1]

-----------------------------------------------------------------------------

NoRows == [p \in Person |-> [a \in Act |-> 0]]

Init ==
  /\ LimiterInit
  /\ role = [p \in Person |-> "none"]
  /\ admin \in Person \cup {None}
  /\ req = [r \in Request |-> Idling]
  /\ trail = NoRows /\ acted = NoRows
  /\ trusted = {admin} \ {None}
  /\ arrivals = 0 /\ boots = 1

\* A request for op comes in from ip; p is whom its initData names, or None.
\* It is turned away by the limiter, by the verification, or goes on.
Arrives(r, op, p, ip) ==
  LET k == Gate(op, p, ip) IN
  /\ At(r, "idle") /\ arrivals < MaxArrivals
  /\ arrivals' = arrivals + 1
  /\ \/ Refuses(k) /\ UNCHANGED req
     \/ Allows(k) /\ UNCHANGED req
     \/ Allows(k) /\ p # None /\ req' = [req EXCEPT ![r] = Working("auth", op, p, "none")]
  /\ UNCHANGED <<role, admin, trail, acted, trusted, boots>>

\* Mutant of Upserts: the row is written anew, with the default role.
UpsertsAnew(r, answered) ==
  /\ At(r, "auth")
  /\ LET p == req[r].who IN
     /\ role' = [role EXCEPT ![p] = "user"]
     /\ IF ~answered THEN Ends(r)
        ELSE IF admin = p THEN req' = [req EXCEPT ![r].pc = "promote"]
        ELSE After(r, role'[p])
  /\ UNCHANGED <<limits, admin, trail, acted, trusted, arrivals, boots>>

\* EnsureUser's first statement: a row for the caller, whose role it keeps.
\* The configured administrator without the role goes on to be promoted.
Upserts(r, answered) ==
  /\ At(r, "auth")
  /\ LET p == req[r].who
         rl == IF role[p] = "none" THEN "user" ELSE role[p] IN
     /\ role' = [role EXCEPT ![p] = rl]
     /\ IF ~answered THEN Ends(r)
        ELSE IF admin = p /\ rl # "admin" THEN Goes(r, "promote")
        ELSE After(r, rl)
  /\ UNCHANGED <<limits, admin, trail, acted, trusted, arrivals, boots>>

\* EnsureUser's second statement.
Promotes(r, answered) ==
  /\ At(r, "promote")
  /\ role' = [role EXCEPT ![req[r].who] = "admin"]
  /\ IF answered THEN After(r, "admin") ELSE Ends(r)
  /\ UNCHANGED <<limits, admin, trail, acted, trusted, arrivals, boots>>

\* The limiter behind the authentication.
SpendsAllowance(r) ==
  /\ At(r, "budget")
  /\ \/ Allows(Allowance(r)) /\ Goes(r, "handle")
     \/ Refuses(Allowance(r)) /\ Ends(r)
  /\ UNCHANGED <<role, admin, trail, acted, trusted, arrivals, boots>>

\* The correction and its audit row, in one transaction.
Corrects(r) ==
  /\ At(r, "handle") /\ req[r].op = "correct"
  /\ Does(req[r].who, "correct") /\ Logs(req[r].who, "correct")
  /\ Ends(r)
  /\ UNCHANGED <<limits, role, admin, trusted, arrivals, boots>>

\* Mutant of RecordsExport: rows are streamed before they are accounted for.
StreamsFirst(r, answered) ==
  /\ At(r, "handle") /\ req[r].op = "export"
  /\ Does(req[r].who, "export")
  /\ IF answered THEN Logs(req[r].who, "export") /\ Ends(r) ELSE UNCHANGED trail /\ Ends(r)
  /\ UNCHANGED <<limits, role, admin, trusted, arrivals, boots>>

\* The audit row of an export; without its answer the export is off.
RecordsExport(r, answered) ==
  /\ At(r, "handle") /\ req[r].op = "export"
  /\ Logs(req[r].who, "export")
  /\ IF answered THEN Goes(r, "stream") ELSE Ends(r)
  /\ UNCHANGED <<limits, role, admin, acted, trusted, arrivals, boots>>

\* Rows of an export reach the administrator.
Streams(r) ==
  /\ At(r, "stream")
  /\ Does(req[r].who, "export") /\ Ends(r)
  /\ UNCHANGED <<limits, role, admin, trail, trusted, arrivals, boots>>

\* A broadcast is started; its fan-out needs the request no longer.
StartsBroadcast(r) ==
  /\ At(r, "handle") /\ req[r].op = "broadcast"
  /\ Does(req[r].who, "broadcast") /\ Goes(r, "record")
  /\ UNCHANGED <<limits, role, admin, trail, trusted, arrivals, boots>>

\* Its audit row; whether the insert is answered makes no difference.
RecordsBroadcast(r) ==
  /\ At(r, "record")
  /\ Logs(req[r].who, "broadcast") /\ Ends(r)
  /\ UNCHANGED <<limits, role, admin, acted, trusted, arrivals, boots>>

\* A read is answered; or what r does next is refused, fails without an effect,
\* meets its deadline or a client that is gone, or panics.
Answers(r) ==
  /\ ~At(r, "idle") /\ Ends(r)
  /\ UNCHANGED <<limits, role, admin, trail, acted, trusted, arrivals, boots>>

\* The janitor sweeps the limiters one after another.
Janitor ==
  /\ \E l \in {"auth", "userIP", "user", "admin", "correction"} :
        Sweep({k \in Key : k[1] = l})
  /\ UNCHANGED <<role, admin, req, trail, acted, trusted, arrivals, boots>>

Clock == Tick /\ UNCHANGED <<role, admin, req, trail, acted, trusted, arrivals, boots>>

\* The process dies or is deployed anew; the database stays, and another
\* administrator may be configured. Nobody loses the role for that.
Restarts ==
  /\ boots < MaxBoots /\ boots' = boots + 1
  /\ Forget
  /\ req' = [r \in Request |-> Idling]
  /\ admin' \in Person \cup {None}
  /\ trusted' = (trusted \cup {admin'}) \ {None}
  /\ UNCHANGED <<role, trail, acted, arrivals>>

RequestStep(r) ==
  \/ \E op \in Op, p \in Person \cup {None}, ip \in Ip : Arrives(r, op, p, ip)
  \/ \E answered \in BOOLEAN :
        Upserts(r, answered) \/ Promotes(r, answered) \/ RecordsExport(r, answered)
  \/ SpendsAllowance(r) \/ Corrects(r) \/ Streams(r)
  \/ StartsBroadcast(r) \/ RecordsBroadcast(r) \/ Answers(r)

Next == Clock \/ Janitor \/ Restarts \/ \E r \in Request : RequestStep(r)

Spec == Init /\ [][Next]_vars

-----------------------------------------------------------------------------
(* Correctness properties *)

Phases ==
  {Idling} \cup {Working(pc, op, p, rl) :
    pc \in {"auth", "promote", "budget", "handle", "stream", "record"},
    op \in Op, p \in Person, rl \in {"none", "user", "admin"}}

\* Every variable has the values the code gives it; a bucket never holds more
\* than its burst, less than nothing, or the time of a later request.
TypeOK ==
  /\ LimiterOK
  /\ role \in [Person -> {"none", "user", "admin"}]
  /\ admin \in Person \cup {None}
  /\ req \in [Request -> Phases]
  /\ trail \in [Person -> [Act -> Nat]] /\ acted \in [Person -> [Act -> Nat]]
  /\ trusted \subseteq Person
  /\ arrivals \in 0 .. MaxArrivals /\ boots \in 1 .. MaxBoots

\* The audit trail, however requests overlap, fail half-way or are cut off by a
\* restart: it tells of exactly the corrections that took effect and of every
\* export that sent a row, and it tells of no broadcast that was not started.
AuditTrail ==
  \A p \in Person :
    /\ trail[p]["correct"] = acted[p]["correct"]
    /\ acted[p]["export"] <= trail[p]["export"]
    /\ trail[p]["broadcast"] <= acted[p]["broadcast"]

\* Only administrators act, only who was configured as one becomes one, and
\* nobody stops being one, whatever is configured later: EnsureUser, which runs
\* on every request, refreshes the row but not the role.
RolesEarned ==
  \A p \in Person :
    /\ role[p] = "admin" => p \in trusted
    /\ (\E a \in Act : acted[p][a] + trail[p][a] > 0) => role[p] = "admin"

=============================================================================
