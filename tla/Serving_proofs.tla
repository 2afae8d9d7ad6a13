--------------------------- MODULE Serving_proofs ---------------------------
(***************************************************************************)
(* Theorems about the process and its shutdown (Server), about what the    *)
(* status of a request tells (Api), about the directory pages (Pages) and  *)
(* about the search of the create form (IsinSearch).                       *)
(***************************************************************************)
EXTENDS Server, Api, Pages, IsinSearch, TLAPS

-----------------------------------------------------------------------------
(* Server                                                                  *)

(* Where main() may be once it has begun to leave. *)
Leaving == main \in {"stopping bus", "settling", "closing", "ended"}

(* A server thread that is over has left no task, main() leaves only after *)
(* it unless it gave up, and each step of the shutdown finds the ones      *)
(* before it done.                                                         *)
ServerInv ==
    /\ backlog \in Nat
    /\ main = "starting" => server = "off" /\ bus = "off" /\ backlog = 0
    /\ ~ServerAlive => jobs = {}
    /\ Leaving /\ ~gaveUp => ~ServerAlive
    /\ main \in {"settling", "closing", "ended"} /\ ~gaveUp => bus # "running" /\ backlog = 0
    /\ http = "closed" => main \in {"closing", "ended"}
    /\ main = "ended" /\ ~gaveUp => http = "closed" /\ engine = "disposed"

(* A step keeps the shutdown's order. *)
LEMMA ServerStep ==
    ASSUME ServerInv, [ServerNext]_serverVars
    PROVE  ServerInv'
<1> USE DEF ServerInv, Leaving, ServerAlive
<1>1. CASE Start
  BY <1>1 DEF Start
<1>2. CASE StartFails
  BY <1>2 DEF StartFails
<1>3. CASE Signal
  BY <1>3 DEF Signal
<1>4. CASE ServerSeen
  BY <1>4 DEF ServerSeen, ServerAwaited
<1>5. CASE GiveUp
  BY <1>5 DEF GiveUp
<1>6. CASE StopBus
  BY <1>6 DEF StopBus
<1>7. CASE Settle
  BY <1>7 DEF Settle
<1>8. CASE CloseClient
  BY <1>8 DEF CloseClient
<1>9. CASE DisposeEngine
  BY <1>9 DEF DisposeEngine
<1>10. CASE PublishFromRequest
  <2>1. backlog \in Nat /\ backlog' = backlog + 1
    BY <1>10 DEF PublishFromRequest
  <2>2. ServerAlive /\ bus = "running"
    BY <1>10 DEF PublishFromRequest
  <2>3. UNCHANGED <<main, server, bus, jobs, http, engine, gaveUp>>
    BY <1>10 DEF PublishFromRequest
  <2>4. backlog' \in Nat
    <3> HIDE DEF ServerInv
    <3> QED
      BY <2>1
  <2> QED
    BY <2>2, <2>3, <2>4
<1>11. CASE ServerEnds
  BY <1>11 DEF ServerEnds
<1>12. CASE DispatchOnMain
  <2>1. backlog \in Nat /\ backlog > 0 /\ backlog' = backlog - 1
    BY <1>12 DEF DispatchOnMain
  <2>2. bus = "running" /\ UNCHANGED <<main, server, bus, jobs, http, engine, gaveUp>>
    BY <1>12 DEF DispatchOnMain
  <2>3. backlog' \in Nat /\ backlog # 0
    <3> HIDE DEF ServerInv
    <3> QED
      BY <2>1
  <2> QED
    BY <2>2, <2>3
<1>13. CASE Sleep
  BY <1>13 DEF Sleep
<1>14. ASSUME NEW j \in PopulateJobs, SchedulePopulate(j)
       PROVE  ServerInv'
  BY <1>14 DEF SchedulePopulate
<1>15. ASSUME NEW j \in PopulateJobs, PopulateEnds(j)
       PROVE  ServerInv'
  BY <1>15 DEF PopulateEnds
<1>16. CASE UNCHANGED serverVars
  BY <1>16 DEF serverVars
<1> QED
  BY <1>1, <1>2, <1>3, <1>4, <1>5, <1>6, <1>7, <1>8, <1>9, <1>10, <1>11, <1>12, <1>13,
     <1>14, <1>15, <1>16 DEF ServerNext, MainStep

(* main() ends in order, for any number of populate tasks and a queue of   *)
(* any size: unless it gave the server thread up, nobody publishes, runs a *)
(* task or waits in a queue when the client is closed, and it does not end *)
(* before client and engine are closed.                                    *)
THEOREM ShutdownIsOrderly == ServerSpec => []OrderlyShutdown
<1>1. ServerInit => ServerInv
  BY DEF ServerInit, ServerInv, Leaving, ServerAlive
<1>2. ServerInv /\ [ServerNext]_serverVars => ServerInv'
  BY ServerStep
<1>3. ServerInv => OrderlyShutdown
  BY DEF ServerInv, Leaving, OrderlyShutdown, ServerAlive
<1> QED
  BY <1>1, <1>2, <1>3, PTL DEF ServerSpec

-----------------------------------------------------------------------------
(* Api                                                                     *)

(* No error has the status of a success. *)
LEMMA StatusCodes ==
    ASSUME NEW error
    PROVE  StatusOf(error) # 200
<1> DEFINE kinds == {"NotFound", "Conflict", "Forbidden", "Unprocessable", "BadRequest",
                     "Unauthorized", "Unavailable"}
<1>1. DOMAIN Mapped = kinds
  BY DEF Mapped
<1>2. \A kind \in kinds : Code[kind] # 200
  BY DEF Code
<1>3. CASE \E kind \in DOMAIN Mapped : error \in Mapped[kind]
  <2> DEFINE kind == CHOOSE k \in DOMAIN Mapped : error \in Mapped[k]
  <2>1. kind \in kinds
    BY <1>1, <1>3
  <2>2. StatusOf(error) = Code[kind]
    BY <1>3 DEF StatusOf
  <2> HIDE DEF kind
  <2> QED
    BY <1>2, <2>1, <2>2
<1>4. CASE ~\E kind \in DOMAIN Mapped : error \in Mapped[kind]
  BY <1>4 DEF StatusOf
<1> QED
  BY <1>3, <1>4

(* A request under way has not changed anything but a change whose event   *)
(* is still to come, and an answer says what it should of the change.      *)
RequestInv(r) ==
    \/ r \in [phase : {"none"}]
    \/ r \in [phase : {"served", "published"}, endpoint : Endpoints]
    \/ /\ r \in [phase : {"committed"}, endpoint : Endpoints]
       /\ r.endpoint.change = "after_commit"
    \/ /\ r.phase = "answered"
       /\ \/ r.committed = FALSE /\ (r.status # 200 \/ ~Writes(r.by))
          \/ r.committed = TRUE /\ r.status = 200 /\ Writes(r.by)
          \/ r.committed = TRUE /\ r.status = 500 /\ r.by.change = "after_commit"

ApiInv ==
    /\ running \in BOOLEAN /\ DOMAIN request = Clients
    /\ \A c \in Clients : RequestInv(request[c])

(* An answer that changed nothing is any but the success of a write. *)
LEMMA NothingChanged ==
    ASSUME NEW status, NEW raised, NEW endpoint, status # 200 \/ ~Writes(endpoint)
    PROVE  RequestInv([phase |-> "answered", status |-> status, raised |-> raised,
                       committed |-> FALSE, by |-> endpoint])
<1> DEFINE r == [phase |-> "answered", status |-> status, raised |-> raised,
                 committed |-> FALSE, by |-> endpoint]
<1>1. r.phase = "answered"
  BY Zenon
<1>2. r.status = status /\ r.by = endpoint
  BY Zenon
<1>3. r.committed = FALSE
  BY Zenon
<1> HIDE DEF r
<1>4. RequestInv(r)
  BY <1>1, <1>2, <1>3, Zenon DEF RequestInv
<1> QED
  BY <1>4, Zenon DEF r

(* An answer that changed something is a success or in doubt. *)
LEMMA SomethingChanged ==
    ASSUME NEW status, NEW raised, NEW endpoint,
           \/ status = 200 /\ Writes(endpoint)
           \/ status = 500 /\ endpoint.change = "after_commit"
    PROVE  RequestInv([phase |-> "answered", status |-> status, raised |-> raised,
                       committed |-> TRUE, by |-> endpoint])
<1> DEFINE r == [phase |-> "answered", status |-> status, raised |-> raised,
                 committed |-> TRUE, by |-> endpoint]
<1>1. r.phase = "answered"
  BY Zenon
<1>2. r.status = status /\ r.by = endpoint
  BY Zenon
<1>3. r.committed = TRUE
  BY Zenon
<1> HIDE DEF r
<1>4. RequestInv(r)
  BY <1>1, <1>2, <1>3, Zenon DEF RequestInv
<1> QED
  BY <1>4, Zenon DEF r

(* The requests of the other clients stay as they are. *)
LEMMA OneRequest ==
    ASSUME ApiInv, NEW c \in Clients, NEW r, RequestInv(r),
           request' = [request EXCEPT ![c] = r], running' = running
    PROVE  ApiInv'
  BY Zenon DEF ApiInv

(* What a request that is served looks like. *)
LEMMA ServedShape ==
    ASSUME NEW r, RequestInv(r), r.phase = "served"
    PROVE  r = [phase |-> "served", endpoint |-> r.endpoint] /\ r.endpoint \in Endpoints
<1>1. CASE r \in [phase : {"none"}]
  BY <1>1
<1>2. CASE r \in [phase : {"served", "published"}, endpoint : Endpoints]
  BY <1>2
<1>3. CASE r \in [phase : {"committed"}, endpoint : Endpoints]
  BY <1>3
<1>4. "answered" # "served"
  OBVIOUS
<1> QED
  BY <1>1, <1>2, <1>3, <1>4, Zenon DEF RequestInv

(* A served request that goes on. *)
LEMMA Onward ==
    ASSUME NEW r, RequestInv(r), r.phase = "served"
    PROVE  /\ RequestInv([r EXCEPT !.phase = "published"])
           /\ r.endpoint.change = "after_commit" => RequestInv([r EXCEPT !.phase = "committed"])
<1>1. r = [phase |-> "served", endpoint |-> r.endpoint] /\ r.endpoint \in Endpoints
  BY ServedShape
<1>2. [r EXCEPT !.phase = "published"] = [phase |-> "published", endpoint |-> r.endpoint]
  BY <1>1
<1>3. [r EXCEPT !.phase = "committed"] = [phase |-> "committed", endpoint |-> r.endpoint]
  BY <1>1
<1>4. [phase |-> "published", endpoint |-> r.endpoint] \in [phase : {"served", "published"}, endpoint : Endpoints]
  BY <1>1
<1>5. [phase |-> "committed", endpoint |-> r.endpoint] \in [phase : {"committed"}, endpoint : Endpoints]
  BY <1>1
<1>6. [phase |-> "committed", endpoint |-> r.endpoint].endpoint = r.endpoint
  OBVIOUS
<1> QED
  BY <1>2, <1>3, <1>4, <1>5, <1>6, Zenon DEF RequestInv

(* An answer that leaves nothing changed, or says what it should of the    *)
(* change.                                                                 *)
LEMMA ToldStep ==
    ASSUME ApiInv, NEW c \in Clients, NEW status, NEW raised, NEW committed \in BOOLEAN,
           Told(c, status, raised, committed), running' = running,
           committed = FALSE => status # 200 \/ ~Writes(request[c].endpoint),
           committed = TRUE =>
               \/ status = 200 /\ Writes(request[c].endpoint)
               \/ status = 500 /\ request[c].endpoint.change = "after_commit"
    PROVE  ApiInv'
<1> DEFINE endpoint == request[c].endpoint
           r == [phase |-> "answered", status |-> status, raised |-> raised,
                 committed |-> committed, by |-> endpoint]
<1>1. r.phase = "answered" /\ r.status = status /\ r.by = endpoint /\ r.committed = committed
  BY Zenon
<1>2. request' = [request EXCEPT ![c] = r]
  BY DEF Told
<1>3. committed = TRUE \/ committed = FALSE
  OBVIOUS
<1> HIDE DEF r
<1>4. RequestInv(r)
  BY <1>1, <1>3, Zenon DEF RequestInv
<1> QED
  BY <1>2, <1>4, OneRequest, Zenon

(* A service that refuses. *)
LEMMA RefusedStep ==
    ASSUME ApiInv, NEW c \in Clients, Refused(c)
    PROVE  ApiInv'
<1>1. running' = running
  BY DEF Refused
<1>2. ASSUME NEW error, Told(c, StatusOf(error), error, FALSE)
      PROVE  ApiInv'
  <2>1. PICK status : status = StatusOf(error)
    OBVIOUS
  <2>2. status # 200 /\ Told(c, status, error, FALSE)
    BY <1>2, <2>1, StatusCodes, Zenon
  <2> QED
    BY <1>1, <2>2, ToldStep
<1>3. CASE Told(c, 404, "HTTPException", FALSE)
  <2>1. PICK status, raised : status = 404 /\ raised = "HTTPException"
    OBVIOUS
  <2>2. Told(c, status, raised, FALSE)
    BY <1>3, <2>1, Zenon
  <2>3. status # 200
    BY <2>1
  <2> QED
    BY <1>1, <2>2, <2>3, ToldStep
<1> QED
  BY <1>2, <1>3, Zenon DEF Refused

(* A database that fails. *)
LEMMA DatabaseFailsStep ==
    ASSUME ApiInv, NEW c \in Clients, DatabaseFails(c)
    PROVE  ApiInv'
<1>1. PICK status, raised : status = 500 /\ raised = "DBAPIError"
  OBVIOUS
<1>2. Told(c, status, raised, FALSE) /\ running' = running
  BY <1>1, Zenon DEF DatabaseFails
<1>3. status # 200
  BY <1>1
<1> QED
  BY <1>2, <1>3, ToldStep

(* A read that succeeds. *)
LEMMA ReadsStep ==
    ASSUME ApiInv, NEW c \in Clients, Reads(c)
    PROVE  ApiInv'
<1>1. PICK status, raised : status = 200 /\ raised = "none"
  OBVIOUS
<1>2. ~Writes(request[c].endpoint) /\ Told(c, status, raised, FALSE) /\ running' = running
  BY <1>1 DEF Reads
<1> QED
  BY <1>2, ToldStep

(* A publication, or its failure. *)
LEMMA PublishesStep ==
    ASSUME ApiInv, NEW c \in Clients, Publishes(c)
    PROVE  ApiInv'
<1> DEFINE endpoint == request[c].endpoint
<1>1. running' = running /\ Publishing(endpoint) /\ RequestInv(request[c])
  BY DEF Publishes, ApiInv
<1>2. CASE Told(c, 500, "RuntimeError", CommitsFirst(endpoint))
  <2>1. PICK status, raised : status = 500 /\ raised = "RuntimeError"
    OBVIOUS
  <2>2. status # 200
    BY <2>1
  <2>3. CASE endpoint.change = "after_commit"
    <3>1. Told(c, status, raised, TRUE)
      BY <1>2, <2>1, <2>3, Zenon DEF CommitsFirst
    <3> QED
      BY <1>1, <2>1, <2>3, <3>1, ToldStep
  <2>4. CASE endpoint.change # "after_commit"
    <3>1. Told(c, status, raised, FALSE)
      BY <1>2, <2>1, <2>4, Zenon DEF CommitsFirst
    <3> QED
      BY <1>1, <2>2, <3>1, ToldStep
  <2> QED
    BY <2>3, <2>4
<1>3. CASE Told(c, 200, "none", TRUE)
  <2>1. PICK status, raised : status = 200 /\ raised = "none"
    OBVIOUS
  <2>2. Writes(endpoint) /\ Told(c, status, raised, TRUE)
    BY <1>1, <1>3, <2>1 DEF Publishing, Writes
  <2> QED
    BY <1>1, <2>1, <2>2, ToldStep
<1>4. CASE /\ request[c].phase = "served"
           /\ request' = [request EXCEPT ![c] = [@ EXCEPT !.phase = "published"]]
  <2> DEFINE r == [request[c] EXCEPT !.phase = "published"]
  <2>1. RequestInv(r)
    BY <1>1, <1>4, Onward
  <2> QED
    BY <1>1, <1>4, <2>1, OneRequest
<1> QED
  BY <1>2, <1>3, <1>4, Zenon DEF Publishes

(* A commit, or its failure. *)
LEMMA CommitsStep ==
    ASSUME ApiInv, NEW c \in Clients, Commits(c)
    PROVE  ApiInv'
<1> DEFINE endpoint == request[c].endpoint
<1>1. running' = running /\ Writes(endpoint) /\ RequestInv(request[c])
  BY DEF Commits, ApiInv
<1>2. CASE Told(c, 500, "DBAPIError", FALSE)
  <2>1. PICK status, raised : status = 500 /\ raised = "DBAPIError"
    OBVIOUS
  <2>2. Told(c, status, raised, FALSE)
    BY <1>2, <2>1, Zenon
  <2>3. status # 200
    BY <2>1
  <2> QED
    BY <1>1, <2>2, <2>3, ToldStep
<1>3. CASE Told(c, 200, "none", TRUE)
  <2>1. PICK status, raised : status = 200 /\ raised = "none"
    OBVIOUS
  <2>2. Told(c, status, raised, TRUE)
    BY <1>3, <2>1
  <2> QED
    BY <1>1, <2>1, <2>2, ToldStep
<1>4. CASE /\ request[c].phase = "served" /\ endpoint.change = "after_commit"
           /\ request' = [request EXCEPT ![c] = [@ EXCEPT !.phase = "committed"]]
  <2> DEFINE r == [request[c] EXCEPT !.phase = "committed"]
  <2>1. RequestInv(r)
    BY <1>1, <1>4, Onward
  <2> QED
    BY <1>1, <1>4, <2>1, OneRequest
<1> QED
  BY <1>2, <1>3, <1>4 DEF Commits, CommitsFirst

(* Every step keeps the answers right. *)
LEMMA ApiStep ==
    ASSUME ApiInv, [ApiNext]_apiVars
    PROVE  ApiInv'
<1>1. CASE BusStops
  BY <1>1, Zenon DEF ApiInv, BusStops
<1>2. ASSUME NEW c \in Clients, TokenExpires(c)
      PROVE  ApiInv'
  BY <1>2, Zenon DEF ApiInv, TokenExpires
<1>3. ASSUME NEW c \in Clients, NEW endpoint \in Endpoints, Send(c, endpoint)
      PROVE  ApiInv'
  <2>1. RequestInv([phase |-> "served", endpoint |-> endpoint])
    BY DEF RequestInv
  <2>2. RequestInv([phase |-> "answered", status |-> 401, raised |-> "HTTPException",
                    committed |-> FALSE, by |-> endpoint])
    <3>1. PICK status, raised : status = 401 /\ raised = "HTTPException"
      OBVIOUS
    <3>2. status # 200
      BY <3>1
    <3>3. RequestInv([phase |-> "answered", status |-> status, raised |-> raised,
                      committed |-> FALSE, by |-> endpoint])
      BY <3>2, NothingChanged
    <3> QED
      BY <3>1, <3>3, Zenon
  <2>3. running' = running
    BY <1>3 DEF Send
  <2>4. CASE Admitted(c, endpoint)
    BY <1>3, <2>1, <2>3, <2>4, OneRequest DEF Send
  <2>5. CASE ~Admitted(c, endpoint)
    BY <1>3, <2>2, <2>3, <2>5, OneRequest DEF Send
  <2> QED
    BY <2>4, <2>5
<1>4. CASE UNCHANGED apiVars
  BY <1>4, Zenon DEF ApiInv, apiVars
<1> QED
  BY <1>1, <1>2, <1>3, <1>4, RefusedStep, DatabaseFailsStep, ReadsStep, PublishesStep,
     CommitsStep DEF ApiNext

(* For any number of clients, whatever the bus and the tokens do meanwhile:*)
(* a success has been committed, a named refusal has changed nothing, and  *)
(* only a transaction's 500 may hide a change.                             *)
THEOREM StatusIsHonest == ApiSpec => []StatusTellsOutcome
<1>1. ApiInit => ApiInv
  BY DEF ApiInit, ApiInv, RequestInv
<1>2. ApiInv /\ [ApiNext]_apiVars => ApiInv'
  BY ApiStep
<1>3. ApiInv => StatusTellsOutcome
  <2> SUFFICES ASSUME ApiInv, NEW c \in Clients, Answered(c)
               PROVE  LET r == request[c] IN
                      /\ r.status = 200 => (r.committed <=> Writes(r.by))
                      /\ Refusal(r.status) => ~r.committed
                      /\ r.status = 500 /\ r.committed => r.by.change = "after_commit"
    BY DEF StatusTellsOutcome
  <2> DEFINE r == request[c]
  <2>1. \/ r.committed = FALSE /\ (r.status # 200 \/ ~Writes(r.by))
        \/ r.committed = TRUE /\ r.status = 200 /\ Writes(r.by)
        \/ r.committed = TRUE /\ r.status = 500 /\ r.by.change = "after_commit"
    <3>1. r.phase = "answered" /\ RequestInv(r)
      BY DEF ApiInv, Answered
    <3>2. r \notin [phase : {"none"}]
      BY <3>1
    <3>3. r \notin [phase : {"served", "published"}, endpoint : Endpoints]
      BY <3>1
    <3>4. r \notin [phase : {"committed"}, endpoint : Endpoints]
      BY <3>1
    <3> HIDE DEF r
    <3> QED
      BY <3>1, <3>2, <3>3, <3>4, Zenon DEF RequestInv
  <2> HIDE DEF r
  <2>4. CASE r.committed = FALSE /\ (r.status # 200 \/ ~Writes(r.by))
    BY <2>4, Zenon DEF r
  <2>5. CASE r.committed = TRUE /\ r.status = 200 /\ Writes(r.by)
    <3>1. r.committed
      BY <2>5
    <3>2. r.status # 500 /\ ~Refusal(r.status)
      BY <2>5 DEF Refusal
    <3> QED
      BY <2>5, <3>1, <3>2, Zenon DEF r
  <2>6. CASE r.committed = TRUE /\ r.status = 500 /\ r.by.change = "after_commit"
    <3>1. r.status # 200 /\ ~Refusal(r.status)
      <4>1. r.status = 500
        BY <2>6, Zenon
      <4> QED
        BY <4>1 DEF Refusal
    <3> QED
      BY <2>6, <3>1, Zenon DEF r
  <2> QED
    BY <2>1, <2>4, <2>5, <2>6, Zenon
<1> QED
  BY <1>1, <1>2, <1>3, PTL DEF ApiSpec

(* An error by name has been refused under its status. *)
Mapping(raised, status, committed) ==
    raised \in Named => Refusal(status) /\ ~committed

MappedInv ==
    \A c \in Clients : request[c].phase = "answered" =>
        Mapping(request[c].raised, request[c].status, request[c].committed)

(* The errors some handler knows. *)
KnownErrors == UNION {Mapped[kind] : kind \in DOMAIN Mapped}

(* A known error has a status of its own, never a 500. *)
LEMMA KnownStatus ==
    ASSUME NEW error \in KnownErrors
    PROVE  Refusal(StatusOf(error))
<1> DEFINE kinds == {"NotFound", "Conflict", "Forbidden", "Unprocessable", "BadRequest",
                     "Unauthorized", "Unavailable"}
           kind == CHOOSE k \in DOMAIN Mapped : error \in Mapped[k]
<1>1. DOMAIN Mapped = kinds
  BY DEF Mapped
<1>2. \A k \in kinds : Refusal(Code[k])
  BY DEF Code, Refusal
<1>3. \E k \in DOMAIN Mapped : error \in Mapped[k]
  BY DEF KnownErrors
<1>4. kind \in kinds
  BY <1>1, <1>3
<1>5. StatusOf(error) = Code[kind]
  BY <1>3 DEF StatusOf
<1> HIDE DEF kind
<1> QED
  BY <1>2, <1>4, <1>5

(* The list of them. *)
LEMMA KnownList ==
    KnownErrors =
        {"BondNotFoundError", "NoBondsFoundError", "BrokerNotFoundError", "BrokerAccountNotFoundError",
         "BondIsinDuplicateError", "BondDeletionBlockedError", "BrokerHasAccountsError",
         "BrokerNameDuplicateError", "BrokerAccountHasTransactionsError",
         "BrokerAccountHasOperationsError", "UsernameTakenError",
         "BondNotOwnedError", "AccountOperationForbiddenError", "TransactionForbiddenError",
         "InsufficientPositionError", "InvalidTransactionError", "AuthError",
         "InvalidCredentialsError", "ProviderUnavailableError", "ProviderTimeoutError"}
<1>1. DOMAIN Mapped = {"NotFound", "Conflict", "Forbidden", "Unprocessable", "BadRequest",
                       "Unauthorized", "Unavailable"}
  BY DEF Mapped
<1>2. KnownErrors = Mapped["NotFound"] \cup Mapped["Conflict"] \cup Mapped["Forbidden"]
          \cup Mapped["Unprocessable"] \cup Mapped["BadRequest"]
          \cup Mapped["Unauthorized"] \cup Mapped["Unavailable"]
  BY <1>1 DEF KnownErrors
<1> QED
  BY <1>2 DEF Mapped

(* Every service call names errors some handler knows, but for the         *)
(* arithmetic of the yields.                                               *)
LEMMA NamedAreKnown ==
    ASSUME NEW endpoint \in Endpoints, NEW error \in endpoint.raises
    PROVE  error \in KnownErrors \/ error \in Arithmetic
<1> USE KnownList
<1>1. CASE endpoint \in AuthEndpoints
  BY <1>1 DEF AuthEndpoints, Endpoint
<1>2. CASE endpoint \in BondEndpoints
  <2>1. \/ endpoint.raises = {}
        \/ endpoint.raises = {"BondIsinDuplicateError"}
        \/ endpoint.raises = {"BondNotOwnedError"}
        \/ endpoint.raises = {"BondNotOwnedError", "BondDeletionBlockedError"}
    BY <1>2 DEF BondEndpoints, Endpoint
  <2> QED
    BY <2>1
<1>3. CASE endpoint \in ReferenceEndpoints
  BY <1>3 DEF ReferenceEndpoints, Endpoint
<1>4. CASE endpoint \in BrokerEndpoints
  <2>1. \/ endpoint.raises = {}
        \/ endpoint.raises = {"BrokerNameDuplicateError"}
        \/ endpoint.raises = {"BrokerHasAccountsError"}
    BY <1>4 DEF BrokerEndpoints, Endpoint
  <2> QED
    BY <2>1
<1>5. CASE endpoint \in AccountEndpoints
  <2>1. \/ endpoint.raises = {}
        \/ endpoint.raises = {"BrokerNotFoundError"}
        \/ endpoint.raises = {"BrokerAccountNotFoundError"}
        \/ endpoint.raises = {"BrokerAccountNotFoundError", "BrokerAccountHasTransactionsError", "BrokerAccountHasOperationsError"}
    BY <1>5 DEF AccountEndpoints, Endpoint
  <2> QED
    BY <2>1
<1>6. CASE endpoint \in TransactionEndpoints
  <2>1. \/ endpoint.raises = {}
        \/ endpoint.raises = {"InsufficientPositionError", "InvalidTransactionError"}
        \/ endpoint.raises = {"TransactionForbiddenError"}
        \/ endpoint.raises = {"TransactionForbiddenError", "InsufficientPositionError", "InvalidTransactionError"}
    BY <1>6 DEF TransactionEndpoints, Endpoint
  <2> QED
    BY <2>1
<1>7. CASE endpoint \in OperationEndpoints
  BY <1>7 DEF OperationEndpoints, Endpoint
<1>8. CASE endpoint \in PortfolioEndpoints
  BY <1>8 DEF PortfolioEndpoints, Endpoint
<1> QED
  BY <1>1, <1>2, <1>3, <1>4, <1>5, <1>6, <1>7, <1>8 DEF Endpoints

(* A named error is refused under its status, and what the model reports   *)
(* of anything else has none of their names.                               *)
LEMMA NamedStatus ==
    /\ \A error \in Named : Refusal(StatusOf(error))
    /\ {"none", "HTTPException", "DBAPIError", "RuntimeError"} \cap Named = {}
<1>1. ASSUME NEW error \in Named
      PROVE  error \in KnownErrors
  <2>1. PICK endpoint \in Endpoints : error \in endpoint.raises
    BY Zenon DEF Named
  <2>2. error \notin Arithmetic
    BY DEF Named
  <2> QED
    BY <2>1, <2>2, NamedAreKnown
<1>2. {"none", "HTTPException", "DBAPIError", "RuntimeError"} \cap KnownErrors = {}
  BY KnownList
<1> QED
  BY <1>1, <1>2, KnownStatus

(* An answer to one client. *)
LEMMA OneAnswer ==
    ASSUME ApiInv, MappedInv, NEW c \in Clients, NEW status, NEW raised, NEW committed,
           Told(c, status, raised, committed), Mapping(raised, status, committed)
    PROVE  MappedInv'
<1> DEFINE r == [phase |-> "answered", status |-> status, raised |-> raised,
                 committed |-> committed, by |-> request[c].endpoint]
<1>1. r.status = status /\ r.raised = raised /\ r.committed = committed
  BY Zenon
<1>2. request' = [request EXCEPT ![c] = r] /\ DOMAIN request = Clients
  BY DEF Told, ApiInv
<1> HIDE DEF r
<1>3. request'[c] = r /\ \A d \in Clients : d # c => request'[d] = request[d]
  BY <1>2
<1>4. Mapping(r.raised, r.status, r.committed)
  BY <1>1, Zenon
<1>5. ASSUME NEW d \in Clients, request'[d].phase = "answered"
      PROVE  Mapping(request'[d].raised, request'[d].status, request'[d].committed)
  BY <1>3, <1>4, <1>5, Zenon DEF MappedInv
<1> QED
  BY <1>5, Zenon DEF MappedInv, Mapping

(* What is no error by name needs no status of its own. *)
LEMMA Unnamed ==
    ASSUME ApiInv, MappedInv, NEW c \in Clients, NEW status, NEW committed,
           \E raised \in {"none", "HTTPException", "DBAPIError", "RuntimeError"} :
               Told(c, status, raised, committed)
    PROVE  MappedInv'
<1>1. PICK raised \in {"none", "HTTPException", "DBAPIError", "RuntimeError"} :
          Told(c, status, raised, committed)
  OBVIOUS
<1>2. Mapping(raised, status, committed)
  BY NamedStatus DEF Mapping
<1> QED
  BY <1>1, <1>2, OneAnswer

(* A request that goes on is not answered. *)
LEMMA NoAnswer ==
    ASSUME ApiInv, MappedInv, NEW c \in Clients, NEW r, r.phase # "answered",
           request' = [request EXCEPT ![c] = r]
    PROVE  MappedInv'
<1>1. request'[c] = r /\ \A d \in Clients : d # c => request'[d] = request[d]
  BY DEF ApiInv
<1> QED
  BY <1>1 DEF MappedInv

(* A refusal by name. *)
LEMMA NamedStep ==
    ASSUME ApiInv, MappedInv, NEW c \in Clients, NEW error \in request[c].endpoint.raises,
           request[c].phase = "served", Told(c, StatusOf(error), error, FALSE)
    PROVE  MappedInv'
<1>1. PICK status : status = StatusOf(error)
  OBVIOUS
<1>2. Mapping(error, status, FALSE)
  BY <1>1, NamedStatus DEF Mapping
<1>3. Told(c, status, error, FALSE)
  BY <1>1, Zenon
<1> QED
  BY <1>2, <1>3, OneAnswer

(* Every step keeps the named errors mapped. *)
LEMMA MappedStep ==
    ASSUME ApiInv, MappedInv, [ApiNext]_apiVars
    PROVE  MappedInv'
<1> DEFINE Other(raised) == raised \in {"none", "HTTPException", "DBAPIError", "RuntimeError"}
<1>0. Other("none") /\ Other("HTTPException") /\ Other("DBAPIError") /\ Other("RuntimeError")
  OBVIOUS
<1>u. ASSUME NEW c \in Clients, NEW status, NEW raised, NEW committed, Other(raised),
             Told(c, status, raised, committed)
      PROVE  MappedInv'
  BY <1>u, Unnamed
<1> HIDE DEF Other
<1>1. ASSUME NEW c \in Clients, Refused(c) PROVE MappedInv'
  BY <1>0, <1>u, <1>1, NamedStep, Zenon DEF Refused
<1>7. ASSUME NEW c \in Clients, DatabaseFails(c) PROVE MappedInv'
  BY <1>0, <1>u, <1>7, Zenon DEF DatabaseFails
<1>2. ASSUME NEW c \in Clients, Reads(c) PROVE MappedInv'
  BY <1>0, <1>u, <1>2, Zenon DEF Reads
<1>3. ASSUME NEW c \in Clients, Publishes(c) PROVE MappedInv'
  <2>1. ASSUME NEW status, NEW raised, NEW committed, Other(raised),
               Told(c, status, raised, committed)
        PROVE  MappedInv'
    BY <2>1, <1>u
  <2>2. CASE request' = [request EXCEPT ![c].phase = "published"]
    <3> DEFINE r == [request[c] EXCEPT !.phase = "published"]
    <3>1. request' = [request EXCEPT ![c] = r]
      BY <2>2
    <3>2. r.phase = "published" \/ r.phase = request[c].phase
      OBVIOUS
    <3>3. request[c].phase # "answered"
      BY <1>3 DEF Publishes
    <3> HIDE DEF r
    <3>4. r.phase # "answered"
      BY <3>2, <3>3
    <3> QED
      BY <3>1, <3>4, NoAnswer
  <2> QED
    BY <1>0, <1>3, <2>1, <2>2, Zenon DEF Publishes
<1>4. ASSUME NEW c \in Clients, Commits(c) PROVE MappedInv'
  <2>1. ASSUME NEW status, NEW raised, NEW committed, Other(raised),
               Told(c, status, raised, committed)
        PROVE  MappedInv'
    BY <2>1, <1>u
  <2>2. CASE request' = [request EXCEPT ![c].phase = "committed"]
    <3> DEFINE r == [request[c] EXCEPT !.phase = "committed"]
    <3>1. request' = [request EXCEPT ![c] = r]
      BY <2>2
    <3>2. r.phase = "committed" \/ r.phase = request[c].phase
      OBVIOUS
    <3>3. request[c].phase # "answered"
      BY <1>4 DEF Commits
    <3> HIDE DEF r
    <3>4. r.phase # "answered"
      BY <3>2, <3>3
    <3> QED
      BY <3>1, <3>4, NoAnswer
  <2> QED
    BY <1>0, <1>4, <2>1, <2>2, Zenon DEF Commits
<1>5. ASSUME NEW c \in Clients, NEW endpoint \in Endpoints, Send(c, endpoint) PROVE MappedInv'
  <2>1. CASE Admitted(c, endpoint)
    <3> DEFINE r == [phase |-> "served", endpoint |-> endpoint]
    <3>1. request' = [request EXCEPT ![c] = r] /\ r.phase # "answered"
      BY <1>5, <2>1 DEF Send
    <3> HIDE DEF r
    <3> QED
      BY <3>1, NoAnswer
  <2>2. CASE ~Admitted(c, endpoint)
    <3> DEFINE r == [phase |-> "answered", status |-> 401, raised |-> "HTTPException",
                     committed |-> FALSE, by |-> endpoint]
    <3>1. request' = [request EXCEPT ![c] = r]
      BY <1>5, <2>2 DEF Send
    <3>2. r.raised = "HTTPException"
      BY Zenon
    <3> HIDE DEF r
    <3>3. r.raised \notin Named
      BY <3>2, NamedStatus
    <3>4. request'[c] = r /\ \A d \in Clients : d # c => request'[d] = request[d]
      BY <3>1 DEF ApiInv
    <3>5. ASSUME NEW d \in Clients, request'[d].phase = "answered"
          PROVE  Mapping(request'[d].raised, request'[d].status, request'[d].committed)
      BY <3>3, <3>4, <3>5, Zenon DEF MappedInv, Mapping
    <3> QED
      BY <3>5, Zenon DEF MappedInv, Mapping
  <2> QED
    BY <2>1, <2>2
<1>6. CASE UNCHANGED request
  BY <1>6, Zenon DEF MappedInv, Mapping
<1> QED
  BY <1>1, <1>2, <1>3, <1>4, <1>5, <1>6, <1>7 DEF ApiNext, BusStops, TokenExpires, apiVars

(* An error the services name has a status of its own and leaves nothing   *)
(* changed, whatever the endpoint: every error a service call raises has a *)
(* handler, but for the arithmetic of the yields.                          *)
THEOREM NamedErrorsAreMapped == ApiSpec => []NamedErrorsHaveStatus
<1>1. ApiInit => ApiInv /\ MappedInv
  BY DEF ApiInit, ApiInv, RequestInv, MappedInv
<1>2. ApiInv /\ MappedInv /\ [ApiNext]_apiVars => ApiInv' /\ MappedInv'
  BY ApiStep, MappedStep
<1>3. MappedInv => NamedErrorsHaveStatus
  BY Zenon DEF MappedInv, NamedErrorsHaveStatus, Mapping, Answered
<1> QED
  BY <1>1, <1>2, <1>3, PTL DEF ApiSpec

-----------------------------------------------------------------------------
(* Pages                                                                   *)

PageFields == {"cache", "selected", "form", "typed", "question", "edit", "confirm", "create"}

(* A dialog on the screen is about the row that is selected, or none is:   *)
(* rows are clicked only on a screen without a dialog.                     *)
PagesInv ==
    /\ DOMAIN page = PageFields
    /\ FormMatchesSelection
    /\ screen.edit # 0 => page.selected \in {0, screen.edit}
    /\ screen.confirm # 0 => page.selected \in {0, screen.confirm}

(* What may be changed of a page's fields without changing the selection.  *)
SameRow(p, q) ==
    /\ DOMAIN p = PageFields
    /\ p.selected = q.selected /\ p.form = q.form /\ p.question = q.question

(* A step that leaves the selection alone, drops it, fills the form for it *)
(* or takes another row on a screen without a dialog.                      *)
LEMMA SelectionStep ==
    ASSUME PagesInv, DOMAIN page' = PageFields, screen' = screen,
           \/ SameRow(page', page)
           \/ page'.selected = 0
           \/ /\ page'.form = page'.selected /\ page'.question = page'.selected
              /\ page'.selected = page.selected \/ (screen.edit = 0 /\ screen.confirm = 0)
    PROVE  PagesInv'
  BY Zenon DEF PagesInv, SameRow, FormMatchesSelection

(* The fields a form and a question are filled with. *)
LEMMA FilledFields ==
    ASSUME NEW p, NEW id, DOMAIN p = PageFields
    PROVE  /\ DOMAIN Filled(p, id) = PageFields
           /\ Filled(p, id).form = id /\ Filled(p, id).question = id
           /\ Filled(p, id).selected = p.selected
  BY DEF Filled, PageFields

(* A click selects a row when no dialog is on the screen. *)
LEMMA ClickStep ==
    ASSUME PagesInv, NEW id \in Ids, ClickRow(id)
    PROVE  PagesInv'
<1> DEFINE p == [page EXCEPT !.selected = id]
<1>1. /\ screen.edit = 0 /\ screen.confirm = 0 /\ screen' = screen
      /\ page' = IF page.cache[id] = 0 THEN page ELSE Filled(p, id)
  BY DEF ClickRow, Undisturbed, Selected
<1>2. DOMAIN page = PageFields /\ DOMAIN p = PageFields /\ p.selected = id
  BY DEF PagesInv, PageFields
<1>3. /\ DOMAIN Filled(p, id) = PageFields /\ Filled(p, id).form = id
      /\ Filled(p, id).question = id /\ Filled(p, id).selected = id
  BY <1>2, FilledFields
<1> HIDE DEF p
<1>5. CASE page.cache[id] = 0
  BY <1>1, <1>2, <1>5, SelectionStep, Zenon DEF SameRow
<1>6. CASE page.cache[id] # 0
  BY <1>1, <1>3, <1>6, SelectionStep, Zenon
<1> QED
  BY <1>5, <1>6

(* Typing, opening and confirming leave the selection alone. *)
LEMMA FieldsStep ==
    ASSUME PagesInv,
           \/ \E v \in Values : Type(v)
           \/ OpenCreate
           \/ PressDelete
    PROVE  PagesInv'
<1>1. screen' = screen /\ SameRow(page', page)
  BY DEF Type, OpenCreate, PressDelete, PagesInv, PageFields, SameRow
<1>2. DOMAIN page' = PageFields
  BY <1>1 DEF SameRow
<1> QED
  BY <1>1, <1>2, SelectionStep, Zenon

(* A screen that is brought up to date shows dialogs about the selection.  *)
LEMMA ViewStep ==
    ASSUME PagesInv, SameRow(page', page), screen' = View(page')
    PROVE  PagesInv'
<1>1. FormMatchesSelection' /\ DOMAIN page' = PageFields
  BY Zenon DEF PagesInv, FormMatchesSelection, SameRow
<1>2. /\ screen'.edit = IF page'.edit THEN page'.form ELSE 0
      /\ screen'.confirm = IF page'.confirm THEN page'.question ELSE 0
  BY Zenon DEF View
<1>3. /\ screen'.edit # 0 => screen'.edit = page'.form
      /\ screen'.confirm # 0 => screen'.confirm = page'.question
  BY <1>2, Zenon
<1> QED
  BY <1>1, <1>3, Zenon DEF PagesInv, FormMatchesSelection

(* A dialog that is cancelled, on the page at once and on the screen then  *)
(* or later.                                                               *)
LEMMA CancelStep ==
    ASSUME PagesInv, Cancel
    PROVE  PagesInv'
<1>1. SameRow(page', page)
  BY DEF Cancel, PagesInv, PageFields, SameRow
<1>2. screen' \in {screen, View(page')}
  BY DEF Cancel
<1>3. CASE screen' = screen
  <2>1. DOMAIN page' = PageFields
    BY <1>1, Zenon DEF SameRow
  <2> QED
    BY <1>1, <1>3, <2>1, SelectionStep, Zenon
<1>4. CASE screen' = View(page')
  BY <1>1, <1>2, <1>4, ViewStep, Zenon
<1> QED
  BY <1>2, <1>3, <1>4

(* A save or a confirmed deletion leaves the selection alone. *)
LEMMA PressStep ==
    ASSUME PagesInv, NEW h \in Handlers, PressSave(h) \/ PressYes(h)
    PROVE  PagesInv'
<1>1. SameRow(page', page) /\ screen' = screen
  BY DEF PressSave, PressYes, PagesInv, PageFields, SameRow
<1>2. DOMAIN page' = PageFields
  BY <1>1 DEF SameRow
<1> QED
  BY <1>1, <1>2, SelectionStep, Zenon

(* A handler that comes back drops the selection with its rows, shows the  *)
(* selected row again, or closes its dialog.                               *)
LEMMA ResumeStep ==
    ASSUME PagesInv, NEW h \in Handlers, Resume(h)
    PROVE  PagesInv'
<1>1. screen' = screen /\ DOMAIN page = PageFields
  BY DEF Resume, PagesInv
<1>2. CASE page' = page
  BY <1>1, <1>2, SelectionStep, Zenon DEF SameRow
<1>3. ASSUME NEW id, page' = Reopened(page, id)
      PROVE  PagesInv'
  <2>1. \/ page' = page
        \/ page' = Filled(page, page.selected)
    BY <1>3 DEF Reopened
  <2>2. /\ DOMAIN Filled(page, page.selected) = PageFields
        /\ Filled(page, page.selected).form = page.selected
        /\ Filled(page, page.selected).question = page.selected
        /\ Filled(page, page.selected).selected = page.selected
    BY <1>1, FilledFields
  <2> QED
    BY <1>1, <1>2, <2>1, <2>2, SelectionStep, Zenon
<1>4. ASSUME NEW got, page' = LoadedPage(page, got)
      PROVE  PagesInv'
  <2>1. DOMAIN page' = PageFields /\ page'.selected = 0
    BY <1>1, <1>4 DEF LoadedPage, PageFields
  <2> QED
    BY <1>1, <2>1, SelectionStep, Zenon
<1>5. ASSUME NEW edit, NEW create, page' = [page EXCEPT !.edit = edit, !.create = create]
      PROVE  PagesInv'
  <2>1. SameRow(page', page)
    BY <1>1, <1>5 DEF PageFields, SameRow
  <2>2. DOMAIN page' = PageFields
    BY <2>1 DEF SameRow
  <2> QED
    BY <1>1, <2>1, <2>2, SelectionStep, Zenon
<1> QED
  BY <1>2, <1>3, <1>4, <1>5, Zenon DEF Resume

(* Every step keeps the dialogs to the selected row. *)
LEMMA PagesStep ==
    ASSUME PagesInv, [PagesNext]_pageVars
    PROVE  PagesInv'
<1>1. CASE Deliver
  <2>1. SameRow(page', page) /\ screen' = View(page')
    BY <1>1 DEF Deliver, PagesInv, SameRow
  <2> QED
    BY <2>1, ViewStep
<1>2. CASE UNCHANGED <<page, screen>>
  BY <1>2, Zenon DEF PagesInv, FormMatchesSelection
<1>3. ASSUME NEW h \in Handlers,
             Service(h) \/ PressRefresh(h) \/ \E v \in Values : PressAdd(h, v)
      PROVE  PagesInv'
  BY <1>2, <1>3 DEF Service, PressRefresh, PressAdd
<1>4. CASE AnotherPage \/ UNCHANGED pageVars
  BY <1>2, <1>4 DEF AnotherPage, pageVars
<1> QED
  BY <1>1, <1>3, <1>4, ClickStep, FieldsStep, CancelStep, PressStep, ResumeStep DEF PagesNext

(* Whatever the user clicks and the handlers bring back, in any order and  *)
(* for any number of rows and handlers: the form and the question are      *)
(* about the selected row, as is a dialog on the screen.                   *)
LEMMA PagesAlways == PagesSpec => []PagesInv
<1>1. PagesInit => PagesInv
  <2> SUFFICES ASSUME PagesInit
               PROVE  PagesInv
    OBVIOUS
  <2>1. page = EmptyPage /\ screen = View(EmptyPage)
    BY DEF PagesInit, Rendered
  <2>2. DOMAIN page = PageFields /\ page.selected = 0
    BY <2>1 DEF EmptyPage, PageFields
  <2>3. screen.edit = 0 /\ screen.confirm = 0
    BY <2>1 DEF EmptyPage, View
  <2> QED
    BY <2>2, <2>3, Zenon DEF PagesInv, FormMatchesSelection
<1>2. PagesInv /\ [PagesNext]_pageVars => PagesInv'
  BY PagesStep
<1> QED
  BY <1>1, <1>2, PTL DEF PagesSpec

(* The form and the question are about the selected row, whichever         *)
(* handlers of earlier rows come back meanwhile.                           *)
THEOREM FormIsOfSelection == PagesSpec => []FormMatchesSelection
<1>1. PagesInv => FormMatchesSelection
  BY DEF PagesInv
<1> QED
  BY <1>1, PagesAlways, PTL

(* What a handler that rested asks for is what its button asked for. *)
LEMMA AskedStep ==
    ASSUME DOMAIN handler = Handlers, NEW g \in Handlers, NEW h \in Handlers,
           NEW call, handler' = [handler EXCEPT ![h] = call], handler[g] = Rested
    PROVE  (g = h /\ handler'[g] = call) \/ handler'[g].op = "none"
  BY DEF Rested

(* Of a handler that did not rest nothing is said. *)
LEMMA BusyStep ==
    ASSUME DOMAIN handler = Handlers, NEW g \in Handlers, NEW h \in Handlers,
           NEW call, handler' = [handler EXCEPT ![h] = call], handler[g] = Rested,
           handler[h] # Rested
    PROVE  handler'[g].op = "none"
  BY DEF Rested

(* Every handler waits for something or rests. *)
HandlersInv == DOMAIN handler = Handlers

LEMMA HandlersStay == PagesSpec => []HandlersInv
<1>1. PagesInit => HandlersInv
  BY DEF PagesInit, Rendered, HandlersInv
<1>2. HandlersInv /\ [PagesNext]_pageVars => HandlersInv'
  BY DEF HandlersInv, PagesNext, pageVars, Deliver, Cancel, OpenCreate, PressDelete, AnotherPage, ClickRow,
         Type, PressSave, PressYes, PressRefresh, Service, Serve, Refuse, Answer, Resume, Ends,
         Reloads, PressAdd, Calls
<1> QED
  BY <1>1, <1>2, PTL DEF PagesSpec

(* A save or a confirmed deletion goes to the id the user had in front of  *)
(* them, however far the screen is behind the page.                        *)
THEOREM HitsWhatIsSeen == PagesSpec => ActsOnWhatIsSeen
<1> DEFINE Hits(g) ==
               /\ handler'[g].op = "update" => handler'[g].id = screen.edit
               /\ handler'[g].op = "delete" => handler'[g].id = screen.confirm
           Acts == \A h \in Handlers : handler[h] = Rested =>
                      /\ handler'[h].op = "update" => handler'[h].id = screen.edit
                      /\ handler'[h].op = "delete" => handler'[h].id = screen.confirm
<1>1. ASSUME PagesInv, DOMAIN handler = Handlers, PagesNext,
             NEW g \in Handlers, handler[g] = Rested
      PROVE  Hits(g)
  <2>1. ASSUME handler'[g].op \in {"none", "load", "create"} PROVE Hits(g)
    BY <2>1
  <2>2. ASSUME handler' = handler PROVE Hits(g)
    BY <1>1, <2>1, <2>2 DEF Rested
  <2>3. ASSUME NEW h \in Handlers, NEW call, handler[h] # Rested,
               handler' = [handler EXCEPT ![h] = call]
        PROVE  Hits(g)
    BY <1>1, <2>1, <2>3, BusyStep
  <2>4. ASSUME NEW h \in Handlers, PressSave(h) PROVE Hits(g)
    <3> DEFINE call == Asking("update", page.selected, page.typed)
    <3>1. handler' = [handler EXCEPT ![h] = call] /\ page.selected = screen.edit
      BY <1>1, <2>4, Zenon DEF PressSave, Calls, PagesInv
    <3>2. call.op = "update" /\ call.id = page.selected
      BY DEF Asking
    <3> HIDE DEF call
    <3> QED
      BY <1>1, <2>1, <3>1, <3>2, AskedStep
  <2>5. ASSUME NEW h \in Handlers, PressYes(h) PROVE Hits(g)
    <3> DEFINE call == Asking("delete", page.selected, 0)
    <3>1. CASE page.selected = 0
      BY <2>2, <2>5, <3>1 DEF PressYes
    <3>2. CASE page.selected # 0
      <4>1. handler' = [handler EXCEPT ![h] = call] /\ page.selected = screen.confirm
        BY <1>1, <2>5, <3>2, Zenon DEF PressYes, Calls, PagesInv
      <4>2. call.op = "delete" /\ call.id = page.selected
        BY DEF Asking
      <4> HIDE DEF call
      <4> QED
        BY <1>1, <2>1, <4>1, <4>2, AskedStep
    <3> QED
      BY <3>1, <3>2
  <2>6. ASSUME NEW h \in Handlers, NEW value, PressAdd(h, value) PROVE Hits(g)
    <3> DEFINE call == Asking("create", 0, value)
    <3>1. call.op \in {"load", "create"}
      BY DEF Asking
    <3>2. handler' = [handler EXCEPT ![h] = call]
      BY <2>6 DEF PressAdd, Calls
    <3> HIDE DEF call
    <3> QED
      BY <1>1, <2>1, <3>1, <3>2, AskedStep
  <2>7. ASSUME NEW h \in Handlers, PressRefresh(h) PROVE Hits(g)
    <3> DEFINE call == Reload
    <3>1. call.op \in {"load", "create"}
      BY DEF Reload, Asking
    <3>2. handler' = [handler EXCEPT ![h] = call]
      BY <2>7 DEF PressRefresh, Calls
    <3> HIDE DEF call
    <3> QED
      BY <1>1, <2>1, <3>1, <3>2, AskedStep
  <2>8. ASSUME NEW h \in Handlers, Service(h) PROVE Hits(g)
    <3>1. \E call : handler' = [handler EXCEPT ![h] = call]
      BY <2>8 DEF Service, Serve, Refuse, Answer
    <3> QED
      BY <2>3, <2>8, <3>1 DEF Service
  <2>9. ASSUME NEW h \in Handlers, Resume(h) PROVE Hits(g)
    <3>1. \E call : handler' = [handler EXCEPT ![h] = call]
      BY <2>9 DEF Resume, Ends, Reloads
    <3> QED
      BY <2>3, <2>9, <3>1 DEF Resume
  <2> HIDE DEF Hits
  <2> QED
    BY <1>1, <2>2, <2>4, <2>5, <2>6, <2>7, <2>8, <2>9
    DEF PagesNext, Deliver, Cancel, OpenCreate, PressDelete, AnotherPage, ClickRow, Type
<1>2. PagesInv /\ HandlersInv /\ [PagesNext]_pageVars => [Acts]_pageVars
  BY <1>1 DEF HandlersInv
<1> QED
  BY <1>2, PagesAlways, HandlersStay, PTL DEF PagesSpec, ActsOnWhatIsSeen

-----------------------------------------------------------------------------
(* IsinSearch                                                              *)

(* There is one search at most that _cancel_isin_search would miss: none.  *)
(* The last change not yet handled is what stands in the field.            *)
SearchInv ==
    /\ changes \in Seq(Texts \cup {Blank})
    /\ \A s \in searches : s.id = current /\ s = [id |-> s.id, query |-> s.query, at |-> s.at]
    /\ changes # <<>> => changes[Len(changes)] = field
    /\ field \in Texts \cup {Blank}
    /\ note \in [passed : BOOLEAN, late : BOOLEAN]

IsinInv == SearchInv /\ CandidatesMatchField /\ ClosedDialogIsQuiet

(* What is put into the field is the last change, or no change. *)
LEMMA PutChanges ==
    ASSUME SearchInv, NEW text \in Texts \cup {Blank}, Put(text)
    PROVE  /\ changes' \in Seq(Texts \cup {Blank}) /\ field' = text
           /\ changes' # <<>> => changes'[Len(changes')] = text
           /\ changes' = <<>> => text = field /\ changes = <<>>
<1>1. CASE text = field
  BY <1>1 DEF Put, SearchInv
<1>2. CASE text # field
  <2>1. changes' = Append(changes, text) /\ field' = text /\ changes \in Seq(Texts \cup {Blank})
    BY <1>2 DEF Put, SearchInv
  <2> DEFINE T == Texts \cup {Blank}
  <2> HIDE DEF T
  <2>2. changes \in Seq(T) /\ text \in T
    BY <2>1 DEF T
  <2>3. /\ changes' \in Seq(T) /\ changes' # <<>> /\ changes'[Len(changes')] = text
    BY <2>1, <2>2
  <2> QED
    BY <2>1, <2>3 DEF T
<1> QED
  BY <1>1, <1>2

(* No search survives its cancellation. *)
LEMMA NoneRemaining ==
    ASSUME SearchInv
    PROVE  Remaining = {}
  BY DEF SearchInv, Remaining

(* Every step keeps the search in line with the field. *)
LEMMA IsinStep ==
    ASSUME IsinAssumption, IsinInv, [IsinNext]_isinVars
    PROVE  IsinInv'
<1> USE DEF IsinInv
<1>1. ASSUME NEW text \in Texts \cup {Blank}, TypeIsin(text) PROVE IsinInv'
  <2>1. dialog /\ text # field /\ Put(text)
        /\ UNCHANGED <<applied, searches, current, shown, dialog, note>>
    BY <1>1 DEF TypeIsin
  <2>2. changes' # <<>>
    BY <2>1, PutChanges
  <2>3. SearchInv'
    BY <2>1, PutChanges DEF SearchInv
  <2>4. CandidatesMatchField' /\ ClosedDialogIsQuiet'
    BY <2>1, <2>2 DEF CandidatesMatchField, ClosedDialogIsQuiet
  <2> QED
    BY <2>3, <2>4
<1>2. CASE HandleChange
  <2>1. /\ changes # <<>> /\ changes' = Tail(changes)
        /\ UNCHANGED <<field, dialog, edits>>
    BY <1>2 DEF HandleChange
  <2>2. /\ changes' \in Seq(Texts \cup {Blank})
        /\ changes' # <<>> => changes'[Len(changes')] = field
        /\ changes' = <<>> => Head(changes) = field
    <3> DEFINE T == Texts \cup {Blank}
    <3> HIDE DEF T
    <3>1. changes \in Seq(T) /\ changes[Len(changes)] = field
      BY <2>1 DEF SearchInv, T
    <3>2. Len(changes) \in Nat /\ Len(changes) # 0 /\ Len(Tail(changes)) = Len(changes) - 1
          /\ Tail(changes) \in Seq(T) /\ Head(changes) = changes[1]
      BY <2>1, <3>1
    <3>3. ASSUME Tail(changes) # <<>> PROVE Tail(changes)[Len(Tail(changes))] = field
      BY <3>1, <3>2, <3>3
    <3>4. ASSUME Tail(changes) = <<>> PROVE Head(changes) = field
      <4> DEFINE rest == Tail(changes)
      <4>0. Len(Tail(changes)) = 0
        <5>1. rest = <<>>
          BY <3>4
        <5> HIDE DEF rest
        <5>2. Len(rest) = 0
          BY <5>1
        <5> QED
          BY <5>2 DEF rest
      <4>1. Len(changes) = 1
        BY <3>2, <4>0
      <4> QED
        BY <3>1, <3>2, <4>1
    <3> QED
      BY <2>1, <3>2, <3>3, <3>4 DEF T
  <2>3. CASE PassedOver(Head(changes))
    <3>1. /\ note' = [note EXCEPT !.passed = searches # {} \/ shown # Blank]
          /\ UNCHANGED <<searches, current, shown>>
      BY <1>2, <2>3 DEF HandleChange
    <3>2. /\ note'.passed <=> searches # {} \/ shown # Blank
          /\ note'.late <=> note.late
          /\ note' \in [passed : BOOLEAN, late : BOOLEAN]
      <4>1. note \in [passed : BOOLEAN, late : BOOLEAN]
        BY DEF SearchInv
      <4> QED
        BY <3>1, <4>1, Zenon
    <3>3. SearchInv'
      BY <2>1, <2>2, <3>1, <3>2, Zenon DEF SearchInv
    <3>4. CandidatesMatchField' /\ ClosedDialogIsQuiet'
      BY <2>1, <3>1, <3>2 DEF CandidatesMatchField, ClosedDialogIsQuiet
    <3> QED
      BY <3>3, <3>4
  <2>4. CASE ~PassedOver(Head(changes))
    <3>1. /\ Started(Head(changes)) /\ shown' = Blank
          /\ note' = [passed |-> FALSE, late |-> note.late \/ ~dialog]
      BY <1>2, <2>4 DEF HandleChange
    <3>2. /\ ~note'.passed /\ (note'.late <=> note.late \/ ~dialog)
          /\ note' \in [passed : BOOLEAN, late : BOOLEAN]
      <4>1. (note.late \/ ~dialog) \in BOOLEAN
        BY Zenon
      <4> QED
        BY <3>1, <4>1, Zenon
    <3>3. \A s \in searches' : /\ s.id = current' /\ s.query = Head(changes)
                               /\ s = [id |-> s.id, query |-> s.query, at |-> s.at]
      <4> DEFINE id == edits + 1 - Len(changes)
                 new == [id |-> id, query |-> Head(changes), at |-> "delay"]
      <4>0. Remaining = {}
        BY NoneRemaining
      <4>1. searches' = {} \/ (searches' = {new} /\ current' = id)
        <5>1. CASE Head(changes) = Blank
          <6>1. searches' = Remaining
            BY <3>1, <5>1, Zenon DEF Started
          <6>2. searches' = {}
            BY <4>0, <6>1
          <6> QED
            BY <6>2
        <5>2. CASE Head(changes) # Blank
          <6>1. searches' = Remaining \union {new} /\ current' = id
            BY <3>1, <5>2, Zenon DEF Started
          <6> QED
            BY <4>0, <6>1, Zenon
        <5> QED
          BY <5>1, <5>2
      <4>2. /\ new.id = id /\ new.query = Head(changes)
            /\ new = [id |-> new.id, query |-> new.query, at |-> new.at]
        OBVIOUS
      <4> HIDE DEF new, id
      <4> QED
        BY <4>1, <4>2
    <3>4. SearchInv'
      <4>1. field' \in Texts \cup {Blank}
        BY <2>1 DEF SearchInv
      <4> QED
        BY <2>1, <2>2, <3>2, <3>3, <4>1, Zenon DEF SearchInv
    <3>5. CandidatesMatchField'
      BY <2>1, <2>2, <3>1, <3>3 DEF CandidatesMatchField
    <3>6. ClosedDialogIsQuiet'
      BY <2>1, <3>2 DEF ClosedDialogIsQuiet
    <3> QED
      BY <3>4, <3>5, <3>6
  <2> QED
    BY <2>3, <2>4
<1>3. ASSUME NEW s \in searches, AskReference(s) PROVE IsinInv'
  <2>1. /\ searches' = (searches \ {s}) \union {[s EXCEPT !.at = "provider"]}
        /\ UNCHANGED <<field, applied, changes, current, shown, dialog, edits, note>>
    BY <1>3 DEF AskReference
  <2>2. \A q \in searches' : /\ \E p \in searches : q.id = p.id /\ q.query = p.query
                             /\ q = [id |-> q.id, query |-> q.query, at |-> q.at]
    <3> DEFINE new == [s EXCEPT !.at = "provider"]
    <3>1. s = [id |-> s.id, query |-> s.query, at |-> s.at]
      BY DEF SearchInv
    <3>2. new = [id |-> s.id, query |-> s.query, at |-> "provider"]
      BY <3>1
    <3>3. /\ new.id = s.id /\ new.query = s.query
          /\ new = [id |-> new.id, query |-> new.query, at |-> new.at]
      BY <3>2
    <3>4. \A q \in searches' : q \in searches \/ q = new
      BY <2>1
    <3> HIDE DEF new
    <3> QED
      BY <3>3, <3>4 DEF SearchInv
  <2>3. SearchInv'
    BY <2>1, <2>2 DEF SearchInv
  <2>4. CandidatesMatchField' /\ ClosedDialogIsQuiet'
    BY <2>1, <2>2 DEF CandidatesMatchField, ClosedDialogIsQuiet
  <2> QED
    BY <2>3, <2>4
<1>4. ASSUME NEW s \in searches, Render(s) PROVE IsinInv'
  <2>1. /\ searches' = searches \ {s} /\ shown' \in {s.query, Blank}
        /\ UNCHANGED <<field, applied, changes, current, dialog, edits, note>>
    BY <1>4 DEF Render
  <2>2. SearchInv'
    BY <2>1 DEF SearchInv
  <2>3. CandidatesMatchField' /\ ClosedDialogIsQuiet'
    BY <2>1 DEF CandidatesMatchField, ClosedDialogIsQuiet
  <2> QED
    BY <2>2, <2>3
<1>5. ASSUME NEW isin \in Isins, Apply(isin) PROVE IsinInv'
  <2>1. /\ dialog /\ Put(isin) /\ CancelSearch /\ shown' = Blank /\ UNCHANGED <<dialog, note>>
        /\ isin \in Texts \cup {Blank}
    BY <1>5 DEF Apply, IsinAssumption
  <2>2. searches' = {}
    BY <2>1, NoneRemaining DEF CancelSearch
  <2>3. SearchInv'
    BY <2>1, <2>2, PutChanges DEF SearchInv
  <2>4. CandidatesMatchField' /\ ClosedDialogIsQuiet'
    BY <2>1, <2>2 DEF CandidatesMatchField, ClosedDialogIsQuiet
  <2> QED
    BY <2>3, <2>4
<1>6. CASE CloseDialog
  <2>1. CancelSearch /\ shown' = Blank /\ UNCHANGED <<field, applied, changes, edits, note>>
    BY <1>6 DEF CloseDialog, CleanedOnClose
  <2>2. searches' = {}
    BY <2>1, NoneRemaining DEF CancelSearch
  <2>3. SearchInv'
    BY <2>1, <2>2 DEF SearchInv
  <2>4. CandidatesMatchField' /\ ClosedDialogIsQuiet'
    BY <2>1, <2>2 DEF CandidatesMatchField, ClosedDialogIsQuiet
  <2> QED
    BY <2>3, <2>4
<1>7. CASE OpenDialog
  <2>1. /\ dialog' = TRUE /\ Put(Blank) /\ CancelSearch /\ shown' = Blank
        /\ note' = [passed |-> FALSE, late |-> FALSE]
    BY <1>7 DEF OpenDialog
  <2>2. searches' = {} /\ note' \in [passed : BOOLEAN, late : BOOLEAN]
    BY <2>1, NoneRemaining DEF CancelSearch
  <2>3. SearchInv'
    BY <2>1, <2>2, PutChanges DEF SearchInv
  <2>4. CandidatesMatchField' /\ ClosedDialogIsQuiet'
    BY <2>1, <2>2 DEF CandidatesMatchField, ClosedDialogIsQuiet
  <2> QED
    BY <2>3, <2>4
<1>8. CASE UNCHANGED isinVars
  BY <1>8 DEF isinVars, SearchInv, CandidatesMatchField, ClosedDialogIsQuiet
<1> QED
  BY <1>1, <1>2, <1>3, <1>4, <1>5, <1>6, <1>7, <1>8 DEF IsinNext

(* IsinInv is an invariant. *)
THEOREM SearchHolds == IsinSpec => []IsinInv
<1>1. IsinInit => IsinInv
  <2> SUFFICES ASSUME IsinInit PROVE IsinInv
    OBVIOUS
  <2>1. /\ changes = <<>> /\ searches = {} /\ shown = Blank /\ field = Blank
        /\ note \in [passed : BOOLEAN, late : BOOLEAN]
    BY DEF IsinInit
  <2>2. changes \in Seq(Texts \cup {Blank})
    BY <2>1
  <2> QED
    BY <2>1, <2>2 DEF IsinInv, SearchInv, CandidatesMatchField, ClosedDialogIsQuiet
<1>2. IsinInv /\ [IsinNext]_isinVars => IsinInv'
  BY IsinStep, IsinAssumption
<1> QED
  BY <1>1, <1>2, PTL DEF IsinSpec

(* With every change handled, the candidates are those for the text in the *)
(* field, however the typing, the delays and the provider's answers fall.  *)
THEOREM CandidatesAreOfField == IsinSpec => []CandidatesMatchField
<1>1. IsinInv => CandidatesMatchField
  BY DEF IsinInv
<1> QED
  BY <1>1, SearchHolds, PTL

(* A closed dialog has no search and no candidates, but for a change whose *)
(* handler came after the close.                                           *)
THEOREM ClosedIsQuiet == IsinSpec => []ClosedDialogIsQuiet
<1>1. IsinInv => ClosedDialogIsQuiet
  BY DEF IsinInv
<1> QED
  BY <1>1, SearchHolds, PTL
=============================================================================
