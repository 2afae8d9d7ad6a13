--------------------------------- MODULE Api --------------------------------
(***************************************************************************)
(* A REST request from its token to its status code.  What the services    *)
(* check, write and publish is in Registry, Portfolio and AnalyticsCache;  *)
(* here they are known by the exceptions they raise and by when they       *)
(* publish.  The question is what a client may conclude from a status.     *)
(***************************************************************************)
EXTENDS Integers

CONSTANT Clients

VARIABLES
    token,          \* each client's token: none, good, or past its exp claim
    running,        \* the event bus
    request         \* what each client is in, or was told last

apiVars == <<token, running, request>>

-----------------------------------------------------------------------------
(* The endpoints, by the service call behind them.  `change`: "none", a    *)
(* "silent" one, or one whose event goes out before or after its commit.   *)
Endpoint(name, raises, missing, change) ==
    [name |-> name, raises |-> raises, missing |-> missing, change |-> change]

AuthEndpoints == {
    Endpoint("register_user", {"UsernameTakenError", "AuthError"}, FALSE, "silent"),
    Endpoint("login", {"InvalidCredentialsError"}, FALSE, "none")}

BondEndpoints == {
    Endpoint("list_bonds", {}, FALSE, "none"),
    Endpoint("create_bond", {"BondIsinDuplicateError"}, FALSE, "before_commit"),
    Endpoint("get_bond", {}, TRUE, "none"),
    Endpoint("update_bond", {"BondNotOwnedError"}, TRUE, "before_commit"),
    Endpoint("delete_bond", {"BondNotOwnedError", "BondDeletionBlockedError"}, TRUE, "before_commit")}

ReferenceEndpoints == {
    Endpoint("search_bond_references", {"ProviderUnavailableError", "ProviderTimeoutError"}, FALSE, "none"),
    Endpoint("get_bond_reference",
             {"ProviderUnavailableError", "ProviderTimeoutError", "NoBondsFoundError"}, FALSE, "none"),
    Endpoint("get_bond_coupons", {"BondNotFoundError"}, FALSE, "none"),
    Endpoint("sync_bond_coupons", {"BondNotFoundError", "ProviderUnavailableError"}, FALSE, "none")}

BrokerEndpoints == {
    Endpoint("list_brokers", {}, FALSE, "none"),
    Endpoint("create_broker", {"BrokerNameDuplicateError"}, FALSE, "before_commit"),
    Endpoint("get_broker", {}, TRUE, "none"),
    Endpoint("update_broker", {"BrokerNameDuplicateError"}, TRUE, "before_commit"),
    Endpoint("delete_broker", {"BrokerHasAccountsError"}, TRUE, "before_commit")}

AccountEndpoints == {
    Endpoint("list_broker_accounts", {}, FALSE, "none"),
    Endpoint("create_broker_account", {"BrokerNotFoundError"}, FALSE, "before_commit"),
    Endpoint("get_broker_account", {}, TRUE, "none"),
    Endpoint("update_broker_account", {"BrokerAccountNotFoundError"}, TRUE, "before_commit"),
    Endpoint("delete_broker_account",
             {"BrokerAccountNotFoundError", "BrokerAccountHasTransactionsError",
              "BrokerAccountHasOperationsError"}, TRUE, "before_commit")}

TransactionEndpoints == {
    Endpoint("list_transactions", {}, FALSE, "none"),
    Endpoint("create_transaction", {"InsufficientPositionError", "InvalidTransactionError"}, FALSE, "after_commit"),
    Endpoint("get_transaction", {"TransactionForbiddenError"}, TRUE, "none"),
    Endpoint("update_transaction",
             {"TransactionForbiddenError", "InsufficientPositionError", "InvalidTransactionError"},
             TRUE, "after_commit"),
    Endpoint("delete_transaction",
             {"TransactionForbiddenError", "InsufficientPositionError", "InvalidTransactionError"},
             TRUE, "after_commit")}

OperationEndpoints == {
    Endpoint("list_account_operations", {}, FALSE, "none"),
    Endpoint("create_account_operation", {"BrokerAccountNotFoundError"}, FALSE, "silent"),
    Endpoint("get_account_operation", {"AccountOperationForbiddenError"}, TRUE, "none"),
    Endpoint("update_account_operation",
             {"AccountOperationForbiddenError", "BrokerAccountNotFoundError"}, TRUE, "silent"),
    Endpoint("delete_account_operation", {"AccountOperationForbiddenError"}, TRUE, "silent")}

(* What the yield of a held bond may raise (Solver); no handler knows it.  *)
Arithmetic == {"ZeroDivisionError", "OverflowError", "TypeError"}

PortfolioEndpoints == {
    Endpoint("get_portfolio", Arithmetic, FALSE, "none"),
    Endpoint("get_portfolio_positions", {}, FALSE, "none"),
    Endpoint("get_bond_yield", Arithmetic, TRUE, "none")}

Endpoints == AuthEndpoints \cup BondEndpoints \cup ReferenceEndpoints \cup BrokerEndpoints \cup AccountEndpoints
    \cup TransactionEndpoints \cup OperationEndpoints \cup PortfolioEndpoints

(* register_exception_handlers; what it does not know is a 500. *)
Mapped == [
    NotFound |-> {"BondNotFoundError", "NoBondsFoundError", "BrokerNotFoundError", "BrokerAccountNotFoundError"},
    Conflict |-> {"BondIsinDuplicateError", "BondDeletionBlockedError", "BrokerHasAccountsError",
                  "BrokerNameDuplicateError", "BrokerAccountHasTransactionsError",
                  "BrokerAccountHasOperationsError", "UsernameTakenError"},
    Forbidden |-> {"BondNotOwnedError", "AccountOperationForbiddenError", "TransactionForbiddenError"},
    Unprocessable |-> {"InsufficientPositionError"},
    BadRequest |-> {"InvalidTransactionError", "AuthError"},
    Unauthorized |-> {"InvalidCredentialsError"},
    Unavailable |-> {"ProviderUnavailableError", "ProviderTimeoutError"}]

Code == [NotFound |-> 404, Conflict |-> 409, Forbidden |-> 403, Unprocessable |-> 422,
         BadRequest |-> 400, Unauthorized |-> 401, Unavailable |-> 503]

(* Fault: the handlers of the provider's errors are not registered. *)
StatusUnregistered(error) ==
    IF \E kind \in DOMAIN Mapped \ {"Unavailable"} : error \in Mapped[kind]
    THEN Code[CHOOSE kind \in DOMAIN Mapped : error \in Mapped[kind]]
    ELSE 500

StatusOf(error) ==
    IF \E kind \in DOMAIN Mapped : error \in Mapped[kind]
    THEN Code[CHOOSE kind \in DOMAIN Mapped : error \in Mapped[kind]]
    ELSE 500

Writes(endpoint) == endpoint.change # "none"

Publishing(endpoint) == endpoint.change \in {"before_commit", "after_commit"}

-----------------------------------------------------------------------------
(* The answer, with the exception it stands for. *)
Told(c, status, raised, committed) ==
    request' = [request EXCEPT ![c] = [phase |-> "answered", status |-> status, raised |-> raised,
                                       committed |-> committed, by |-> request[c].endpoint]]

ApiInit ==
    /\ token = [c \in Clients |-> "none"] /\ running = TRUE
    /\ request = [c \in Clients |-> [phase |-> "none"]]

(* main's shutdown: the bus stops while requests may still be under way. *)
BusStops ==
    /\ running /\ running' = FALSE
    /\ UNCHANGED <<token, request>>

TokenExpires(c) ==
    /\ token[c] = "good" /\ token' = [token EXCEPT ![c] = "expired"]
    /\ UNCHANGED <<running, request>>

(* get_current_user_id with verify_token; the auth endpoints are public.   *)
Admitted(c, endpoint) == endpoint \in AuthEndpoints \/ token[c] = "good"

Send(c, endpoint) ==
    /\ request[c].phase \in {"none", "answered"}
    /\ request' = [request EXCEPT ![c] =
          IF Admitted(c, endpoint) THEN [phase |-> "served", endpoint |-> endpoint]
          ELSE [phase |-> "answered", status |-> 401, raised |-> "HTTPException",
                committed |-> FALSE, by |-> endpoint]]
    /\ UNCHANGED <<token, running>>

(* The service refuses, or there is no such row. *)
Refused(c) ==
    /\ request[c].phase = "served"
    /\ \/ \E error \in request[c].endpoint.raises : Told(c, StatusOf(error), error, FALSE)
       \/ request[c].endpoint.missing /\ Told(c, 404, "HTTPException", FALSE)
    /\ UNCHANGED <<token, running>>

(* The database fails before anything is committed, for a read as well as  *)
(* for a write.                                                            *)
DatabaseFails(c) ==
    /\ request[c].phase = "served" /\ Told(c, 500, "DBAPIError", FALSE)
    /\ UNCHANGED <<token, running>>

(* A success; 200 stands for 201, 202 and 204 too.  A login is a read that *)
(* yields a token.                                                         *)
Reads(c) ==
    /\ request[c].phase = "served" /\ ~Writes(request[c].endpoint)
    /\ Told(c, 200, "none", FALSE)
    /\ token' = IF request[c].endpoint.name = "login" THEN [token EXCEPT ![c] = "good"] ELSE token
    /\ UNCHANGED running

(* Fault: the change is kept though its event was refused. *)
PublishesAfter(endpoint) == Publishing(endpoint)

CommitsFirst(endpoint) == endpoint.change = "after_commit"

(* The event goes out.  It does not when the bus is stopped, when its      *)
(* queue is full, where the server's loop may not wait, or when the        *)
(* database fails under the position that is read for it.                  *)
Publishes(c) ==
    LET endpoint == request[c].endpoint IN
    /\ request[c].phase = IF CommitsFirst(endpoint) THEN "committed" ELSE "served"
    /\ Publishing(endpoint)
    /\ \/ Told(c, 500, "RuntimeError", CommitsFirst(endpoint))
       \/ /\ running
          /\ IF CommitsFirst(endpoint) THEN Told(c, 200, "none", TRUE)
             ELSE request' = [request EXCEPT ![c].phase = "published"]
    /\ UNCHANGED <<token, running>>

(* The commit, which the database may refuse: the change is then rolled    *)
(* back.  A commit whose acknowledgement is lost is left aside.            *)
Commits(c) ==
    LET endpoint == request[c].endpoint IN
    /\ Writes(endpoint)
    /\ request[c].phase = IF Publishing(endpoint) /\ ~CommitsFirst(endpoint) THEN "published" ELSE "served"
    /\ \/ Told(c, 500, "DBAPIError", FALSE)
       \/ IF CommitsFirst(endpoint) THEN request' = [request EXCEPT ![c].phase = "committed"]
          ELSE Told(c, 200, "none", TRUE)
    /\ UNCHANGED <<token, running>>

UnderWay(c) == request[c].phase \in {"served", "published", "committed"}

ApiNext ==
    \/ BusStops
    \/ \E c \in Clients :
        \/ TokenExpires(c)
        \/ \E endpoint \in Endpoints : Send(c, endpoint)
        \/ /\ UnderWay(c)
           /\ Refused(c) \/ DatabaseFails(c) \/ Reads(c) \/ Publishes(c) \/ Commits(c)

ApiSpec == ApiInit /\ [][ApiNext]_apiVars

-----------------------------------------------------------------------------
Answered(c) == request[c].phase = "answered"

Refusal(status) == status \in 400..499 \/ status = 503

(* What a status says of the change: a success has been committed, a       *)
(* refusal by name has changed nothing, and a 500 leaves the client in     *)
(* doubt for one kind of call only, that on a transaction, whose position  *)
(* is read and whose events go out after the commit.                       *)
StatusTellsOutcome ==
    \A c \in Clients : Answered(c) =>
        LET r == request[c] IN
        /\ r.status = 200 => (r.committed <=> Writes(r.by))
        /\ Refusal(r.status) => ~r.committed
        /\ r.status = 500 /\ r.committed => r.by.change = "after_commit"

(* The errors the services name, at any endpoint. *)
Named == (UNION {endpoint.raises : endpoint \in Endpoints}) \ Arithmetic

(* An error the services name has a status of its own, never a 500, and    *)
(* leaves nothing changed: what no handler knows is the arithmetic of the  *)
(* yields, a failing database and a bus that refuses.                      *)
NamedErrorsHaveStatus ==
    \A c \in Clients : Answered(c) /\ request[c].raised \in Named =>
        Refusal(request[c].status) /\ ~request[c].committed
=============================================================================
