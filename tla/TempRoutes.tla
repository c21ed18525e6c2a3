----------------------------- MODULE TempRoutes -----------------------------
(***************************************************************************)
(* lib/context/web.go: links that live in memory for a short time.  A      *)
(* token is random and never drawn twice; the table is under one lock, the *)
(* handler of a link runs after the lock has been released.                *)
(***************************************************************************)
EXTENDS Integers

CONSTANTS
  Token,
  PluginId,
  Method

VARIABLES
  routes,  \* the table: token |-> route
  issued,  \* the routes that were ever registered                (history)
  over,    \* tokens expired, removed or lost with the process    (history)
  ran,     \* how often each token's handler was started          (history)
  ranLate  \* tokens whose handler was started when they were over (history)

routeVars == <<routes, issued, over, ran, ranLate>>

Route == [plugin : PluginId, method : Method, oneTime : BOOLEAN, alive : BOOLEAN]

NoRoutes == [x \in {} |-> 0]

Registered(tok) == tok \in DOMAIN routes

Without(tok) == [x \in DOMAIN routes \ {tok} |-> routes[x]]

RouteInit ==
  /\ routes = NoRoutes /\ issued = NoRoutes
  /\ over = {} /\ ranLate = {}
  /\ ran = [tok \in Token |-> 0]

RegisterTemporaryRoute(tok, plugin, method, oneTime) ==
  LET route == [plugin |-> plugin, method |-> method, oneTime |-> oneTime,
                alive |-> TRUE]
      Added(f) == [x \in DOMAIN f \cup {tok} |-> IF x = tok THEN route ELSE f[x]]
  IN  /\ tok \notin DOMAIN issued
      /\ routes' = Added(routes)
      /\ issued' = Added(issued)
      /\ UNCHANGED <<over, ran, ranLate>>

(* The function that RegisterTemporaryRoute returns. *)
RemoveRoute(tok) ==
  /\ tok \in DOMAIN issued
  /\ routes' = Without(tok)
  /\ over' = over \cup {tok}
  /\ UNCHANGED <<issued, ran, ranLate>>

(* The time of the route is up: the table keeps it until it is asked for. *)
Expire(tok) ==
  /\ Registered(tok) /\ routes[tok].alive
  /\ routes' = [routes EXCEPT ![tok].alive = FALSE]
  /\ over' = over \cup {tok}
  /\ UNCHANGED <<issued, ran, ranLate>>

(* 404; whatever stands under the token is dropped. *)
ServeNotFound(tok, plugin) ==
  /\ Registered(tok) => routes[tok].plugin # plugin \/ ~routes[tok].alive
  /\ routes' = Without(tok)
  /\ UNCHANGED <<issued, over, ran, ranLate>>

Matches(tok, plugin) ==
  Registered(tok) /\ routes[tok].plugin = plugin /\ routes[tok].alive

(* Mutant: the link is used up before its method has been looked at. *)
ServeNotAllowedUsing(tok, plugin, method) ==
  /\ Matches(tok, plugin) /\ routes[tok].method # method
  /\ routes' = IF routes[tok].oneTime THEN Without(tok) ELSE routes
  /\ UNCHANGED <<issued, over, ran, ranLate>>

(* 405, mail scanners that ask with HEAD among others. *)
ServeNotAllowed(tok, plugin, method) ==
  /\ Matches(tok, plugin) /\ routes[tok].method # method
  /\ UNCHANGED routeVars

(* Mutant: the link is deleted after its handler has returned. *)
ServeHandlerKeeping(tok, plugin, method) ==
  /\ Matches(tok, plugin) /\ routes[tok].method = method
  /\ ran' = [ran EXCEPT ![tok] = @ + 1]
  /\ ranLate' = IF tok \in over THEN ranLate \cup {tok} ELSE ranLate
  /\ UNCHANGED <<routes, issued, over>>

(* The handler is started; a one-time link is gone before that. *)
ServeHandler(tok, plugin, method) ==
  /\ Matches(tok, plugin) /\ routes[tok].method = method
  /\ routes' = IF routes[tok].oneTime THEN Without(tok) ELSE routes
  /\ ran' = [ran EXCEPT ![tok] = @ + 1]
  /\ ranLate' = IF tok \in over THEN ranLate \cup {tok} ELSE ranLate
  /\ UNCHANGED <<issued, over>>

LoseRoutes ==
  /\ routes' = NoRoutes
  /\ over' = over \cup DOMAIN routes
  /\ UNCHANGED <<issued, ran, ranLate>>

-----------------------------------------------------------------------------

(* A one-time link runs its handler once at most, however many requests for *)
(* it come at the same time, and no link runs it after it has expired, was  *)
(* removed, or belonged to an earlier process (docs/temporary-routes.md).   *)
HandledOnce ==
  /\ \A tok \in DOMAIN issued : issued[tok].oneTime => ran[tok] <= 1
  /\ ranLate = {}

=============================================================================
