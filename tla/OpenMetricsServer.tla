------------------------- MODULE OpenMetricsServer -------------------------
(***************************************************************************)
(* OpenMetricsServer (open_metrics/server.rs): a thread that accepts       *)
(* connections and serves one at a time, an owner that starts it, stops it *)
(* through a cancellation token and starts it again, and clients that      *)
(* connect, ask and keep their connections open.  Threads are numbered;    *)
(* each has the token that the owner held when it was spawned.             *)
(***************************************************************************)
EXTENDS Naturals, Sequences

CONSTANTS Clients,
          MaxStarts,       \* bound: threads
          MaxRequests,     \* bound: requests of a client
          MaxServerErrors, \* bound: failures to accept or to bind
          NoHandle, NoClient

VARIABLES
  handle,    \* the running thread's JoinHandle, or NoHandle
  owner,     \* "idle", "joining", "dropping" or "dropped"
  joining,   \* the thread that stop waits for
  threads,   \* number of threads spawned so far
  state,     \* thread -> "spawned", "accepting", "serving", "exited"
  token,     \* the owner's current token; a token is the number of its renewals
  tokenOf,   \* thread -> its token
  cancelled, \* tokens that are cancelled
  backlog,   \* clients that have connected and are not accepted
  serving,   \* the client being served
  asked,     \* requests waiting on the connections
  answered,  \* client -> responses
  refused,   \* history: threads that could not bind
  server_errors \* bound

ownerVars == <<handle, owner, joining, threads, token, tokenOf, cancelled>>
threadVars == <<state, serving, refused, server_errors>>
clientVars == <<backlog, asked, answered>>
server_vars == <<ownerVars, threadVars, clientVars>>

Threads == 1..MaxStarts

Alive == {t \in 1..threads : state[t] # "exited"}

ServerInit ==
  /\ handle = NoHandle /\ owner = "idle" /\ joining = NoHandle
  /\ threads = 0 /\ state = [t \in Threads |-> "none"]
  /\ token = 0 /\ tokenOf = [t \in Threads |-> 0] /\ cancelled = {}
  /\ backlog = <<>> /\ serving = NoClient
  /\ asked = [c \in Clients |-> 0] /\ answered = [c \in Clients |-> 0]
  /\ refused = {} /\ server_errors = 0

-----------------------------------------------------------------------------
\* The owner.  start returns AlreadyExists when there is a handle, and changes
\* nothing.
start ==
  /\ owner = "idle" /\ handle = NoHandle /\ threads < MaxStarts
  /\ threads' = threads + 1
  /\ handle' = threads + 1
  /\ state' = [state EXCEPT ![threads + 1] = "spawned"]
  /\ tokenOf' = [tokenOf EXCEPT ![threads + 1] = token]
  /\ UNCHANGED <<owner, joining, token, cancelled, serving, refused, server_errors, clientVars>>

\* stop takes the handle, cancels the token and waits for the thread.
stop ==
  /\ owner = "idle" /\ handle # NoHandle
  /\ joining' = handle /\ handle' = NoHandle
  /\ cancelled' = cancelled \cup {token}
  /\ owner' = "joining"
  /\ UNCHANGED <<threads, token, tokenOf, threadVars, clientVars>>

joined == state[joining] = "exited"

\* "Reset the cancellation token for potential restart".
renewed == token + 1

StopReturns ==
  /\ owner \in {"joining", "dropping"} /\ joined
  /\ owner' = IF owner = "joining" THEN "idle" ELSE "dropped"
  /\ joining' = NoHandle
  /\ token' = renewed
  /\ UNCHANGED <<handle, threads, tokenOf, cancelled, threadVars, clientVars>>

is_running == handle # NoHandle /\ state[handle] # "exited"

\* drop at the end of on_load: a server that still runs is stopped.
Drop ==
  /\ owner = "idle"
  /\ IF is_running
     THEN /\ owner' = "dropping"
          /\ joining' = handle /\ handle' = NoHandle
          /\ cancelled' = cancelled \cup {token}
     ELSE owner' = "dropped" /\ UNCHANGED <<handle, joining, cancelled>>
  /\ UNCHANGED <<threads, token, tokenOf, threadVars, clientVars>>

-----------------------------------------------------------------------------
\* The thread.  Nobody else holds the address, or bind fails and run_server
\* returns.
Bind(t) ==
  /\ state[t] = "spawned"
  /\ \/ /\ \A u \in Threads : state[u] \notin {"accepting", "serving"}
        /\ state' = [state EXCEPT ![t] = "accepting"]
        /\ UNCHANGED <<refused, server_errors>>
     \/ /\ server_errors < MaxServerErrors /\ server_errors' = server_errors + 1
        /\ state' = [state EXCEPT ![t] = "exited"]
        /\ refused' = refused \cup {t}
  /\ UNCHANGED <<ownerVars, serving, clientVars>>

after_accept_error == "accepting"

\* accept_connections: a connection, or an error that is logged.
Accept(t) ==
  /\ state[t] = "accepting"
  /\ \/ /\ backlog # <<>>
        /\ serving' = Head(backlog) /\ backlog' = Tail(backlog)
        /\ state' = [state EXCEPT ![t] = "serving"]
        /\ UNCHANGED server_errors
     \/ /\ server_errors < MaxServerErrors /\ server_errors' = server_errors + 1
        /\ state' = [state EXCEPT ![t] = after_accept_error]
        /\ UNCHANGED <<serving, backlog>>
  /\ UNCHANGED <<ownerVars, refused, asked, answered>>

\* handle_request: nothing is awaited between request and response.  A provider
\* that fails to update is logged; the others' metrics are in the response.
HandleRequest(t) ==
  /\ state[t] = "serving" /\ asked[serving] > 0
  /\ asked' = [asked EXCEPT ![serving] = @ - 1]
  /\ answered' = [answered EXCEPT ![serving] = @ + 1]
  /\ UNCHANGED <<ownerVars, threadVars, backlog>>

\* Mutant of ConnectionCancelled: the token is only looked at when a request
\* comes in.
ConnectionCancelled_OnRequest(t) ==
  /\ state[t] = "serving" /\ tokenOf[t] \in cancelled /\ asked[serving] > 0
  /\ state' = [state EXCEPT ![t] = "accepting"]
  /\ asked' = [asked EXCEPT ![serving] = 0] /\ serving' = NoClient
  /\ UNCHANGED <<ownerVars, refused, server_errors, backlog, answered>>

\* The token's branch of handle_connection's select: the connection is dropped,
\* and the thread is back in accept_connections.
ConnectionCancelled(t) ==
  /\ state[t] = "serving" /\ tokenOf[t] \in cancelled
  /\ state' = [state EXCEPT ![t] = "accepting"]
  /\ asked' = [asked EXCEPT ![serving] = 0] /\ serving' = NoClient
  /\ UNCHANGED <<ownerVars, refused, server_errors, backlog, answered>>

\* The token's branch of accept_connections' select, which may choose a waiting
\* client instead: the loop ends and the listener closes with its backlog.
Cancelled(t) ==
  /\ state[t] = "accepting" /\ tokenOf[t] \in cancelled
  /\ state' = [state EXCEPT ![t] = "exited"]
  /\ backlog' = <<>> /\ asked' = [c \in Clients |-> 0]
  /\ UNCHANGED <<ownerVars, serving, refused, server_errors, answered>>

Thread(t) == Bind(t) \/ Accept(t) \/ HandleRequest(t) \/ ConnectionCancelled(t) \/ Cancelled(t)

-----------------------------------------------------------------------------
\* The clients.
Idle(c) == c # serving /\ c \notin {backlog[i] : i \in 1..Len(backlog)}

Connect(c) ==
  /\ Idle(c) /\ \E t \in Threads : state[t] \in {"accepting", "serving"}
  /\ backlog' = Append(backlog, c)
  /\ UNCHANGED <<ownerVars, threadVars, asked, answered>>

Ask(c) ==
  /\ ~Idle(c) /\ asked[c] = 0 /\ answered[c] < MaxRequests
  /\ asked' = [asked EXCEPT ![c] = 1]
  /\ UNCHANGED <<ownerVars, threadVars, backlog, answered>>

\* The client that is served closes its connection.
Close(c) ==
  /\ c = serving
  /\ serving' = NoClient
  /\ state' = [t \in Threads |-> IF state[t] = "serving" THEN "accepting" ELSE state[t]]
  /\ asked' = [asked EXCEPT ![c] = 0]
  /\ UNCHANGED <<ownerVars, refused, server_errors, backlog, answered>>

Client == \E c \in Clients : Connect(c) \/ Ask(c) \/ Close(c)

ServerNext == start \/ stop \/ StopReturns \/ Drop \/ (\E t \in Threads : Thread(t)) \/ Client

ServerSpec == ServerInit /\ [][ServerNext]_server_vars

\* The runtime polls the thread's futures; the owner's join returns once the
\* thread is gone.  select! polls its branches in a random order, so that a
\* branch that is ready again and again is taken in the end, although another
\* is ready as well: the token's, while clients keep connecting.  Clients owe
\* nothing.
ServerFairSpec ==
  /\ ServerSpec /\ WF_server_vars(StopReturns)
  /\ \A t \in Threads :
       /\ WF_server_vars(Bind(t)) /\ WF_server_vars(Accept(t)) /\ WF_server_vars(HandleRequest(t))
       /\ WF_server_vars(ConnectionCancelled(t)) /\ SF_server_vars(Cancelled(t))

-----------------------------------------------------------------------------
\* Whatever the owner does, and however the tasks end, there is one server at a
\* time, and a new one is never started next to an old one that still runs.
OneServer == \A t, u \in Alive : t = u

\* A server goes away only when it is stopped: neither a failing accept nor
\* the token of an earlier run ends it.  (When bind fails there is none.)
EndsWhenStopped ==
  handle # NoHandle /\ handle \notin refused => state[handle] # "exited"

\* The invariant behind these two: a thread that the owner neither has nor
\* waits for is gone, and the token of the thread it has is not cancelled.
ServerInvariant ==
  /\ threads \in 0..MaxStarts /\ token \in Nat /\ cancelled \subseteq 0..token
  /\ state \in [Threads -> {"none", "spawned", "accepting", "serving", "exited"}]
  /\ tokenOf \in [Threads -> Nat]
  /\ owner \in {"idle", "joining", "dropping", "dropped"}
  /\ handle \in 1..threads \cup {NoHandle} /\ joining \in 1..threads \cup {NoHandle}
  /\ \A t \in 1..threads : t \notin {handle, joining} => state[t] = "exited"
  /\ IF owner \in {"joining", "dropping"} THEN handle = NoHandle /\ joining # NoHandle
     ELSE joining = NoHandle /\ token \notin cancelled
  /\ handle # NoHandle =>
       tokenOf[handle] = token /\ (state[handle] = "exited" => handle \in refused)

\* "Prometheus keeps connection open and prevents process shutdown": stop, and
\* the drop of the server when the agent ends, come to an end although clients
\* never close their connections.
StopEnds == owner \in {"joining", "dropping"} ~> owner \in {"idle", "dropped"}
=============================================================================
