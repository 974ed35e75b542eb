------------------------------ MODULE Requests ------------------------------
(***************************************************************************)
(* The life of a service container: buildServiceContainer, whose stores    *)
(* share one SQLite connection by reference count, the requests that reach *)
(* its orchestrator over HTTP, MCP or the command line, and how a host of  *)
(* each kind ends.                                                         *)
(*                                                                         *)
(* The hosts are those of one process: one, in the applications; several   *)
(* API servers, where a program or a test embeds them.  An action is what  *)
(* happens between two awaits.  A handler is abstracted to an outcome of   *)
(* the shape its command has; bodies, schemas and actors are left out, and *)
(* so are the requests that never reach the orchestrator's container.      *)
(***************************************************************************)
EXTENDS Naturals, FiniteSets, FiniteSetsExt

CONSTANTS
  Hosts,      \* containers of the process
  Requests,
  CommandsOf, \* the commands each request may name
  Stores,     \* how many stores acquire the connection
  MaxHandles  \* bound: times the connection is opened

ASSUME StoresAssumption == Stores \in Nat \ {0} /\ MaxHandles \in Nat
ASSUME HostsAssumption == IsFiniteSet(Hosts)

VARIABLES
  host,        \* each container, and the application around it
  connection,  \* the entry of SHARED_CONNECTIONS
  request      \* each request

requestVars == <<host, connection, request>>

-----------------------------------------------------------------------------
(* Commands and outcomes.                                                  *)
\* Handled by the namespace service, without the orchestrator.
TreeCommands == {"list-context-tree", "read-context-node"}

ErrorCodes ==
  {"unauthorized", "forbidden", "not_found", "revision_conflict", "duplicate_detected",
   "validation_failed", "write_failed"}

Outcome(shape, values) == {<<shape, v>> : v \in values}

\* What the handler of a command may return.
Results(command) ==
  CASE command = "execute-coding-task" -> Outcome("status", {"success", "fail", "escalate"})
    [] command = "validate-note" -> Outcome("valid", {"yes", "no"})
    [] command = "show-tool-output" -> Outcome("found", {"yes", "no"})
    [] command \in {"list-agent-traces", "list-context-tree", "get-context-packet"} ->
         {<<"plain", "yes">>}
    [] OTHER -> {<<"ok", "yes">>} \cup Outcome("error", ErrorCodes)

Thrown == Outcome("threw", {"transport", "unauthorized", "forbidden", "other"})
Commands == UNION {CommandsOf[r] : r \in Requests}
Outcomes == (UNION {Results(c) : c \in Commands}) \cup Thrown
NoOutcome == <<"none", "none">>

StatusOfCode(code) ==
  CASE code = "unauthorized" -> 401
    [] code = "forbidden" -> 403
    [] code = "not_found" -> 404
    [] code \in {"revision_conflict", "duplicate_detected"} -> 409
    [] code = "validation_failed" -> 422
    [] OTHER -> 500

\* The status the API answers an outcome with.
HttpStatus(o) ==
  CASE o[1] = "error" -> StatusOfCode(o[2])
    [] o = <<"threw", "transport">> -> 400
    [] o[1] = "threw" /\ o[2] # "transport" -> StatusOfCode(o[2])
    [] o = <<"status", "fail">> -> 422
    [] o = <<"status", "escalate">> -> 409
    [] o = <<"valid", "no">> -> 422
    [] o = <<"found", "no">> -> 404
    [] OTHER -> 200

\* Mutant: the command line looks at the errors of results only.
CliFails_ResultsOnly(o) == o[1] = "error"

\* The command line exits with 1; mapCliError and shouldFailProcess.
CliFails(o) ==
  \/ o[1] \in {"error", "threw"}
  \/ o[1] = "status" /\ o[2] # "success"
  \/ o = <<"valid", "no">>

\* callTool sets isError.
McpFails(o) == o[1] \in {"error", "threw"}

-----------------------------------------------------------------------------
Host ==
  [pc : {"off", "failed", "starting", "up", "closing", "disposed", "gone"},
   kind : {"api", "mcp", "cli"},
   main : BOOLEAN,         \* the process is this host's
   handle : 0 .. MaxHandles]  \* the connection its stores hold
Connection == [handle : 0 .. MaxHandles, refs : Nat, opened : 0 .. MaxHandles]
Request ==
  [pc : {"idle", "reading", "context", "running", "answered", "lost"},
   at : Hosts \cup {"none"}, command : Commands \cup {"none"},
   waiting : BOOLEAN,      \* its client is still there
   outcome : Outcomes \cup {NoOutcome}]

RequestTypeOK ==
  /\ host \in [Hosts -> Host]
  /\ connection \in Connection
  /\ request \in [Requests -> Request]

RequestInit ==
  /\ host = [h \in Hosts |-> [pc |-> "off", kind |-> "api", main |-> FALSE, handle |-> 0]]
  /\ connection = [handle |-> 0, refs |-> 0, opened |-> 0]
  /\ request = [r \in Requests |->
       [pc |-> "idle", at |-> "none", command |-> "none", waiting |-> FALSE, outcome |-> NoOutcome]]

Live(h) == host[h].pc \in {"starting", "up", "closing"}
Active(r) == request[r].pc \in {"reading", "context", "running"}
ProcessGone == \E h \in Hosts : host[h].pc = "gone"

\* acquireSharedSqliteConnection, n times: the first opens the database.
Acquired(n) ==
  IF connection.refs > 0 THEN [connection EXCEPT !.refs = @ + n]
  ELSE [handle |-> connection.opened + 1, refs |-> n, opened |-> connection.opened + 1]

\* Mutant: a connection no longer used is kept open.
Released_KeptOpen(n) == [connection EXCEPT !.refs = @ - n]

\* release, n times: the last closes it.
Released(n) ==
  IF connection.refs = n THEN [connection EXCEPT !.refs = 0, !.handle = 0]
  ELSE [connection EXCEPT !.refs = @ - n]

CanOpen == connection.refs > 0 \/ connection.opened < MaxHandles

-----------------------------------------------------------------------------
\* A process of an application holds one host; a program that embeds servers
\* may hold several.
Build(h) ==
  /\ ~ProcessGone /\ host[h].pc = "off" /\ CanOpen
  /\ \E kind \in {"api", "mcp", "cli"}, main \in BOOLEAN :
       /\ kind \in {"mcp", "cli"} => main
       /\ main => \A g \in Hosts : host[g].pc = "off"
       /\ \A g \in Hosts : host[g].pc # "off" => ~host[g].main
       /\ connection' = Acquired(Stores)
       /\ host' = [host EXCEPT ![h] = [pc |-> IF kind = "api" THEN "starting" ELSE "up",
                                       kind |-> kind, main |-> main,
                                       handle |-> Acquired(Stores).handle]]
  /\ UNCHANGED request

\* A store or a provider throws: the stores built so far are not released.
\* A process of its own ends there.
BuildFails(h) ==
  /\ ~ProcessGone /\ host[h].pc = "off" /\ CanOpen
  /\ \A g \in Hosts : host[g].pc # "off" => ~host[g].main
  /\ \E n \in 1 .. Stores : connection' = Acquired(n)
  /\ host' = [host EXCEPT ![h].pc = "failed"]
  /\ UNCHANGED request

\* The process ends, and with it all it was doing.
EndProcess ==
  /\ host' = [h \in Hosts |-> IF host[h].pc = "off" THEN host[h]
                              ELSE [host[h] EXCEPT !.pc = "gone"]]
  /\ connection' = [connection EXCEPT !.refs = 0, !.handle = 0]
  /\ request' = [r \in Requests |->
       IF Active(r) THEN [request[r] EXCEPT !.pc = "lost"] ELSE request[r]]

\* server.listen; when it fails the container is not disposed.
Listen(h) ==
  /\ host[h].pc = "starting"
  /\ \/ host' = [host EXCEPT ![h].pc = "up"] /\ UNCHANGED <<connection, request>>
     \/ /\ ~host[h].main
        /\ host' = [host EXCEPT ![h].pc = "failed"] /\ UNCHANGED <<connection, request>>
     \/ host[h].main /\ EndProcess

\* dispose: every store closes once, and releases the connection.
Dispose(h, pc) ==
  /\ connection' = Released(Stores)
  /\ host' = [host EXCEPT ![h].pc = pc]

-----------------------------------------------------------------------------
Arrive(r, h, command) ==
  /\ request[r].pc = "idle" /\ host[h].pc = "up"
  /\ host[h].kind = "cli" => \A q \in Requests : request[q].at # h
  /\ request' = [request EXCEPT ![r] =
       [pc |-> "reading", at |-> h, command |-> command, waiting |-> TRUE, outcome |-> NoOutcome]]
  /\ UNCHANGED <<host, connection>>

Answered(r, o) ==
  request' = [request EXCEPT ![r].pc = "answered", ![r].outcome = o]

\* The body is there: validation, authorization and the route, then the handler
\* starts.  A coding task may ask for memory context first.
Dispatch(r) ==
  /\ request[r].pc = "reading"
  /\ \/ Answered(r, <<"threw", "transport">>)
     \/ /\ request[r].command \notin TreeCommands
        /\ \E code \in {"unauthorized", "forbidden"} : Answered(r, <<"threw", code>>)
     \/ request' = [request EXCEPT ![r].pc = "running"]
     \/ /\ request[r].command = "execute-coding-task"
        /\ request' = [request EXCEPT ![r].pc = "context"]
  /\ UNCHANGED <<host, connection>>

\* injectMemoryContext: the task runs with the context, or with a note that
\* there is none.
InjectMemory(r) ==
  /\ request[r].pc = "context"
  /\ \/ request' = [request EXCEPT ![r].pc = "running"]
     \/ Answered(r, <<"threw", "other">>)
  /\ UNCHANGED <<host, connection>>

\* The handler reads or writes its stores a last time and returns; it throws when
\* the connection it holds has been closed.
Finish(r) ==
  /\ request[r].pc = "running"
  /\ \/ /\ host[request[r].at].handle = connection.handle
        /\ \E o \in Results(request[r].command) : Answered(r, o)
     \/ Answered(r, <<"threw", "other">>)
  /\ UNCHANGED <<host, connection>>

\* An HTTP client goes away; its request goes on.
Disconnect(r) ==
  /\ Active(r) /\ request[r].waiting /\ host[request[r].at].kind = "api"
  /\ request' = [request EXCEPT ![r].waiting = FALSE]
  /\ UNCHANGED <<host, connection>>

-----------------------------------------------------------------------------
\* close of an API server, or a first signal to its process.
Close(h) ==
  /\ host[h].pc = "up" /\ host[h].kind = "api"
  /\ host' = [host EXCEPT ![h].pc = "closing"]
  /\ UNCHANGED <<connection, request>>

\* Mutant: the server does not wait for the connections it has.
Closed_AtOnce(h) ==
  /\ host[h].pc = "closing"
  /\ Dispose(h, "disposed")
  /\ UNCHANGED request

\* Mutant: a container that is disposed may be disposed again.
Closed_Again(h) ==
  /\ host[h].pc \in {"closing", "disposed"}
  /\ Dispose(h, "disposed")
  /\ UNCHANGED request

\* No connection is left: the container is disposed.
Closed(h) ==
  /\ host[h].pc = "closing"
  /\ \A r \in Requests : ~(Active(r) /\ request[r].at = h /\ request[r].waiting)
  /\ Dispose(h, "disposed")
  /\ UNCHANGED request

\* The process of a server ends once it is closed.
Exit(h) == host[h].main /\ host[h].pc = "disposed" /\ EndProcess

\* A second signal: close rejects, as the server is closing, and nobody handles it.
SecondSignal(h) == host[h].main /\ host[h].pc = "closing" /\ EndProcess

\* shutdown of the MCP server, on a signal or at the end of its input: dispose
\* and exit, whatever is under way.
Shutdown(h) == host[h].pc = "up" /\ host[h].kind = "mcp" /\ EndProcess

\* A command of the CLI disposes its container when it has its answer.
CommandEnds(h) ==
  /\ host[h].pc = "up" /\ host[h].kind = "cli"
  /\ \E r \in Requests : request[r].at = h /\ request[r].pc = "answered"
  /\ Dispose(h, "disposed")
  /\ UNCHANGED request

RequestNext ==
  \/ \E h \in Hosts :
       \/ Build(h) \/ BuildFails(h) \/ Listen(h) \/ Close(h) \/ Closed(h) \/ Exit(h)
       \/ SecondSignal(h) \/ Shutdown(h) \/ CommandEnds(h)
  \/ \E r \in Requests :
       \/ \E h \in Hosts, c \in CommandsOf[r] : Arrive(r, h, c)
       \/ Dispatch(r) \/ InjectMemory(r) \/ Finish(r) \/ Disconnect(r)

RequestSpec == RequestInit /\ [][RequestNext]_requestVars

-----------------------------------------------------------------------------
\* Whatever the order in which containers of a process are built, fail to build
\* and are disposed: no container loses its connection while it is in use, and
\* unless one failed, the connection is closed with the last of them.
ConnectionServesItsStores ==
  /\ \A h \in Hosts : Live(h) => host[h].handle = connection.handle
  /\ connection.handle = 0 <=> connection.refs = 0
  /\ (\A h \in Hosts : host[h].pc # "failed") =>
       connection.refs = Stores * Cardinality({h \in Hosts : Live(h)})

\* While a client waits for its answer the container that works on it is not
\* disposed, whatever signals arrive: a host stops after its last answer, or ends
\* with its process.
WaitingIsServed ==
  \A r \in Requests : Active(r) /\ request[r].waiting => Live(request[r].at)

\* The three transports tell failure from success apart on the same results, each
\* in a table of its own: what MCP calls an error fails the command line, and
\* what fails the command line is no success over HTTP.  They differ on the
\* verdicts of a validation and of a coding task, which MCP returns as results,
\* and on an output that is not there, which only HTTP calls a failure.
TransportsAgree ==
  \A r \in Requests : request[r].pc = "answered" =>
    LET o == request[r].outcome IN
    /\ McpFails(o) => CliFails(o)
    /\ CliFails(o) => HttpStatus(o) >= 400
    /\ CliFails(o) /\ ~McpFails(o) => o[1] \in {"status", "valid"}
    /\ HttpStatus(o) >= 400 /\ ~CliFails(o) => o = <<"found", "no">>
=============================================================================
