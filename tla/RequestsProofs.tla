----------------------------- MODULE RequestsProofs -----------------------------
(***************************************************************************)
(* Theorems about Requests, for any hosts, requests, commands and stores:  *)
(* types, that the stores keep the connection they share, that a client    *)
(* that waits is served, and that the transports agree.                    *)
(***************************************************************************)
EXTENDS Requests, FiniteSetTheorems, TLAPS

LiveHosts == {h \in Hosts : Live(h)}

\* The connection counts the stores that hold it; one that failed to be built may
\* have left some behind.
Counted ==
  /\ connection.refs >= Stores * Cardinality(LiveHosts)
  /\ (\A h \in Hosts : host[h].pc # "failed") => connection.refs = Stores * Cardinality(LiveHosts)

\* It is open while it is held, by all who use it.
Held ==
  /\ connection.handle = 0 <=> connection.refs = 0
  /\ \A h \in LiveHosts : host[h].handle = connection.handle

GoneForGood == ProcessGone => \A h \in Hosts : host[h].pc \in {"off", "gone"}

\* A request is at a host that came up, and worked on there until the process ends.
Placed ==
  \A r \in Requests : request[r].pc # "idle" =>
    /\ request[r].at \in Hosts /\ request[r].command \in CommandsOf[r]
    /\ host[request[r].at].pc \in {"up", "closing", "disposed", "gone"}
    /\ Active(r) => host[request[r].at].pc # "gone"

\* A command of the CLI is the only one of its process.
OneCommand ==
  \A q, r \in Requests :
    /\ request[q].pc # "idle" /\ request[r].pc # "idle" /\ request[q].at = request[r].at
    /\ host[request[r].at].kind = "cli"
    => q = r

RequestInv ==
  /\ RequestTypeOK /\ Counted /\ Held /\ GoneForGood /\ Placed /\ OneCommand /\ WaitingIsServed

-----------------------------------------------------------------------------
\* How many hosts are live, and what that says of the connection.
LEMMA LiveFinite == IsFiniteSet(LiveHosts) /\ Cardinality(LiveHosts) \in Nat
BY HostsAssumption, FS_Subset, FS_CardinalityType DEF LiveHosts

LEMMA Times ==
  ASSUME NEW s \in Nat \ {0}, NEW k \in Nat
  PROVE  s * (k + 1) = s * k + s /\ s * k \in Nat /\ s * 0 = 0 /\ (k # 0 => s * k >= s)
OBVIOUS

LEMMA LiveAdded ==
  ASSUME NEW h \in Hosts, h \notin LiveHosts, LiveHosts' = LiveHosts \cup {h}
  PROVE  Stores * Cardinality(LiveHosts') = Stores * Cardinality(LiveHosts) + Stores
<1>1. Cardinality(LiveHosts') = Cardinality(LiveHosts) + 1
  BY LiveFinite, FS_AddElement
<1> QED
  BY <1>1, LiveFinite, StoresAssumption, Times

LEMMA LiveRemoved ==
  ASSUME NEW h \in LiveHosts, LiveHosts' = LiveHosts \ {h}
  PROVE  /\ Stores * Cardinality(LiveHosts) = Stores * Cardinality(LiveHosts') + Stores
         /\ Stores * Cardinality(LiveHosts') \in Nat
<1>1. Cardinality(LiveHosts') = Cardinality(LiveHosts) - 1
  BY LiveFinite, FS_RemoveElement
<1>2. Cardinality(LiveHosts) # 0
  BY LiveFinite, FS_EmptySet
<1>3. Cardinality(LiveHosts') \in Nat /\ Cardinality(LiveHosts) = Cardinality(LiveHosts') + 1
  BY <1>1, <1>2, LiveFinite
<1> QED
  BY <1>3, StoresAssumption, Times

LEMMA UnusedIsUnheld ==
  ASSUME Counted, connection.refs = 0
  PROVE  LiveHosts = {}
<1>1. Stores * Cardinality(LiveHosts) \in Nat
      /\ (Cardinality(LiveHosts) # 0 => Stores * Cardinality(LiveHosts) >= Stores)
  BY LiveFinite, StoresAssumption, Times
<1>2. Cardinality(LiveHosts) = 0
  BY <1>1, StoresAssumption DEF Counted
<1> QED
  BY <1>2, LiveFinite, FS_EmptySet

LEMMA NoneLive == LiveHosts = {} => Stores * Cardinality(LiveHosts) = 0
BY FS_EmptySet, StoresAssumption, Times

LEMMA RequestInvInit == RequestInit => RequestInv
<1> SUFFICES ASSUME RequestInit PROVE RequestInv
  OBVIOUS
<1>1. LiveHosts = {}
  BY DEF RequestInit, LiveHosts, Live
<1>2. RequestTypeOK
  BY StoresAssumption DEF RequestInit, RequestTypeOK, Host, Connection, Request
<1> QED
  BY <1>1, <1>2, NoneLive
     DEF RequestInit, RequestInv, Counted, Held, GoneForGood, ProcessGone, Placed, OneCommand,
         WaitingIsServed, Active

-----------------------------------------------------------------------------
\* The steps of a request.
LEMMA RequestMoves ==
  ASSUME RequestInv, UNCHANGED <<host, connection>>, NEW r \in Requests, NEW new \in Request,
         request' = [request EXCEPT ![r] = new], request[r].pc # "idle", new.pc # "idle",
         new.at = request[r].at, new.command = request[r].command,
         new.pc \in {"reading", "context", "running"} =>
           Active(r) /\ (new.waiting => request[r].waiting)
  PROVE  RequestInv'
<1> USE DEF RequestInv
<1>1. /\ request' \in [Requests -> Request] /\ request'[r] = new
      /\ \A s \in Requests \ {r} : request'[s] = request[s]
      /\ host' = host /\ connection' = connection
  BY DEF RequestTypeOK
<1>2. RequestTypeOK'
  BY <1>1 DEF RequestTypeOK
<1>3. Counted' /\ Held' /\ GoneForGood'
  BY <1>1 DEF Counted, Held, GoneForGood, ProcessGone, LiveHosts, Live
<1>4. \A s \in Requests :
        /\ request'[s].pc # "idle" => request[s].pc # "idle"
        /\ request'[s].at = request[s].at /\ request'[s].command = request[s].command
        /\ Active(s)' => Active(s) /\ (request'[s].waiting => request[s].waiting)
  BY <1>1 DEF Active
<1>5. Placed'
  BY <1>1, <1>4 DEF Placed
<1>6. OneCommand'
  BY <1>1, <1>4 DEF OneCommand
<1>7. WaitingIsServed'
  BY <1>1, <1>4 DEF WaitingIsServed, Live
<1> QED
  BY <1>2, <1>3, <1>5, <1>6, <1>7

LEMMA Answers ==
  ASSUME RequestInv, UNCHANGED <<host, connection>>, NEW r \in Requests,
         request[r].pc # "idle", NEW o \in Outcomes, Answered(r, o)
  PROVE  RequestInv'
<1> DEFINE new == [request[r] EXCEPT !.pc = "answered", !.outcome = o]
<1>1. request[r] \in Request /\ request \in [Requests -> Request]
  BY DEF RequestInv, RequestTypeOK
<1>2. /\ new \in Request /\ new.pc = "answered"
      /\ new.at = request[r].at /\ new.command = request[r].command
  BY <1>1 DEF Request
<1>3. request' = [request EXCEPT ![r] = new]
  BY <1>1 DEF Answered
<1> HIDE DEF new
<1> QED
  BY <1>2, <1>3, RequestMoves

LEMMA Proceeds ==
  ASSUME RequestInv, UNCHANGED <<host, connection>>, NEW r \in Requests, Active(r),
         NEW pc \in {"context", "running"}, request' = [request EXCEPT ![r].pc = pc]
  PROVE  RequestInv'
<1> DEFINE new == [request[r] EXCEPT !.pc = pc]
<1>1. request[r] \in Request /\ request \in [Requests -> Request]
  BY DEF RequestInv, RequestTypeOK
<1>2. /\ new \in Request /\ new.pc = pc /\ new.waiting = request[r].waiting
      /\ new.at = request[r].at /\ new.command = request[r].command
  BY <1>1 DEF Request
<1>3. request' = [request EXCEPT ![r] = new]
  BY <1>1
<1>4. request[r].pc # "idle"
  BY DEF Active
<1> HIDE DEF new
<1> QED
  BY <1>2, <1>3, <1>4, RequestMoves

LEMMA ThrownIsOutcome ==
  /\ \A k \in {"transport", "unauthorized", "forbidden", "other"} : <<"threw", k>> \in Outcomes
  /\ \A r \in Requests : \A c \in CommandsOf[r] : \A o \in Results(c) : o \in Outcomes
<1>1. \A k \in {"transport", "unauthorized", "forbidden", "other"} : <<"threw", k>> \in Outcomes
  BY DEF Outcomes, Thrown, Outcome
<1>2. \A r \in Requests : \A c \in CommandsOf[r] : \A o \in Results(c) : o \in Outcomes
  BY Zenon DEF Outcomes, Commands
<1> QED
  BY <1>1, <1>2

LEMMA DispatchKeeps == ASSUME RequestInv, NEW r \in Requests, Dispatch(r) PROVE RequestInv'
<1>1. UNCHANGED <<host, connection>> /\ request[r].pc = "reading" /\ Active(r)
  BY DEF Dispatch, Active
<1>2. ASSUME NEW k \in {"transport", "unauthorized", "forbidden", "other"},
             Answered(r, <<"threw", k>>)
      PROVE  RequestInv'
  BY <1>1, <1>2, ThrownIsOutcome, Answers
<1>3. ASSUME NEW pc \in {"context", "running"}, request' = [request EXCEPT ![r].pc = pc]
      PROVE  RequestInv'
  BY <1>1, <1>3, Proceeds
<1> QED
  BY <1>2, <1>3 DEF Dispatch

LEMMA InjectKeeps == ASSUME RequestInv, NEW r \in Requests, InjectMemory(r) PROVE RequestInv'
<1>1. UNCHANGED <<host, connection>> /\ request[r].pc = "context" /\ Active(r)
  BY DEF InjectMemory, Active
<1>2. CASE Answered(r, <<"threw", "other">>)
  BY <1>1, <1>2, ThrownIsOutcome, Answers
<1>3. CASE request' = [request EXCEPT ![r].pc = "running"]
  BY <1>1, <1>3, Proceeds
<1> QED
  BY <1>2, <1>3 DEF InjectMemory

LEMMA FinishKeeps == ASSUME RequestInv, NEW r \in Requests, Finish(r) PROVE RequestInv'
<1>1. UNCHANGED <<host, connection>> /\ request[r].pc = "running"
  BY DEF Finish
<1>2. request[r].command \in CommandsOf[r]
  BY <1>1 DEF RequestInv, Placed
<1>3. ASSUME NEW o \in Results(request[r].command), Answered(r, o) PROVE RequestInv'
  BY <1>1, <1>2, <1>3, ThrownIsOutcome, Answers
<1>4. CASE Answered(r, <<"threw", "other">>)
  BY <1>1, <1>4, ThrownIsOutcome, Answers
<1> QED
  BY <1>3, <1>4 DEF Finish

LEMMA DisconnectKeeps == ASSUME RequestInv, NEW r \in Requests, Disconnect(r) PROVE RequestInv'
<1> DEFINE new == [request[r] EXCEPT !.waiting = FALSE]
<1>1. request[r] \in Request /\ request \in [Requests -> Request]
  BY DEF RequestInv, RequestTypeOK
<1>2. /\ new \in Request /\ new.pc = request[r].pc /\ ~new.waiting
      /\ new.at = request[r].at /\ new.command = request[r].command
  BY <1>1 DEF Request
<1>3. request' = [request EXCEPT ![r] = new] /\ UNCHANGED <<host, connection>> /\ Active(r)
  BY <1>1 DEF Disconnect
<1>4. request[r].pc # "idle"
  BY <1>3 DEF Active
<1> HIDE DEF new
<1> QED
  BY <1>2, <1>3, <1>4, RequestMoves

LEMMA ArriveKeeps ==
  ASSUME RequestInv, NEW r \in Requests, NEW h \in Hosts, NEW c \in CommandsOf[r], Arrive(r, h, c)
  PROVE  RequestInv'
<1> USE DEF RequestInv
<1> DEFINE new == [pc |-> "reading", at |-> h, command |-> c, waiting |-> TRUE,
                   outcome |-> NoOutcome]
<1>1. /\ request' = [request EXCEPT ![r] = new] /\ host' = host /\ connection' = connection
      /\ request[r].pc = "idle" /\ host[h].pc = "up"
      /\ host[h].kind = "cli" => \A q \in Requests : request[q].at # h
  BY DEF Arrive
<1>2. new \in Request /\ new.pc = "reading" /\ new.at = h /\ new.command = c
  <2>1. c \in Commands
    BY DEF Commands
  <2> QED
    BY <2>1 DEF Request
<1> HIDE DEF new
<1>3. /\ request' \in [Requests -> Request] /\ request'[r] = new
      /\ \A s \in Requests \ {r} : request'[s] = request[s]
  BY <1>1, <1>2 DEF RequestTypeOK
<1>4. RequestTypeOK'
  BY <1>1, <1>3 DEF RequestTypeOK
<1>5. Counted' /\ Held' /\ GoneForGood'
  BY <1>1 DEF Counted, Held, GoneForGood, ProcessGone, LiveHosts, Live
<1>6. Placed'
  BY <1>1, <1>2, <1>3 DEF Placed, Active
<1>7. OneCommand'
  BY <1>1, <1>2, <1>3 DEF OneCommand
<1>8. WaitingIsServed'
  BY <1>1, <1>2, <1>3 DEF WaitingIsServed, Active, Live
<1> QED
  BY <1>4, <1>5, <1>6, <1>7, <1>8

-----------------------------------------------------------------------------
\* The steps of a host.
LEMMA AcquiredCounts ==
  ASSUME RequestInv, CanOpen, NEW n \in Nat \ {0}
  PROVE  /\ Acquired(n) \in Connection
         /\ Acquired(n).refs = connection.refs + n /\ Acquired(n).handle # 0
         /\ LiveHosts # {} => Acquired(n).handle = connection.handle
<1> USE DEF RequestInv, RequestTypeOK
<1>1. CASE connection.refs > 0
  <2>1. Acquired(n) = [connection EXCEPT !.refs = @ + n]
    BY <1>1 DEF Acquired
  <2> QED
    BY <1>1, <2>1 DEF Connection, Held
<1>2. CASE ~(connection.refs > 0)
  <2>1. connection.refs = 0 /\ connection.opened < MaxHandles
    BY <1>2 DEF CanOpen, Connection
  <2>2. LiveHosts = {}
    BY <2>1, UnusedIsUnheld
  <2>3. Acquired(n) = [handle |-> connection.opened + 1, refs |-> n, opened |-> connection.opened + 1]
    BY <1>2 DEF Acquired
  <2> QED
    BY <2>1, <2>2, <2>3, StoresAssumption DEF Connection
<1> QED
  BY <1>1, <1>2

\* A host moves to another stage, and no request is disturbed by it.
LEMMA HostMoves ==
  ASSUME RequestInv, NEW h \in Hosts, NEW new \in Host, host' = [host EXCEPT ![h] = new],
         request' = request, new.pc # "gone",
         \/ host[h].pc \in {"off", "starting"}
         \/ new.kind = host[h].kind /\ new.pc \in {"up", "closing", "disposed"}
  PROVE  /\ host' \in [Hosts -> Host] /\ host'[h] = new
         /\ \A g \in Hosts \ {h} : host'[g] = host[g]
         /\ Placed' /\ OneCommand'
<1> USE DEF RequestInv
<1>1. /\ host' \in [Hosts -> Host] /\ host'[h] = new
      /\ \A g \in Hosts \ {h} : host'[g] = host[g]
  BY DEF RequestTypeOK
<1>2. \A r \in Requests : request[r].pc # "idle" =>
        /\ request[r].at \in Hosts
        /\ host'[request[r].at].kind = host[request[r].at].kind
        /\ host'[request[r].at].pc \in {"up", "closing", "disposed", "gone"}
        /\ Active(r) => host'[request[r].at].pc # "gone"
  <2>1. TAKE r \in Requests
  <2>2. HAVE request[r].pc # "idle"
  <2>3. CASE request[r].at = h
    BY <1>1, <2>2, <2>3 DEF Placed
  <2>4. CASE request[r].at # h
    BY <1>1, <2>2, <2>4 DEF Placed
  <2> QED
    BY <2>3, <2>4
<1>3. Placed'
  BY <1>2 DEF Placed, Active
<1>4. OneCommand'
  BY <1>2 DEF OneCommand
<1> QED
  BY <1>1, <1>3, <1>4

LEMMA BuildKeeps == ASSUME RequestInv, NEW h \in Hosts, Build(h) PROVE RequestInv'
<1>1. PICK kind \in {"api", "mcp", "cli"}, main \in BOOLEAN :
        host' = [host EXCEPT ![h] = [pc |-> IF kind = "api" THEN "starting" ELSE "up",
                                     kind |-> kind, main |-> main,
                                     handle |-> Acquired(Stores).handle]]
  BY DEF Build
<1>2. /\ connection' = Acquired(Stores) /\ request' = request /\ CanOpen
      /\ host[h].pc = "off" /\ ~ProcessGone
  BY DEF Build
<1> DEFINE new == [pc |-> IF kind = "api" THEN "starting" ELSE "up",
                   kind |-> kind, main |-> main, handle |-> Acquired(Stores).handle]
<1>3. /\ connection' \in Connection /\ connection'.refs = connection.refs + Stores
      /\ connection'.handle # 0
      /\ LiveHosts # {} => connection'.handle = connection.handle
  BY <1>2, StoresAssumption, AcquiredCounts
<1>4. new \in Host /\ new.pc \in {"starting", "up"} /\ new.handle = connection'.handle
  BY <1>2, <1>3 DEF Host, Connection
<1>5. host' = [host EXCEPT ![h] = new]
  BY <1>1
<1> HIDE DEF new
<1>6. /\ host' \in [Hosts -> Host] /\ host'[h] = new
      /\ \A g \in Hosts \ {h} : host'[g] = host[g]
      /\ Placed' /\ OneCommand'
  BY <1>2, <1>4, <1>5, HostMoves
<1> USE DEF RequestInv
<1>7. LiveHosts' = LiveHosts \cup {h} /\ h \notin LiveHosts
  BY <1>2, <1>4, <1>6 DEF LiveHosts, Live
<1>8. Stores * Cardinality(LiveHosts') = Stores * Cardinality(LiveHosts) + Stores
  BY <1>7, LiveAdded
<1>9. Stores * Cardinality(LiveHosts) \in Nat /\ connection.refs \in Nat /\ Stores \in Nat
  BY LiveFinite, StoresAssumption, Times DEF RequestTypeOK, Connection
<1>10. (\A g \in Hosts : host'[g].pc # "failed") => \A g \in Hosts : host[g].pc # "failed"
  BY <1>2, <1>6
<1>11. Counted'
  BY <1>3, <1>8, <1>9, <1>10 DEF Counted
<1>12. Held'
  <2>1. connection'.refs # 0
    BY <1>3, <1>9, StoresAssumption
  <2>2. ASSUME NEW g \in LiveHosts' PROVE host'[g].handle = connection'.handle
    BY <1>3, <1>4, <1>6, <1>7 DEF Held, LiveHosts
  <2> QED
    BY <1>3, <2>1, <2>2 DEF Held
<1>13. GoneForGood'
  BY <1>2, <1>4, <1>6 DEF GoneForGood, ProcessGone
<1>14. RequestTypeOK'
  BY <1>2, <1>3, <1>6 DEF RequestTypeOK
<1>15. WaitingIsServed'
  BY <1>2, <1>4, <1>6 DEF WaitingIsServed, Active, Live, Placed
<1> QED
  BY <1>6, <1>11, <1>12, <1>13, <1>14, <1>15

LEMMA BuildFailsKeeps == ASSUME RequestInv, NEW h \in Hosts, BuildFails(h) PROVE RequestInv'
<1>1. PICK n \in 1 .. Stores : connection' = Acquired(n)
  BY DEF BuildFails
<1>2. /\ request' = request /\ CanOpen /\ host[h].pc = "off" /\ ~ProcessGone
      /\ host' = [host EXCEPT ![h].pc = "failed"]
  BY DEF BuildFails
<1>3. n \in Nat \ {0}
  BY StoresAssumption
<1>4. /\ connection' \in Connection /\ connection'.refs = connection.refs + n
      /\ connection'.handle # 0
      /\ LiveHosts # {} => connection'.handle = connection.handle
  BY <1>1, <1>2, <1>3, AcquiredCounts
<1> DEFINE new == [host[h] EXCEPT !.pc = "failed"]
<1>5. new \in Host /\ new.pc = "failed" /\ host' = [host EXCEPT ![h] = new]
  BY <1>2 DEF RequestInv, RequestTypeOK, Host
<1> HIDE DEF new
<1>6. /\ host' \in [Hosts -> Host] /\ host'[h] = new
      /\ \A g \in Hosts \ {h} : host'[g] = host[g]
      /\ Placed' /\ OneCommand'
  BY <1>2, <1>5, HostMoves
<1> USE DEF RequestInv
<1>7. LiveHosts' = LiveHosts
  BY <1>2, <1>5, <1>6 DEF LiveHosts, Live
<1>8. Stores * Cardinality(LiveHosts) \in Nat /\ connection.refs \in Nat
  BY LiveFinite, StoresAssumption, Times DEF RequestTypeOK, Connection
<1>9. Counted'
  BY <1>3, <1>4, <1>5, <1>6, <1>7, <1>8 DEF Counted
<1>10. Held'
  <2>1. connection'.refs # 0
    BY <1>3, <1>4, <1>8
  <2>2. ASSUME NEW g \in LiveHosts PROVE host'[g].handle = connection'.handle
    BY <1>2, <1>4, <1>6 DEF Held, LiveHosts, Live
  <2> QED
    BY <1>4, <1>7, <2>1, <2>2 DEF Held
<1>11. GoneForGood'
  BY <1>2, <1>5, <1>6 DEF GoneForGood, ProcessGone
<1>12. RequestTypeOK'
  BY <1>2, <1>4, <1>6 DEF RequestTypeOK
<1>13. WaitingIsServed'
  BY <1>2, <1>5, <1>6 DEF WaitingIsServed, Active, Live, Placed
<1> QED
  BY <1>6, <1>9, <1>10, <1>11, <1>12, <1>13

LEMMA EndKeeps == ASSUME RequestInv, EndProcess PROVE RequestInv'
<1> USE DEF RequestInv
<1>1. /\ host' \in [Hosts -> Host]
      /\ \A h \in Hosts : /\ host'[h].pc \in {"off", "gone"}
                          /\ host'[h].kind = host[h].kind
                          /\ host[h].pc # "off" => host'[h].pc = "gone"
  <2> DEFINE f(h) == IF host[h].pc = "off" THEN host[h] ELSE [host[h] EXCEPT !.pc = "gone"]
  <2>1. \A h \in Hosts : /\ f(h) \in Host /\ f(h).pc \in {"off", "gone"} /\ f(h).kind = host[h].kind
                         /\ host[h].pc # "off" => f(h).pc = "gone"
    BY DEF RequestTypeOK, Host
  <2>2. host' = [h \in Hosts |-> f(h)]
    BY DEF EndProcess
  <2> HIDE DEF f
  <2> QED
    BY <2>1, <2>2
<1>2. connection' \in Connection /\ connection'.refs = 0 /\ connection'.handle = 0
  <2>1. connection \in Connection
    BY DEF RequestTypeOK
  <2>2. connection' = [handle |-> 0, refs |-> 0, opened |-> connection.opened]
    BY <2>1 DEF EndProcess, Connection
  <2> QED
    BY <2>1, <2>2, StoresAssumption DEF Connection
<1>3. /\ request' \in [Requests -> Request]
      /\ \A r \in Requests :
           /\ request'[r].at = request[r].at /\ request'[r].command = request[r].command
           /\ ~(request'[r].pc \in {"reading", "context", "running"})
           /\ request'[r].pc # "idle" => request[r].pc # "idle"
  <2> DEFINE f(r) == IF Active(r) THEN [request[r] EXCEPT !.pc = "lost"] ELSE request[r]
  <2>1. \A r \in Requests :
          /\ f(r) \in Request /\ f(r).at = request[r].at /\ f(r).command = request[r].command
          /\ ~(f(r).pc \in {"reading", "context", "running"})
          /\ f(r).pc # "idle" => request[r].pc # "idle"
    BY DEF RequestTypeOK, Request, Active
  <2>2. request' = [r \in Requests |-> f(r)]
    BY DEF EndProcess
  <2> HIDE DEF f
  <2> QED
    BY <2>1, <2>2
<1>4. RequestTypeOK'
  BY <1>1, <1>2, <1>3 DEF RequestTypeOK
<1>5. LiveHosts' = {}
  BY <1>1 DEF LiveHosts, Live
<1>6. Stores * Cardinality(LiveHosts') = 0
  BY <1>5, FS_EmptySet, StoresAssumption, Times
<1>7. Counted' /\ Held'
  BY <1>2, <1>5, <1>6 DEF Counted, Held
<1>8. GoneForGood'
  BY <1>1 DEF GoneForGood
<1>9. Placed' /\ WaitingIsServed'
  BY <1>1, <1>3 DEF Placed, WaitingIsServed, Active
<1>10. OneCommand'
  BY <1>1, <1>3 DEF OneCommand, Placed
<1> QED
  BY <1>4, <1>7, <1>8, <1>9, <1>10

LEMMA ListenKeeps == ASSUME RequestInv, NEW h \in Hosts, Listen(h) PROVE RequestInv'
<1>1. CASE EndProcess
  BY <1>1, EndKeeps
<1>2. ASSUME NEW pc \in {"up", "failed"}, host' = [host EXCEPT ![h].pc = pc],
             UNCHANGED <<connection, request>>
      PROVE  RequestInv'
  <2> DEFINE new == [host[h] EXCEPT !.pc = pc]
  <2>1. host[h].pc = "starting"
    BY DEF Listen
  <2>2. /\ new \in Host /\ new.pc = pc /\ new.handle = host[h].handle
        /\ host' = [host EXCEPT ![h] = new]
    BY <1>2 DEF RequestInv, RequestTypeOK, Host
  <2> HIDE DEF new
  <2>3. /\ host' \in [Hosts -> Host] /\ host'[h] = new
        /\ \A g \in Hosts \ {h} : host'[g] = host[g]
        /\ Placed' /\ OneCommand'
    BY <1>2, <2>1, <2>2, HostMoves
  <2> USE DEF RequestInv
  <2>4. h \in LiveHosts /\ ~ProcessGone
    BY <2>1 DEF LiveHosts, Live, GoneForGood
  <2>5. LiveHosts' = IF pc = "up" THEN LiveHosts ELSE LiveHosts \ {h}
    BY <2>2, <2>3, <2>4 DEF LiveHosts, Live
  <2>6. Counted'
    <3>1. CASE pc = "up"
      <4>1. (\A g \in Hosts : host'[g].pc # "failed") => \A g \in Hosts : host[g].pc # "failed"
        BY <2>1, <2>3
      <4> QED
        BY <1>2, <2>5, <3>1, <4>1 DEF Counted
    <3>2. CASE pc = "failed"
      <4>1. LiveHosts' = LiveHosts \ {h}
        BY <2>5, <3>2
      <4>2. /\ Stores * Cardinality(LiveHosts) = Stores * Cardinality(LiveHosts') + Stores
            /\ Stores * Cardinality(LiveHosts') \in Nat
        BY <2>4, <4>1, LiveRemoved
      <4>3. connection.refs \in Nat /\ Stores \in Nat
        BY StoresAssumption DEF RequestTypeOK, Connection
      <4>4. host'[h].pc = "failed"
        BY <2>2, <2>3, <3>2
      <4> QED
        BY <1>2, <4>2, <4>3, <4>4 DEF Counted
    <3> QED
      BY <3>1, <3>2
  <2>7. Held'
    BY <1>2, <2>2, <2>3, <2>4, <2>5 DEF Held, LiveHosts
  <2>8. GoneForGood'
    BY <2>2, <2>3, <2>4 DEF GoneForGood, ProcessGone
  <2>9. RequestTypeOK'
    BY <1>2, <2>3 DEF RequestTypeOK
  <2>10. WaitingIsServed'
    BY <1>2, <2>1, <2>2, <2>3 DEF WaitingIsServed, Active, Live, Placed
  <2> QED
    BY <2>3, <2>6, <2>7, <2>8, <2>9, <2>10
<1> QED
  BY <1>1, <1>2 DEF Listen

\* A container is disposed once nobody who waits is at it.
LEMMA DisposeKeeps ==
  ASSUME RequestInv, NEW h \in Hosts, host[h].pc \in {"up", "closing"}, Dispose(h, "disposed"),
         UNCHANGED request,
         \A r \in Requests : ~(Active(r) /\ request[r].at = h /\ request[r].waiting)
  PROVE  RequestInv'
<1> DEFINE new == [host[h] EXCEPT !.pc = "disposed"]
<1>1. /\ new \in Host /\ new.pc = "disposed" /\ new.kind = host[h].kind
      /\ host' = [host EXCEPT ![h] = new]
  BY DEF Dispose, RequestInv, RequestTypeOK, Host
<1> HIDE DEF new
<1>2. /\ host' \in [Hosts -> Host] /\ host'[h] = new
      /\ \A g \in Hosts \ {h} : host'[g] = host[g]
      /\ Placed' /\ OneCommand'
  BY <1>1, HostMoves
<1> USE DEF RequestInv
<1>3. h \in LiveHosts /\ ~ProcessGone
  BY DEF LiveHosts, Live, GoneForGood
<1>4. LiveHosts' = LiveHosts \ {h}
  BY <1>1, <1>2 DEF LiveHosts, Live
<1>5. /\ Stores * Cardinality(LiveHosts) = Stores * Cardinality(LiveHosts') + Stores
      /\ Stores * Cardinality(LiveHosts') \in Nat
  BY <1>3, <1>4, LiveRemoved
<1>6. Stores \in Nat \ {0} /\ connection \in Connection /\ connection.refs \in Nat
  BY StoresAssumption DEF RequestTypeOK, Connection
<1>7. connection.refs >= Stores
  BY <1>5, <1>6 DEF Counted
<1>8. /\ connection' \in Connection /\ connection'.refs = connection.refs - Stores
      /\ connection'.handle = IF connection.refs = Stores THEN 0 ELSE connection.handle
  <2>1. CASE connection.refs = Stores
    <3>1. connection' = [handle |-> 0, refs |-> 0, opened |-> connection.opened]
      BY <1>6, <2>1 DEF Dispose, Released, Connection
    <3> QED
      BY <1>6, <2>1, <3>1, StoresAssumption DEF Connection
  <2>2. CASE connection.refs # Stores
    <3>1. connection' = [connection EXCEPT !.refs = @ - Stores]
      BY <2>2 DEF Dispose, Released
    <3>2. connection.refs - Stores \in Nat
      BY <1>6, <1>7
    <3> QED
      BY <1>6, <2>2, <3>1, <3>2 DEF Connection
  <2> QED
    BY <2>1, <2>2
<1>9. Counted'
  <2>1. connection'.refs >= Stores * Cardinality(LiveHosts')
    BY <1>5, <1>6, <1>8 DEF Counted
  <2>2. ASSUME \A g \in Hosts : host'[g].pc # "failed"
        PROVE  connection'.refs = Stores * Cardinality(LiveHosts')
    <3>1. \A g \in Hosts : host[g].pc # "failed"
      BY <1>2, <2>2
    <3> QED
      BY <1>5, <1>6, <1>8, <3>1 DEF Counted
  <2> QED
    BY <2>1, <2>2 DEF Counted
<1>10. Held'
  <2>1. connection'.handle = 0 <=> connection'.refs = 0
    BY <1>6, <1>7, <1>8 DEF Held
  <2>2. ASSUME NEW g \in LiveHosts' PROVE host'[g].handle = connection'.handle
    <3>1. g \in LiveHosts /\ g # h /\ host'[g] = host[g]
      BY <1>2, <1>4, <2>2 DEF LiveHosts
    <3>2. connection'.refs # 0
      <4>1. connection'.refs = 0 => Stores * Cardinality(LiveHosts') = 0
        BY <1>5, <1>6, <1>8, <1>9 DEF Counted
      <4>2. IsFiniteSet(LiveHosts')
        BY <1>4, LiveFinite, FS_Subset
      <4>3. Cardinality(LiveHosts') \in Nat \ {0}
        BY <2>2, <4>2, FS_CardinalityType, FS_EmptySet
      <4>4. Stores * Cardinality(LiveHosts') >= Stores
        BY <1>6, <4>3, Times
      <4> QED
        BY <1>5, <1>6, <4>1, <4>4
    <3> QED
      BY <1>6, <1>8, <3>1, <3>2 DEF Held
  <2> QED
    BY <2>1, <2>2 DEF Held
<1>11. GoneForGood'
  BY <1>1, <1>2, <1>3 DEF GoneForGood, ProcessGone
<1>12. RequestTypeOK'
  BY <1>2, <1>8 DEF RequestTypeOK
<1>13. WaitingIsServed'
  BY <1>2 DEF WaitingIsServed, Active, Live, Placed
<1> QED
  BY <1>2, <1>9, <1>10, <1>11, <1>12, <1>13

LEMMA CloseKeeps == ASSUME RequestInv, NEW h \in Hosts, Close(h) PROVE RequestInv'
<1> DEFINE new == [host[h] EXCEPT !.pc = "closing"]
<1>1. /\ host[h].pc = "up" /\ UNCHANGED <<connection, request>>
      /\ new \in Host /\ new.pc = "closing" /\ new.kind = host[h].kind
      /\ new.handle = host[h].handle /\ host' = [host EXCEPT ![h] = new]
  BY DEF Close, RequestInv, RequestTypeOK, Host
<1> HIDE DEF new
<1>2. /\ host' \in [Hosts -> Host] /\ host'[h] = new
      /\ \A g \in Hosts \ {h} : host'[g] = host[g]
      /\ Placed' /\ OneCommand'
  BY <1>1, HostMoves
<1> USE DEF RequestInv
<1>3. LiveHosts' = LiveHosts /\ h \in LiveHosts
  BY <1>1, <1>2 DEF LiveHosts, Live
<1>4. (\A g \in Hosts : host'[g].pc # "failed") => \A g \in Hosts : host[g].pc # "failed"
  BY <1>1, <1>2
<1>5. Counted'
  BY <1>1, <1>3, <1>4 DEF Counted
<1>6. Held'
  BY <1>1, <1>2, <1>3 DEF Held, LiveHosts
<1>7. GoneForGood'
  BY <1>1, <1>2 DEF GoneForGood, ProcessGone
<1>8. RequestTypeOK'
  BY <1>1, <1>2 DEF RequestTypeOK
<1>9. WaitingIsServed'
  BY <1>1, <1>2 DEF WaitingIsServed, Active, Live, Placed
<1> QED
  BY <1>2, <1>5, <1>6, <1>7, <1>8, <1>9

LEMMA ClosedKeeps == ASSUME RequestInv, NEW h \in Hosts, Closed(h) PROVE RequestInv'
BY DisposeKeeps DEF Closed

LEMMA CommandKeeps == ASSUME RequestInv, NEW h \in Hosts, CommandEnds(h) PROVE RequestInv'
<1>1. /\ host[h].pc = "up" /\ host[h].kind = "cli" /\ Dispose(h, "disposed") /\ UNCHANGED request
  BY DEF CommandEnds
<1>2. PICK q \in Requests : request[q].at = h /\ request[q].pc = "answered"
  BY DEF CommandEnds
<1>3. \A r \in Requests : ~(Active(r) /\ request[r].at = h /\ request[r].waiting)
  BY <1>1, <1>2 DEF RequestInv, OneCommand, Active
<1> QED
  BY <1>1, <1>3, DisposeKeeps

LEMMA RequestInvNext == RequestInv /\ [RequestNext]_requestVars => RequestInv'
<1> SUFFICES ASSUME RequestInv, [RequestNext]_requestVars PROVE RequestInv'
  OBVIOUS
<1>1. CASE UNCHANGED requestVars
  BY <1>1 DEF requestVars, RequestInv, RequestTypeOK, Counted, Held, GoneForGood, ProcessGone, Placed,
              OneCommand, WaitingIsServed, Active, LiveHosts, Live
<1>2. ASSUME NEW h \in Hosts, Exit(h) \/ SecondSignal(h) \/ Shutdown(h) PROVE RequestInv'
  BY <1>2, EndKeeps DEF Exit, SecondSignal, Shutdown
<1> QED
  BY <1>1, <1>2, BuildKeeps, BuildFailsKeeps, ListenKeeps, CloseKeeps, ClosedKeeps, CommandKeeps,
     ArriveKeeps, DispatchKeeps, InjectKeeps, FinishKeeps, DisconnectKeeps DEF RequestNext

LEMMA RequestInvHolds == RequestSpec => []RequestInv
BY RequestInvInit, RequestInvNext, PTL DEF RequestSpec

-----------------------------------------------------------------------------
\* Every variable keeps its type, for any hosts, requests and stores.
THEOREM RequestTypeCorrect == RequestSpec => []RequestTypeOK
<1>1. RequestInv => RequestTypeOK
  BY DEF RequestInv
<1> QED
  BY <1>1, RequestInvHolds, PTL

\* The reference count of the shared connection is right: no container loses it
\* while in use, and unless one failed it is closed with the last.
THEOREM ConnectionIsKept == RequestSpec => []ConnectionServesItsStores
<1>1. RequestInv => ConnectionServesItsStores
  BY DEF RequestInv, Counted, Held, LiveHosts, ConnectionServesItsStores
<1> QED
  BY <1>1, RequestInvHolds, PTL

\* No container is disposed while a client waits for what it works on.
THEOREM ClientsAreServed == RequestSpec => []WaitingIsServed
<1>1. RequestInv => WaitingIsServed
  BY DEF RequestInv
<1> QED
  BY <1>1, RequestInvHolds, PTL

-----------------------------------------------------------------------------
\* What an outcome may be, whatever the commands.
LEMMA OutcomeCases ==
  ASSUME NEW o \in Outcomes \cup {NoOutcome}
  PROVE  \/ \E v \in {"success", "fail", "escalate"} : o = <<"status", v>>
         \/ \E v \in {"yes", "no"} : o = <<"valid", v>> \/ o = <<"found", v>>
         \/ o = <<"plain", "yes">> \/ o = <<"ok", "yes">> \/ o = <<"none", "none">>
         \/ \E v \in ErrorCodes : o = <<"error", v>>
         \/ \E v \in {"transport", "unauthorized", "forbidden", "other"} : o = <<"threw", v>>
<1>1. CASE o = NoOutcome
  BY <1>1 DEF NoOutcome
<1>2. CASE o \in Thrown
  BY <1>2 DEF Thrown, Outcome
<1>3. ASSUME NEW c \in Commands, o \in Results(c)
      PROVE  \/ \E v \in {"success", "fail", "escalate"} : o = <<"status", v>>
             \/ \E v \in {"yes", "no"} : o = <<"valid", v>> \/ o = <<"found", v>>
             \/ o = <<"plain", "yes">> \/ o = <<"ok", "yes">>
             \/ \E v \in ErrorCodes : o = <<"error", v>>
  BY <1>3 DEF Results, Outcome
<1>4. o \in Outcomes => o \in Thrown \/ \E c \in Commands : o \in Results(c)
  BY Zenon DEF Outcomes
<1> QED
  BY <1>1, <1>2, <1>3, <1>4

\* Whether the transports tell failure apart on an outcome.
Consistent(o) ==
  /\ McpFails(o) => CliFails(o)
  /\ CliFails(o) => HttpStatus(o) >= 400
  /\ CliFails(o) /\ ~McpFails(o) => o[1] \in {"status", "valid"}
  /\ HttpStatus(o) >= 400 /\ ~CliFails(o) => o = <<"found", "no">>

LEMMA OutcomesAgree ==
  ASSUME NEW o \in Outcomes \cup {NoOutcome}
  PROVE  Consistent(o)
<1> USE DEF Consistent, McpFails, CliFails, HttpStatus, StatusOfCode
<1>1. ASSUME NEW v \in {"success", "fail", "escalate"}, o = <<"status", v>> PROVE Consistent(o)
  BY <1>1
<1>2. ASSUME NEW v \in {"yes", "no"}, o = <<"valid", v>> \/ o = <<"found", v>> PROVE Consistent(o)
  BY <1>2
<1>3. CASE o = <<"plain", "yes">> \/ o = <<"ok", "yes">> \/ o = <<"none", "none">>
  BY <1>3
<1>4. ASSUME NEW v \in ErrorCodes, o = <<"error", v>> PROVE Consistent(o)
  BY <1>4 DEF ErrorCodes
<1>5. ASSUME NEW v \in {"transport", "unauthorized", "forbidden", "other"}, o = <<"threw", v>> PROVE Consistent(o)
  BY <1>5
<1> HIDE DEF Consistent, McpFails, CliFails, HttpStatus, StatusOfCode
<1> QED
  BY <1>1, <1>2, <1>3, <1>4, <1>5, OutcomeCases

\* The three transports tell failure from success apart on the same results.
THEOREM TransportsTellFailure == RequestSpec => []TransportsAgree
<1>1. RequestInv => TransportsAgree
  <2> SUFFICES ASSUME RequestInv, NEW r \in Requests
               PROVE  Consistent(request[r].outcome)
    BY DEF TransportsAgree, Consistent
  <2>1. request[r].outcome \in Outcomes \cup {NoOutcome}
    BY DEF RequestInv, RequestTypeOK, Request
  <2> QED
    BY <2>1, OutcomesAgree
<1> QED
  BY <1>1, RequestInvHolds, PTL
===============================================================================
