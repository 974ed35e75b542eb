----------------------------- MODULE ActorPolicy -----------------------------
(***************************************************************************)
(* ActorAuthorizationPolicy: the two decisions it takes about a token.     *)
(* Verdict is what authorizeOperation answers to an actor who asks for an  *)
(* operation; Inspection is what inspectToken says of a token to an        *)
(* operator who asks what it would be good for.  The source writes them    *)
(* apart, over one registry.                                               *)
(*                                                                         *)
(* Names are members of small sets, and an optional field that is left out *)
(* is Absent.  A token is a name too; Claims gives what the policy reads   *)
(* off those whose signature it accepts, and the name doubles as the id.   *)
(* The wording of reasons and errors is left out.                          *)
(***************************************************************************)
EXTENDS Naturals, Sequences, FiniteSets

CONSTANTS
  Absent,   \* what is undefined
  Claims    \* the claims of each token signed with the issuer's secret

-----------------------------------------------------------------------------
Staff == {"operator", "system"}
Stewards == Staff \cup {"orchestrator"}
StaffCommands == {"execute_coding_task", "show_tool_output", "create_session_archive"}
StewardCommands ==
  {"list_agent_traces", "create_refresh_draft", "create_refresh_drafts",
   "import_resource", "validate_note", "promote_note", "query_history"}
ReadCommands ==
  {"search_context", "search_session_archives", "assemble_agent_context",
   "get_context_packet", "fetch_decision_summary"}

CommandRoles(command) ==
  CASE command \in StaffCommands -> Staff
    [] command \in StewardCommands -> Stewards
    [] command \in ReadCommands -> Stewards \cup {"retrieval"}
    [] command = "draft_note" -> Stewards \cup {"writer"}

AdminRoles(action) ==
  IF action = "view_freshness_status" THEN Stewards ELSE Staff

\* A scope asks for a command or for an administrative action.
RoleAllowed(role, scope) ==
  /\ scope.command # Absent => role \in CommandRoles(scope.command)
  /\ scope.adminAction # Absent => role \in AdminRoles(scope.adminAction)

\* Both ends of a validity window belong to it.
InWindow(now, w) ==
  /\ w.from # Absent => now >= w.from
  /\ w.until # Absent => now <= w.until

Allows(list, x) == x = Absent \/ list = Absent \/ x \in list

AdmitsScope(lists, scope) ==
  /\ Allows(lists.commands, scope.command)
  /\ Allows(lists.adminActions, scope.adminAction)

-----------------------------------------------------------------------------
(* The registry: a sequence of entries, whose order is that of the map.    *)
Entries(p) == {p.registry[i] : i \in DOMAIN p.registry}
Registered(p, id) == \E e \in Entries(p) : e.id = id
Entry(p, id) == CHOOSE e \in Entries(p) : e.id = id

\* deriveActorLifecycleStatus says active.
IsActive(e, now) == e.enabled /\ InWindow(now, e)

\* Where a token is configured: an entry and one of its credentials.
Configured(p, token) ==
  UNION {{<<i, j>> : j \in {k \in DOMAIN p.registry[i].creds :
                              p.registry[i].creds[k].token = token}}
          : i \in DOMAIN p.registry}

FirstConfigured(p, token) ==
  CHOOSE m \in Configured(p, token) : \A n \in Configured(p, token) :
    m[1] < n[1] \/ (m[1] = n[1] /\ m[2] <= n[2])

-----------------------------------------------------------------------------
(* authorizeOperation                                                      *)
\* tryAuthorizeIssuedToken
ByIssuedToken(p, revoked, actor, scope, now) ==
  /\ p.issuer /\ actor.token \in DOMAIN Claims
  /\ p.requireMatch => Registered(p, actor.id)
  /\ LET c == Claims[actor.token] IN
       /\ InWindow(now, c) /\ actor.token \notin revoked
       /\ c.id = actor.id /\ c.role = actor.role
       /\ c.source \in {Absent, actor.source}
       /\ Allows(c.transports, actor.transport) /\ AdmitsScope(c, scope)

ByCredential(e, actor, now) ==
  \E i \in DOMAIN e.creds : e.creds[i].token = actor.token /\ InWindow(now, e.creds[i])

\* What a registered actor may do whatever the token.
EntryAdmits(e, actor, scope, now) ==
  /\ IsActive(e, now)
  /\ e.role = actor.role
  /\ Allows(e.transports, actor.transport) /\ AdmitsScope(e, scope)
  /\ e.source \in {Absent, actor.source}

Verdict(p, revoked, actor, scope, now) ==
  IF Absent \in {actor.id, actor.source} THEN "unauthorized"
  ELSE IF ~RoleAllowed(actor.role, scope) THEN "forbidden"
  ELSE IF ~Registered(p, actor.id)
    THEN IF \/ ByIssuedToken(p, revoked, actor, scope, now)
            \/ ~p.enforced
            \/ p.anonymousInternal /\ actor.transport = "internal"
         THEN "authorized" ELSE "unauthorized"
  ELSE LET e == Entry(p, actor.id) IN
    IF ~EntryAdmits(e, actor, scope, now) THEN "forbidden"
    ELSE IF \/ ByIssuedToken(p, revoked, actor, scope, now)
            \/ e.creds # <<>> /\ ByCredential(e, actor, now)
            \/ e.creds = <<>> /\ (~p.enforced \/ actor.transport = "internal")
         THEN "authorized" ELSE "unauthorized"

-----------------------------------------------------------------------------
(* inspectToken                                                            *)
StaticInspection(p, token, expected, now) ==
  LET m == FirstConfigured(p, token)
      e == p.registry[m[1]] IN
  [kind |-> "static",
   valid |-> /\ IsActive(e, now) /\ InWindow(now, e.creds[m[2]])
             /\ Allows(e.transports, expected.transport) /\ AdmitsScope(e, expected)]

\* Mutant: an entry bound to a source matches only claims bound to it too.
MatchesRegistry_SameSource(p, c) ==
  /\ Registered(p, c.id)
  /\ LET e == Entry(p, c.id) IN e.role = c.role /\ c.source = e.source

MatchesRegistry(p, c) ==
  /\ Registered(p, c.id)
  /\ LET e == Entry(p, c.id) IN
       e.role = c.role /\ (Absent \in {c.source, e.source} \/ c.source = e.source)

IssuedInspection(p, revoked, token, expected, now) ==
  LET c == Claims[token] IN
  [kind |-> "issued",
   valid |-> /\ InWindow(now, c) /\ token \notin revoked
             /\ p.requireMatch => MatchesRegistry(p, c)
             /\ Allows(c.transports, expected.transport) /\ AdmitsScope(c, expected)
             /\ Registered(p, c.id) => IsActive(Entry(p, c.id), now)]

Inspection(p, revoked, token, expected, now) ==
  IF Configured(p, token) # {} THEN StaticInspection(p, token, expected, now)
  ELSE IF p.issuer /\ token \in DOMAIN Claims
    THEN IssuedInspection(p, revoked, token, expected, now)
  ELSE [kind |-> "unknown", valid |-> FALSE]
=============================================================================
