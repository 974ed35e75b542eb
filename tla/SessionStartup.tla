---------------------------- MODULE SessionStartup ----------------------------
(***************************************************************************)
(* The start of an MCP session in a container: the wrapper runs the checks *)
(* of validateDockerMcpSessionStartup one after the other, refuses when    *)
(* one fails, and otherwise starts the MCP server, which reads the actor   *)
(* registry again and serves every call for one default actor.  Between    *)
(* the check of the registry and that reading the file may change.         *)
(*                                                                         *)
(* A profile is the environment and the container a session starts in.     *)
(* Paths are sequences of names, the root being the empty one; a switch    *)
(* is "true", "false" or something that parses as neither.                 *)
(***************************************************************************)
EXTENDS ActorPolicy, SequencesExt

CONSTANTS
  Profiles,       \* what a session may start in
  RegistryTexts,  \* what the registry file may say; Absent does not parse
  SessionScopes,  \* what the calls of a session may ask for
  Moments,        \*   and when
  MaxEdits        \* bound: changes of the registry file

\* The environment names the default actor, and a registry lists an actor once.
ASSUME SessionAssumption ==
  /\ MaxEdits \in Nat /\ Absent # "brain-mcp-session"
  /\ \A p \in Profiles : p.mounts \subseteq Seq(STRING) /\ (p.complete => p.actor.id # Absent)
  /\ \A text \in RegistryTexts \ {Absent} :
       \A i, j \in DOMAIN text : text[i].id = text[j].id => i = j

VARIABLES
  profile,
  registryText,  \* the file at MAB_AUTH_ACTOR_REGISTRY_PATH
  session,
  edits

sessionVars == <<profile, registryText, session, edits>>
-----------------------------------------------------------------------------
Checks == <<"required_explicit_env", "strict_session_contract", "storage_layout",
            "storage_mounts", "session_actor_binding", "qdrant_dependency",
            "model_endpoint_dependency", "coding_runtime_dependency">>

Session ==
  [pc : {"check", "report", "launched", "serving", "ended"},
   next : 1 .. Len(Checks) + 1,       \* the check to run
   failed : SUBSET ToSet(Checks),
   checked : RegistryTexts,           \* history: the registry that was checked
   registry : RegistryTexts]          \* the one the server has loaded

SessionTypeOK ==
  /\ profile \in Profiles /\ registryText \in RegistryTexts
  /\ session \in Session
  /\ edits \in 0 .. MaxEdits

SessionInit ==
  /\ profile \in Profiles /\ registryText \in RegistryTexts
  /\ session = [pc |-> "check", next |-> 1, failed |-> {},
                checked |-> registryText, registry |-> registryText]
  /\ edits = 0

-----------------------------------------------------------------------------
\* parseBooleanStrict against parseBoolean, which falls back to a default.
Strict(switch, value) == switch = value
Switch(switch, default) == IF switch = "other" THEN default ELSE switch = "true"

ContractHolds ==
  /\ profile.enforced /\ profile.dockerRoles
  /\ Strict(profile.anonymousInternal, "false")
  /\ Strict(profile.disableFallbacks, "true")
  /\ Strict(profile.softFail, "false")

Directories == {profile.canonical, profile.staging, profile.state, profile.config}
AreApart(p, q) == ~IsPrefix(p, q) /\ ~IsPrefix(q, p)

\* pathsOverlap compares with the path followed by a separator, so the root
\* overlaps nothing but itself.
Overlap(p, q) ==
  \/ p = q
  \/ q # <<>> /\ IsPrefix(q, p)
  \/ p # <<>> /\ IsPrefix(p, q)

LayoutHolds ==
  /\ profile.absolute
  /\ Cardinality(Directories) = 4
  /\ \A p, q \in Directories : p # q => ~Overlap(p, q)
  /\ Directories \cup {profile.pythonPath} \subseteq profile.existing
  /\ profile.files  \* the registry file and the module of the runtime

\* Mutant: the root of the container counts as a mount.
IsMounted_Root(p) == \E m \in profile.mounts : IsPrefix(m, p)

\* The longest mount point over the path is not the root.
IsMounted(p) == \E m \in profile.mounts : m # <<>> /\ IsPrefix(m, p)

Credentials(e) == {e.creds[i].token : i \in DOMAIN e.creds}

\* Mutant: the token may be that of any entry.
BindingHolds_AnyEntry(registry) ==
  registry # Absent /\
  \E i, j \in DOMAIN registry :
    /\ registry[i].id = profile.actor.id /\ registry[i].role = profile.actor.role
    /\ profile.actor.token \in Credentials(registry[j])

\* The registry loads, and has an entry with the identity, role and token of the
\* default actor; nothing else of the entry is looked at.
BindingHolds(registry) ==
  registry # Absent /\
  \E i \in DOMAIN registry :
    /\ registry[i].id = profile.actor.id /\ registry[i].role = profile.actor.role
    /\ profile.actor.token \in Credentials(registry[i])

\* discoverModels: the first endpoint that answers with at least one model counts.
ModelsServed ==
  LET offering == {i \in DOMAIN profile.endpoints : profile.endpoints[i] # {}}
  IN IF offering = {} THEN {} ELSE profile.endpoints[Min(offering)]

ModelsHold == ModelsServed # {} /\ profile.models \subseteq ModelsServed

Passes(check) ==
  CASE check = "required_explicit_env" -> profile.complete
    [] check = "strict_session_contract" -> ContractHolds
    [] check = "storage_layout" -> LayoutHolds
    [] check = "storage_mounts" -> \A p \in Directories : IsMounted(p)
    [] check = "session_actor_binding" -> BindingHolds(registryText)
    [] check = "qdrant_dependency" -> profile.qdrant \in {"collection", "no_collection"}
    [] check = "model_endpoint_dependency" -> ModelsHold
    [] check = "coding_runtime_dependency" -> profile.python

-----------------------------------------------------------------------------
\* Every check runs, but for the first, whose failure ends the list.
RunCheck ==
  /\ session.pc = "check"
  /\ LET check == Checks[session.next]
         ends == \/ session.next = Len(Checks)
                 \/ check = "required_explicit_env" /\ ~Passes(check) IN
       session' = [session EXCEPT
         !.pc = IF ends THEN "report" ELSE "check",
         !.next = @ + 1,
         !.failed = IF Passes(check) THEN @ ELSE @ \cup {check},
         !.checked = IF check = "session_actor_binding" THEN registryText ELSE @]
  /\ UNCHANGED <<profile, registryText, edits>>

\* The wrapper refuses, or only validates, or starts the server.
Launch ==
  /\ session.pc = "report"
  /\ session' = [session EXCEPT
       !.pc = IF session.failed = {} /\ ~profile.validateOnly THEN "launched" ELSE "ended"]
  /\ UNCHANGED <<profile, registryText, edits>>

\* The server loads the environment again, and ends when the registry does not parse.
LoadRegistry ==
  /\ session.pc = "launched"
  /\ session' = [session EXCEPT
       !.pc = IF registryText = Absent THEN "ended" ELSE "serving", !.registry = registryText]
  /\ UNCHANGED <<profile, registryText, edits>>

\* The client closes stdin, or a signal is passed on.
EndSession ==
  /\ session.pc \in {"launched", "serving"}
  /\ session' = [session EXCEPT !.pc = "ended"]
  /\ UNCHANGED <<profile, registryText, edits>>

EditRegistry(text) ==
  /\ edits < MaxEdits /\ text # registryText
  /\ session.pc \in {"check", "report", "launched"}
  /\ edits' = edits + 1
  /\ registryText' = text
  /\ UNCHANGED <<profile, session>>

SessionNext ==
  RunCheck \/ Launch \/ LoadRegistry \/ EndSession \/ \E text \in RegistryTexts : EditRegistry(text)

SessionSpec == SessionInit /\ [][SessionNext]_sessionVars

-----------------------------------------------------------------------------
\* The policy and the actor of a session that serves.
SessionPolicy ==
  [enforced |-> profile.enforced, anonymousInternal |-> Switch(profile.anonymousInternal, TRUE),
   registry |-> session.registry, issuer |-> FALSE, requireMatch |-> TRUE]
SessionActor ==
  [id |-> profile.actor.id, role |-> profile.actor.role, token |-> profile.actor.token,
   source |-> IF profile.actor.source = Absent THEN "brain-mcp-session" ELSE profile.actor.source,
   transport |-> "mcp"]

\* Whether an entry limits nothing but the role, now, of what its actor may do.
Unlimited(e, now) ==
  /\ e.enabled /\ InWindow(now, e) /\ e.source \in {Absent, SessionActor.source}
  /\ Allows(e.transports, "mcp") /\ e.commands = Absent /\ e.adminActions = Absent
  /\ \A i \in DOMAIN e.creds : InWindow(now, e.creds[i])

\* A session serves only when every check passed; and when the registry was not
\* changed behind the check, and the entry of the default actor limits nothing,
\* every call its role allows is authorized, at any time, and no other is.
StartupPredictsVerdict ==
  session.pc = "serving" =>
    /\ session.failed = {} /\ ~profile.validateOnly
    /\ session.registry = session.checked =>
         \A scope \in SessionScopes, now \in Moments :
           LET verdict == Verdict(SessionPolicy, {}, SessionActor, scope, now) IN
           /\ Registered(SessionPolicy, profile.actor.id)
           /\ verdict = "authorized" => RoleAllowed(profile.actor.role, scope)
           /\ Unlimited(Entry(SessionPolicy, profile.actor.id), now) =>
                (RoleAllowed(profile.actor.role, scope) => verdict = "authorized")

\* The canonical, staging, state and config directories of a session that serves lie
\* apart, the root of the container included: neither the check of the layout nor
\* that of the mounts sees to it alone.
DirectoriesAreApart ==
  session.pc = "serving" =>
    Cardinality(Directories) = 4 /\ \A p, q \in Directories : p # q => AreApart(p, q)
=============================================================================
