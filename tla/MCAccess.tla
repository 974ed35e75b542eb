------------------------------ MODULE MCAccess ------------------------------
(* Instances for TLC of the modules on who may ask and what is answered.   *)
(* They share no state: one of them moves in a behaviour, while the others *)
(* stay in one of their initial states.                                    *)
EXTENDS Requests, IssuedTokens, SessionStartup, ContextPackets, AgentContext, TLC

VARIABLE part

CONSTANTS alice, bruno, desk, lab, badge, spare, r1, r2, r3, api, cli, first, second, note, other

-----------------------------------------------------------------------------
SomeCommands ==
  first :> {"execute-coding-task", "validate-note", "show-tool-output", "search-context"}
  @@ second :> {"list-context-tree"}

-----------------------------------------------------------------------------
(* Two tokens and a registry of one or two actors, in a few states.        *)
Entitled(id, role, source) ==
  [id |-> id, role |-> role, source |-> source, enabled |-> TRUE, transports |-> Absent,
   commands |-> Absent, adminActions |-> Absent, from |-> Absent, until |-> Absent,
   creds |-> <<>>]

SomeClaims ==
  "a" :> [id |-> alice, role |-> "operator", source |-> Absent, transports |-> {"http"},
          commands |-> Absent, adminActions |-> {"view_freshness_status"},
          from |-> 1, until |-> 2]
  @@ "b" :> [id |-> bruno, role |-> "writer", source |-> desk, transports |-> Absent,
             commands |-> {"draft_note", "search_context"}, adminActions |-> Absent,
             from |-> Absent, until |-> Absent]

Alice == [Entitled(alice, "operator", Absent) EXCEPT
            !.creds = <<[token |-> badge, from |-> 2, until |-> Absent],
                        [token |-> badge, from |-> Absent, until |-> 1]>>]
Once == [Alice EXCEPT !.creds = <<[token |-> badge, from |-> 2, until |-> 2]>>, !.until = 2]
Bruno == Entitled(bruno, "writer", Absent)
Registries ==
  {<<>>, <<Alice, Bruno>>, <<Once, [Bruno EXCEPT !.source = lab]>>,
   <<[Once EXCEPT !.enabled = FALSE], [Bruno EXCEPT !.commands = {"draft_note"}]>>,
   <<[Bruno EXCEPT !.source = desk, !.creds = <<[token |-> spare, from |-> 1, until |-> Absent]>>],
     [Once EXCEPT !.transports = {"http"}, !.role = "system"]>>}

SomePolicies ==
  [enforced : BOOLEAN, anonymousInternal : BOOLEAN, registry : Registries,
   issuer : {TRUE}, requireMatch : BOOLEAN]

SomeActors ==
  [id : {alice, bruno}, role : {"operator", "writer"}, source : {desk, lab},
   transport : {"http", "internal"}, token : {"a", "b", badge, spare}]

SomeScopes ==
  {[command |-> "draft_note", adminAction |-> Absent],
   [command |-> "search_context", adminAction |-> Absent],
   [command |-> Absent, adminAction |-> "view_freshness_status"],
   [command |-> Absent, adminAction |-> "issue_auth_token"]}

Symmetric == Permutations({r1, r2, r3}) \cup Permutations({api, cli})

-----------------------------------------------------------------------------
(* A profile that passes every check, and those with one thing different.  *)
Sound ==
  [complete |-> TRUE, validateOnly |-> FALSE, enforced |-> TRUE, dockerRoles |-> TRUE,
   anonymousInternal |-> "false", disableFallbacks |-> "true", softFail |-> "false",
   actor |-> [id |-> alice, role |-> "operator", token |-> badge, source |-> Absent],
   canonical |-> <<"vault">>, staging |-> <<"drafts">>, state |-> <<"state">>,
   config |-> <<"config">>, pythonPath |-> <<"runtimes">>, absolute |-> TRUE, files |-> TRUE,
   existing |-> {<<>>, <<"vault">>, <<"drafts">>, <<"state">>, <<"config">>, <<"runtimes">>,
                 <<"vault", "drafts">>},
   mounts |-> {<<>>, <<"vault">>, <<"drafts">>, <<"state">>, <<"config">>},
   qdrant |-> "collection", python |-> TRUE,
   endpoints |-> <<{}, {"coder", "brain"}, {"coder"}>>, models |-> {"coder", "brain"}]

SomeProfiles ==
  {Sound,
   [Sound EXCEPT !.complete = FALSE],
   [Sound EXCEPT !.validateOnly = TRUE],
   [Sound EXCEPT !.enforced = FALSE],
   [Sound EXCEPT !.anonymousInternal = "other"],
   [Sound EXCEPT !.actor.source = desk],
   [Sound EXCEPT !.actor.token = spare],
   [Sound EXCEPT !.actor = [id |-> bruno, role |-> "writer", token |-> badge, source |-> lab]],
   [Sound EXCEPT !.staging = <<"vault", "drafts">>],
   [Sound EXCEPT !.canonical = <<>>],
   [Sound EXCEPT !.staging = <<"vault">>],
   [Sound EXCEPT !.mounts = {<<>>, <<"vault">>}],
   [Sound EXCEPT !.qdrant = "no_collection"],
   [Sound EXCEPT !.qdrant = "down", !.python = FALSE],
   [Sound EXCEPT !.endpoints = <<{}, {}, {}>>],
   [Sound EXCEPT !.endpoints = <<{"coder"}, {"coder", "brain"}, {}>>]}

SomeRegistryTexts ==
  Registries \cup
  {Absent, <<Alice, [Bruno EXCEPT !.creds = <<[token |-> spare, from |-> 1, until |-> Absent]>>]>>}

-----------------------------------------------------------------------------
(* Two notes, and what may be asked of them; archives.                     *)
SomeNotes ==
  note :> [chunks |-> 3, scope |-> "here", class |-> "current", freshness |-> "expired", boost |-> 2200]
  @@ other :> [chunks |-> 1, scope |-> "there", class |-> "stale", freshness |-> "fresh",
               boost |-> 1400]

SomeHits ==
  {<<>>, <<<<note, 2>>>>, <<<<note, 2>>, <<other, 1>>>>, <<<<other, 1>>, <<note, 3>>>>,
   <<<<note, 3>>, <<note, 1>>, <<other, 1>>>>}

SomeQuestions ==
  [lexical : SomeHits, vector : SomeHits \ {<<<<note, 2>>>>, <<<<note, 2>>, <<other, 1>>>>},
   similarity : {4000},
   hierarchical : BOOLEAN, excerpts : {FALSE}, model : {FALSE}, maxTokens : {20, 70, 140},
   maxSources : {1, 2}, maxRawExcerpts : {1}, maxSummarySentences : {2}]
  \cup
  [lexical : {<<<<note, 2>>, <<other, 1>>>>}, vector : {<<>>}, similarity : {4000},
   hierarchical : {FALSE}, excerpts : {FALSE}, model : {TRUE}, maxTokens : {5, 70, 140, 200},
   maxSources : {2}, maxRawExcerpts : {1}, maxSummarySentences : {2}]

SomeSizes ==
  [prefix |-> 23, sentence |-> 100, nothing |-> 44, qualifier |-> 40, uncertainty |-> 83,
   source |-> 60, excerpt |-> 320]

SomeArchives == {<<>>, <<40>>, <<40, 400>>, <<40, 0>>}

SomeRecalls ==
  [session : {"all", "s1"}, limit : {0, 2}, maxTokens : {-1, 30}, total : {-1, 1, 150},
   archives : BOOLEAN]

-----------------------------------------------------------------------------
accessVars == <<part, requestVars, tokenVars, sessionVars, packetVars, agentVars>>

AccessInit ==
  /\ part \in {"requests", "tokens", "session", "packets", "agent"}
  /\ RequestInit /\ TokenInit /\ SessionInit /\ PacketInit /\ AgentInit
  /\ part # "session" => profile = Sound /\ registryText = Absent
  /\ part # "packets" => question = CHOOSE q \in Questions : TRUE

AccessNext ==
  /\ \/ /\ part = "requests" /\ RequestNext
        /\ UNCHANGED <<tokenVars, sessionVars, packetVars, agentVars>>
     \/ /\ part = "tokens" /\ TokenNext
        /\ UNCHANGED <<requestVars, sessionVars, packetVars, agentVars>>
     \/ /\ part = "session" /\ SessionNext
        /\ UNCHANGED <<requestVars, tokenVars, packetVars, agentVars>>
     \/ /\ part = "packets" /\ PacketNext
        /\ UNCHANGED <<requestVars, tokenVars, sessionVars, agentVars>>
     \/ /\ part = "agent" /\ AgentNext
        /\ UNCHANGED <<requestVars, tokenVars, sessionVars, packetVars>>
  /\ UNCHANGED part

AccessSpec == AccessInit /\ [][AccessNext]_accessVars

\* The variables of the modules keep to their types.
AccessTypeOK == RequestTypeOK /\ TokenTypeOK /\ SessionTypeOK /\ PacketTypeOK /\ AgentTypeOK
=============================================================================
