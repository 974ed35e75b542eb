---------------------------- MODULE IssuedTokens ----------------------------
(***************************************************************************)
(* Issued tokens: the API servers and the commands of the CLI that issue   *)
(* and revoke them, the file of revoked ids they share                     *)
(* (FileIssuedTokenRevocationStore), the ids each keeps in its             *)
(* ActorAuthorizationPolicy, and the ledger (SqliteIssuedTokenStore).      *)
(*                                                                         *)
(* A revocation reads the whole file, adds an id, and writes the file      *)
(* whole: it truncates it and fills it, with no lock, so revocations of    *)
(* one process or of several overlap.  An action is what a process does    *)
(* between two awaits.  The second store of revoked ids, token_revocations *)
(* in SQLite, is left out: nothing in the applications writes to it.       *)
(***************************************************************************)
EXTENDS ActorPolicy

CONSTANTS
  Processes,       \* API servers, and commands of the CLI
  Revocations,     \* requests to revoke a token
  EnvironmentIds,  \* ids revoked in the environment of every process
  Policies,        \* what registries and modes may say, and what
  Actors, Scopes, Instants,  \* actors may ask, and when
  MaxTokenFaults   \* bound: crashes and failed writes

Tokens == DOMAIN Claims

ASSUME TokenAssumption ==
  EnvironmentIds \subseteq Tokens /\ MaxTokenFaults \in Nat

\* A registry is a map from identities, each with a list of credentials.
ASSUME RegistryAssumption ==
  \A p \in Policies : \A i \in DOMAIN p.registry :
    /\ DOMAIN p.registry[i].creds \subseteq Nat
    /\ \A j \in DOMAIN p.registry : p.registry[i].id = p.registry[j].id => i = j

VARIABLES
  process,     \* each process, and the ids its policy knows to be revoked
  revocation,  \* each request to revoke
  idsFile,     \* the file at issuedTokenRevocationPath
  ledger,      \* the row of each token
  owed,        \* history: the tokens a process has to refuse
  tokenFaults

tokenVars == <<process, revocation, idsFile, ledger, owed, tokenFaults>>

-----------------------------------------------------------------------------
Process == [up : BOOLEAN, revoked : SUBSET Tokens]
Revocation ==
  [pc : {"idle", "load", "open", "write", "written", "answered", "failed", "lost"},
   by : Processes \cup {Absent}, token : Tokens \cup {Absent},
   ids : SUBSET Tokens,  \* those of the policy, then those of the store
   lapped : BOOLEAN]     \* history: another revocation was under way
IdsFile == [text : {"missing", "empty", "ids", "debris"}, ids : SUBSET Tokens]

TokenTypeOK ==
  /\ process \in [Processes -> Process]
  /\ revocation \in [Revocations -> Revocation]
  /\ idsFile \in IdsFile
  /\ ledger \in [Tokens -> {"none", "recorded", "revoked"}]
  /\ owed \in [Processes -> SUBSET Tokens]
  /\ tokenFaults \in 0 .. MaxTokenFaults

TokenInit ==
  /\ process = [p \in Processes |-> [up |-> FALSE, revoked |-> {}]]
  /\ revocation = [r \in Revocations |->
       [pc |-> "idle", by |-> Absent, token |-> Absent, ids |-> {}, lapped |-> FALSE]]
  /\ idsFile = [text |-> "missing", ids |-> {}]
  /\ ledger = [t \in Tokens |-> "none"]
  /\ owed = [p \in Processes |-> {}]
  /\ tokenFaults = 0

Running == {r \in Revocations : revocation[r].pc \in {"load", "open", "write", "written"}}

\* Revocations answered with success that overlapped no other.
Settled == {r \in Revocations : revocation[r].pc = "answered" /\ ~revocation[r].lapped}

At(r, pc) == revocation' = [revocation EXCEPT ![r].pc = pc]

-----------------------------------------------------------------------------
\* loadEnvironment reads the file, and throws when it does not parse.
StartProcess(p) ==
  /\ ~process[p].up /\ idsFile.text \in {"missing", "ids"}
  /\ process' = [process EXCEPT ![p] =
                   [up |-> TRUE, revoked |-> idsFile.ids \cup EnvironmentIds]]
  /\ owed' = [owed EXCEPT ![p] = EnvironmentIds \cup {revocation[r].token : r \in Settled}]
  /\ UNCHANGED <<revocation, idsFile, ledger, tokenFaults>>

\* A process ends, by itself or not; what it was doing is lost.
StopProcess(p) ==
  /\ process[p].up /\ tokenFaults < MaxTokenFaults
  /\ tokenFaults' = tokenFaults + 1
  /\ process' = [process EXCEPT ![p] = [up |-> FALSE, revoked |-> {}]]
  /\ owed' = [owed EXCEPT ![p] = {}]
  /\ revocation' = [r \in Revocations |->
       IF r \in Running /\ revocation[r].by = p
       THEN [revocation[r] EXCEPT !.pc = "lost"] ELSE revocation[r]]
  /\ UNCHANGED <<idsFile, ledger>>

\* issue-token: the id is new, and the token is recorded before it is handed out.
IssueToken(p, t) ==
  /\ process[p].up /\ ledger[t] = "none"
  /\ \A r \in Revocations : revocation[r].token # t
  /\ ledger' = [ledger EXCEPT ![t] = "recorded"]
  /\ UNCHANGED <<process, revocation, idsFile, owed, tokenFaults>>

\* revoke-token: the ids of the policy are read before the file is.
RequestRevocation(r, p, t) ==
  /\ revocation[r].pc = "idle" /\ process[p].up
  /\ revocation' = [s \in Revocations |->
       IF s = r THEN [pc |-> "load", by |-> p, token |-> t, ids |-> process[p].revoked,
                      lapped |-> Running # {}]
       ELSE IF s \in Running THEN [revocation[s] EXCEPT !.lapped = TRUE]
       ELSE revocation[s]]
  /\ UNCHANGED <<process, idsFile, ledger, owed, tokenFaults>>

\* Mutant: the store starts from the ids of the policy alone.
LoadIds_Policy(r) ==
  /\ revocation[r].pc = "load"
  /\ IF idsFile.text \in {"missing", "ids"}
     THEN revocation' = [revocation EXCEPT ![r].pc = "open",
                                           ![r].ids = @ \cup {revocation[r].token}]
     ELSE At(r, "failed")
  /\ UNCHANGED <<process, idsFile, ledger, owed, tokenFaults>>

\* FileIssuedTokenRevocationStore.create, then revokeTokenId up to its write.
LoadIds(r) ==
  /\ revocation[r].pc = "load"
  /\ IF idsFile.text \in {"missing", "ids"}
     THEN revocation' = [revocation EXCEPT
            ![r].pc = "open", ![r].ids = @ \cup idsFile.ids \cup {revocation[r].token}]
     ELSE At(r, "failed")
  /\ UNCHANGED <<process, idsFile, ledger, owed, tokenFaults>>

\* writeFile opens the file, which empties it, ...
TruncateIds(r) ==
  /\ revocation[r].pc = "open"
  /\ idsFile' = [text |-> "empty", ids |-> {}]
  /\ At(r, "write")
  /\ UNCHANGED <<process, ledger, owed, tokenFaults>>

\* ... and writes from its start: the tail of a longer text, written since by
\* another, stays behind.
WriteIds(r) ==
  /\ revocation[r].pc = "write"
  /\ \/ idsFile' = [text |-> "ids", ids |-> revocation[r].ids]
     \/ /\ idsFile.text = "debris" \/ ~(idsFile.ids \subseteq revocation[r].ids)
        /\ idsFile' = [text |-> "debris", ids |-> {}]
  /\ At(r, "written")
  /\ UNCHANGED <<process, ledger, owed, tokenFaults>>

\* The file can be made or opened no more, or filled in part: revokeTokenId throws.
WriteFails(r) ==
  /\ revocation[r].pc \in {"open", "write"} /\ tokenFaults < MaxTokenFaults
  /\ tokenFaults' = tokenFaults + 1
  /\ \/ UNCHANGED idsFile
     \/ revocation[r].pc = "write" /\ idsFile' = [text |-> "debris", ids |-> {}]
  /\ At(r, "failed")
  /\ UNCHANGED <<process, ledger, owed>>

\* Mutant: the ledger is told, the policy of the process is not.
AnswerRevocation_LedgerOnly(r) ==
  /\ revocation[r].pc = "written"
  /\ LET t == revocation[r].token
         p == revocation[r].by IN
       /\ UNCHANGED process
       /\ owed' = [owed EXCEPT ![p] = @ \cup {t}]
       /\ ledger' = [ledger EXCEPT ![t] = IF @ = "none" THEN @ ELSE "revoked"]
  /\ At(r, "answered")
  /\ UNCHANGED <<idsFile, tokenFaults>>

\* The policy, the ledger if it has the token, and the answer.
AnswerRevocation(r) ==
  /\ revocation[r].pc = "written"
  /\ LET t == revocation[r].token
         p == revocation[r].by IN
       /\ process' = [process EXCEPT ![p].revoked = @ \cup {t}]
       /\ owed' = [owed EXCEPT ![p] = @ \cup {t}]
       /\ ledger' = [ledger EXCEPT ![t] = IF @ = "none" THEN @ ELSE "revoked"]
  /\ At(r, "answered")
  /\ UNCHANGED <<idsFile, tokenFaults>>

TokenNext ==
  \/ \E p \in Processes :
       StartProcess(p) \/ StopProcess(p) \/ \E t \in Tokens : IssueToken(p, t)
  \/ \E r \in Revocations :
       \/ \E p \in Processes, t \in Tokens : RequestRevocation(r, p, t)
       \/ LoadIds(r) \/ TruncateIds(r) \/ WriteIds(r) \/ WriteFails(r)
       \/ AnswerRevocation(r)

TokenSpec == TokenInit /\ [][TokenNext]_tokenVars

-----------------------------------------------------------------------------
\* A revocation answered with success that overlapped no other is never undone:
\* the file lists it whenever the file can be read, whatever revocations overlap
\* later, fail or are cut short; and the ledger agrees.
RevocationIsDurable ==
  \A r \in Revocations : revocation[r].pc = "answered" =>
    /\ ledger[revocation[r].token] # "recorded"
    /\ ~revocation[r].lapped /\ idsFile.text = "ids" => revocation[r].token \in idsFile.ids

Refuses(t, revoked) ==
  \A p \in Policies, a \in Actors, s \in Scopes, now \in Instants :
    a.token = t => ~ByIssuedToken(p, revoked, a, s, now)

\* A constant, which TLC evaluates once.
Refusals == {<<t, revoked, Refuses(t, revoked)>> : t \in Tokens, revoked \in SUBSET Tokens}

\* A process refuses every token it has answered to be revoked, those of its
\* environment, and those another process had answered before it started.
RevokedIsRefused ==
  \A p \in Processes : \A t \in owed[p] : <<t, process[p].revoked, TRUE>> \in Refusals

\* Whether inspection and authorization agree on one request: on an issued token,
\* when the actor is the one it names; on a configured one, when it is configured
\* once; and either way, for requests the role and the entry of the actor admit, of
\* an actor who says who it is.
Agree(p, revoked, a, s, now) ==
  LET expected == [transport |-> a.transport, command |-> s.command,
                   adminAction |-> s.adminAction]
      inspected == Inspection(p, revoked, a.token, expected, now)
      admitted == /\ Absent \notin {a.id, a.source} /\ RoleAllowed(a.role, s)
                  /\ Registered(p, a.id) => EntryAdmits(Entry(p, a.id), a, s, now)
      configured == Configured(p, a.token)
      named == /\ a.token \in Tokens
               /\ Claims[a.token].id = a.id /\ Claims[a.token].role = a.role
               /\ Claims[a.token].source \in {Absent, a.source} IN
  /\ admitted /\ configured = {} /\ ByIssuedToken(p, revoked, a, s, now)
       => inspected = [kind |-> "issued", valid |-> TRUE]
  /\ admitted /\ configured = {} /\ named /\ inspected.valid
       => Verdict(p, revoked, a, s, now) = "authorized"
  /\ \A m \in configured :
       configured = {m} /\ admitted /\ p.registry[m[1]].id = a.id =>
         (ByCredential(p.registry[m[1]], a, now) <=> inspected.valid)

AlwaysAgree(revoked) ==
  \A p \in Policies, a \in Actors, s \in Scopes, now \in Instants : Agree(p, revoked, a, s, now)
Agreements == {<<revoked, AlwaysAgree(revoked)>> : revoked \in SUBSET Tokens}

\* What a server says of a token is what it does with it: inspectToken and
\* authorizeOperation reach the same verdict in every state of the revoked ids.
VerdictsAgree == \A p \in Processes : <<process[p].revoked, TRUE>> \in Agreements
=============================================================================
