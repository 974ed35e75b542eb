------------------------- MODULE SessionStartupProofs --------------------------
(***************************************************************************)
(* Theorems about SessionStartup, for any profiles, registries and scopes: *)
(* types, and what follows from a session having been let in.              *)
(***************************************************************************)
EXTENDS SessionStartup, SequenceTheorems, TLAPS

\* A check that was run and did not fail held, for the registry it read if it is
\* that of the default actor.
ChecksHeld ==
  /\ session.next > 1 /\ "required_explicit_env" \notin session.failed => profile.complete
  /\ session.next > 3 /\ "storage_layout" \notin session.failed => LayoutHolds
  /\ session.next > 4 /\ "storage_mounts" \notin session.failed =>
       \A p \in Directories : IsMounted(p)
  /\ session.next > 5 /\ "session_actor_binding" \notin session.failed =>
       BindingHolds(session.checked)

\* The list ends early only when a check failed, and a server runs when none did.
AllChecked ==
  /\ session.pc = "check" => session.next <= Len(Checks)
  /\ session.pc # "check" /\ session.failed = {} => session.next = Len(Checks) + 1
  /\ session.pc \in {"launched", "serving"} => session.failed = {} /\ ~profile.validateOnly

SessionInv == SessionTypeOK /\ ChecksHeld /\ AllChecked

-----------------------------------------------------------------------------
LEMMA ChecksAreNamed ==
  /\ Len(Checks) = 8 /\ \A i \in 1 .. 8 : Checks[i] \in ToSet(Checks)
  /\ Checks[1] = "required_explicit_env" /\ Checks[3] = "storage_layout"
  /\ Checks[4] = "storage_mounts" /\ Checks[5] = "session_actor_binding"
  /\ \A i \in 1 .. 8 \ {5} : Checks[i] # "session_actor_binding"
BY DEF Checks, ToSet

LEMMA NamedChecks ==
  /\ Passes("required_explicit_env") <=> profile.complete
  /\ Passes("storage_layout") <=> LayoutHolds
  /\ Passes("storage_mounts") <=> \A p \in Directories : IsMounted(p)
  /\ Passes("session_actor_binding") <=> BindingHolds(registryText)
BY DEF Passes

\* Nothing changes what a check has found.
LEMMA FindingsStay ==
  ASSUME UNCHANGED profile
  PROVE  /\ profile.complete' = profile.complete /\ LayoutHolds' = LayoutHolds
         /\ (\A p \in Directories : IsMounted(p))' = \A p \in Directories : IsMounted(p)
         /\ \A text : BindingHolds(text)' = BindingHolds(text)
BY DEF LayoutHolds, Directories, Overlap, IsMounted, BindingHolds

LEMMA SessionInvInit == SessionInit => SessionInv
<1> SUFFICES ASSUME SessionInit PROVE SessionInv
  OBVIOUS
<1>1. SessionTypeOK
  BY SessionAssumption, ChecksAreNamed DEF SessionInit, SessionTypeOK, Session
<1> QED
  BY <1>1, ChecksAreNamed DEF SessionInit, SessionInv, ChecksHeld, AllChecked

LEMMA RunCheckKeepsInv ==
  ASSUME SessionInv, RunCheck
  PROVE  SessionInv'
<1> USE DEF SessionInv
<1> DEFINE check == Checks[session.next]
           ends == \/ session.next = Len(Checks)
                   \/ check = "required_explicit_env" /\ ~Passes(check)
           pc == IF ends THEN "report" ELSE "check"
           failed == IF Passes(check) THEN session.failed ELSE session.failed \cup {check}
           checked == IF check = "session_actor_binding" THEN registryText ELSE session.checked
           new == [session EXCEPT !.pc = pc, !.next = @ + 1, !.failed = failed,
                                  !.checked = checked]
<1>1. /\ session.pc = "check" /\ session' = new
      /\ UNCHANGED <<profile, registryText, edits>>
  BY DEF RunCheck
<1>2. session.next \in 1 .. 8 /\ check \in ToSet(Checks) /\ session \in Session
  BY <1>1, ChecksAreNamed DEF AllChecked, SessionTypeOK, Session
<1>3. /\ new \in Session /\ new.pc = pc /\ new.next = session.next + 1
      /\ new.failed = failed /\ new.checked = checked
  <2>1. pc \in {"report", "check"}
    OBVIOUS
  <2>2. failed \in SUBSET ToSet(Checks) /\ checked \in RegistryTexts
    BY <1>2 DEF Session, SessionTypeOK
  <2>3. session.next + 1 \in 1 .. Len(Checks) + 1
    BY <1>2, ChecksAreNamed
  <2> HIDE DEF pc, failed, checked
  <2> QED
    BY <1>2, <2>1, <2>2, <2>3 DEF Session
<1> HIDE DEF new
<1>4. SessionTypeOK'
  BY <1>1, <1>3 DEF SessionTypeOK
<1>5. ChecksHeld'
  BY <1>1, <1>2, <1>3, FindingsStay, NamedChecks, ChecksAreNamed DEF ChecksHeld
<1>6. AllChecked'
  BY <1>1, <1>2, <1>3, ChecksAreNamed DEF AllChecked
<1> QED
  BY <1>4, <1>5, <1>6

\* A step that runs no check.
LEMMA OthersKeepInv ==
  ASSUME SessionInv, NEW pc \in {"check", "report", "launched", "serving", "ended"},
         NEW text \in RegistryTexts,
         session' = [session EXCEPT !.pc = pc, !.registry = text], UNCHANGED profile,
         registryText' \in RegistryTexts, edits' \in 0 .. MaxEdits,
         pc = "check" <=> session.pc = "check",
         pc \in {"launched", "serving"} =>
           \/ session.pc \in {"launched", "serving"}
           \/ session.failed = {} /\ ~profile.validateOnly
  PROVE  SessionInv'
<1> USE DEF SessionInv
<1>1. /\ session' \in Session /\ session'.pc = pc /\ session'.next = session.next
      /\ session'.failed = session.failed /\ session'.checked = session.checked
  BY DEF SessionTypeOK, Session
<1>2. SessionTypeOK'
  BY <1>1 DEF SessionTypeOK
<1>3. ChecksHeld'
  BY <1>1, FindingsStay DEF ChecksHeld
<1>4. AllChecked'
  BY <1>1 DEF AllChecked
<1> QED
  BY <1>2, <1>3, <1>4

LEMMA SessionInvNext == SessionInv /\ [SessionNext]_sessionVars => SessionInv'
<1> SUFFICES ASSUME SessionInv, [SessionNext]_sessionVars PROVE SessionInv'
  OBVIOUS
<1> USE DEF SessionInv
<1>1. /\ session \in Session /\ session.registry \in RegistryTexts
      /\ session = [session EXCEPT !.pc = session.pc, !.registry = session.registry]
      /\ session.pc \in {"check", "report", "launched", "serving", "ended"}
      /\ \A pc : [session EXCEPT !.pc = pc] =
                   [session EXCEPT !.pc = pc, !.registry = session.registry]
  BY DEF SessionTypeOK, Session
<1>2. registryText \in RegistryTexts /\ edits \in 0 .. MaxEdits
  BY DEF SessionTypeOK
<1>3. CASE Launch
  BY <1>1, <1>2, <1>3, OthersKeepInv DEF Launch
<1>4. CASE LoadRegistry
  BY <1>1, <1>2, <1>4, OthersKeepInv DEF LoadRegistry
<1>5. CASE EndSession
  BY <1>1, <1>2, <1>5, OthersKeepInv DEF EndSession
<1>6. ASSUME NEW text \in RegistryTexts, EditRegistry(text) PROVE SessionInv'
  <2>1. edits' \in 0 .. MaxEdits
    BY <1>2, <1>6, SessionAssumption DEF EditRegistry
  <2> QED
    BY <1>1, <1>6, <2>1, OthersKeepInv DEF EditRegistry
<1>7. CASE UNCHANGED sessionVars
  BY <1>1, <1>2, <1>7, OthersKeepInv DEF sessionVars
<1> QED
  BY <1>3, <1>4, <1>5, <1>6, <1>7, RunCheckKeepsInv DEF SessionNext

LEMMA SessionInvAlways == SessionSpec => []SessionInv
BY SessionInvInit, SessionInvNext, PTL DEF SessionSpec

\* Of a session that serves, every check held.
LEMMA AdmittedOnChecks ==
  ASSUME SessionInv, session.pc = "serving"
  PROVE  /\ session.failed = {} /\ ~profile.validateOnly /\ profile.complete /\ LayoutHolds
         /\ \A p \in Directories : IsMounted(p)
         /\ BindingHolds(session.checked)
BY ChecksAreNamed DEF SessionInv, AllChecked, ChecksHeld

-----------------------------------------------------------------------------
\* A session keeps to its types, through every check, refusal, start and edit.
THEOREM SessionTypeCorrect == SessionSpec => []SessionTypeOK
<1>1. SessionInv => SessionTypeOK
  BY DEF SessionInv
<1> QED
  BY <1>1, SessionInvAlways, PTL

\* A path below a mount point other than the root is not the root.
LEMMA MountedIsNotRoot ==
  ASSUME profile \in Profiles, NEW p, IsMounted(p)
  PROVE  p # <<>>
<1>1. PICK m \in profile.mounts : m # <<>> /\ IsPrefix(m, p)
  BY DEF IsMounted
<1>2. m \in Seq(STRING) /\ Len(m) <= Len(p)
  BY <1>1, SessionAssumption DEF IsPrefix
<1>3. Len(m) \in Nat /\ Len(m) # 0
  BY <1>1, <1>2, EmptySeq
<1>4. p = <<>> => Len(p) = 0
  OBVIOUS
<1> QED
  BY <1>2, <1>3, <1>4

\* The four directories of a session that serves are apart, whatever its profile:
\* the check of the mounts makes up for the root that the check of the layout misses.
THEOREM DirectoriesStayApart == SessionSpec => []DirectoriesAreApart
<1>1. SessionInv => DirectoriesAreApart
  <2> SUFFICES ASSUME SessionInv, session.pc = "serving"
               PROVE  /\ Cardinality(Directories) = 4
                      /\ \A p, q \in Directories : p # q => AreApart(p, q)
    BY DEF DirectoriesAreApart
  <2>1. LayoutHolds /\ \A p \in Directories : IsMounted(p)
    BY AdmittedOnChecks
  <2>2. ASSUME NEW p \in Directories, NEW q \in Directories, p # q
        PROVE  AreApart(p, q)
    <3>1. p # <<>> /\ q # <<>>
      BY <2>1, MountedIsNotRoot DEF SessionInv, SessionTypeOK
    <3> QED
      BY <2>1, <2>2, <3>1 DEF LayoutHolds, Overlap, AreApart
  <2> QED
    BY <2>1, <2>2 DEF LayoutHolds
<1> QED
  BY <1>1, SessionInvAlways, PTL

\* The entry of a registry with the identity of the default actor is the one that
\* the check of the binding found.
LEMMA EntryIsBound ==
  ASSUME NEW text \in RegistryTexts, BindingHolds(text), session.registry = text
  PROVE  LET e == Entry(SessionPolicy, profile.actor.id) IN
         /\ Registered(SessionPolicy, profile.actor.id)
         /\ e.role = profile.actor.role /\ profile.actor.token \in Credentials(e)
<1>1. PICK i \in DOMAIN text :
        /\ text[i].id = profile.actor.id /\ text[i].role = profile.actor.role
        /\ profile.actor.token \in Credentials(text[i])
  BY DEF BindingHolds
<1>2. text # Absent
  BY DEF BindingHolds
<1>3. SessionPolicy.registry = text
  BY DEF SessionPolicy
<1>4. Entries(SessionPolicy) = {text[j] : j \in DOMAIN text}
  BY <1>3 DEF Entries
<1>5. \A e \in Entries(SessionPolicy) : e.id = profile.actor.id => e = text[i]
  BY <1>1, <1>2, <1>4, SessionAssumption
<1>6. text[i] \in Entries(SessionPolicy)
  BY <1>4
<1>7. Entry(SessionPolicy, profile.actor.id) = text[i]
  BY <1>1, <1>5, <1>6 DEF Entry
<1> QED
  BY <1>1, <1>6, <1>7 DEF Registered

\* Whoever may start a session may do in it what the role of its default actor allows,
\* unless the entry of that actor limits it, and nothing else.
THEOREM ChecksPredictVerdicts == SessionSpec => []StartupPredictsVerdict
<1>1. SessionInv => StartupPredictsVerdict
  <2> SUFFICES ASSUME SessionInv, session.pc = "serving", session.registry = session.checked,
                      NEW scope \in SessionScopes, NEW now \in Moments
               PROVE  LET verdict == Verdict(SessionPolicy, {}, SessionActor, scope, now) IN
                      /\ Registered(SessionPolicy, profile.actor.id)
                      /\ verdict = "authorized" => RoleAllowed(profile.actor.role, scope)
                      /\ Unlimited(Entry(SessionPolicy, profile.actor.id), now) =>
                           (RoleAllowed(profile.actor.role, scope) => verdict = "authorized")
    BY AdmittedOnChecks DEF StartupPredictsVerdict
  <2> DEFINE e == Entry(SessionPolicy, profile.actor.id)
             verdict == Verdict(SessionPolicy, {}, SessionActor, scope, now)
  <2>1. /\ Registered(SessionPolicy, profile.actor.id)
        /\ e.role = profile.actor.role /\ profile.actor.token \in Credentials(e)
    BY AdmittedOnChecks, EntryIsBound DEF SessionInv, SessionTypeOK, Session
  <2>2. /\ SessionActor.id = profile.actor.id /\ SessionActor.role = profile.actor.role
        /\ SessionActor.token = profile.actor.token /\ SessionActor.transport = "mcp"
        /\ SessionActor.source # Absent /\ SessionActor.id # Absent
    BY AdmittedOnChecks, SessionAssumption DEF SessionActor, SessionInv, SessionTypeOK
  <2>3. verdict = "authorized" => RoleAllowed(profile.actor.role, scope)
    BY <2>2 DEF Verdict
  <2>4. ASSUME Unlimited(e, now), RoleAllowed(profile.actor.role, scope)
        PROVE  verdict = "authorized"
    <3>1. EntryAdmits(e, SessionActor, scope, now)
      BY <2>1, <2>2, <2>4 DEF Unlimited, EntryAdmits, IsActive, AdmitsScope, Allows
    <3>2. PICK i \in DOMAIN e.creds : e.creds[i].token = profile.actor.token
      BY <2>1 DEF Credentials
    <3>3. e.creds # <<>> /\ ByCredential(e, SessionActor, now)
      BY <2>2, <2>4, <3>2 DEF Unlimited, ByCredential
    <3> HIDE DEF e
    <3> QED
      BY <2>1, <2>2, <2>4, <3>1, <3>3 DEF Verdict, e
  <2> QED
    BY <2>1, <2>3, <2>4
<1> QED
  BY <1>1, SessionInvAlways, PTL
=============================================================================
