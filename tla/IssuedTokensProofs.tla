-------------------------- MODULE IssuedTokensProofs --------------------------
(***************************************************************************)
(* Theorems about IssuedTokens, for any processes, revocations, tokens and *)
(* faults: types, that a revocation that overlapped no other is never      *)
(* undone, and that a process refuses what it has answered to be revoked.  *)
(***************************************************************************)
EXTENDS IssuedTokens, TLAPS

USE DEF Tokens

LEMMA TokenTypeInit == TokenInit => TokenTypeOK
BY TokenAssumption DEF TokenInit, TokenTypeOK, Process, Revocation, IdsFile

\* A revocation that is under way knows who asked for what.
Asked ==
  \A r \in Running : revocation[r].by \in Processes /\ revocation[r].token \in Tokens

\* No revocation but itself has been under way with one that is not lapped.
AloneOrLapped ==
  \A r \in Running : ~revocation[r].lapped => Running = {r}

\* What a revocation is about to write has its own id.
WritesItsOwn ==
  \A r \in Running : revocation[r].pc \in {"open", "write"} =>
    revocation[r].token \in revocation[r].ids

\* Revocations whose id the file keeps, once they have written it: settled ones,
\* and the one that is about to be.
Lone == {r \in Revocations :
           revocation[r].pc \in {"written", "answered"} /\ ~revocation[r].lapped}

\* The file has been made, and lists the ids of these whenever it can be read; ...
FileKeeps ==
  \A r \in Lone : /\ revocation[r].token \in Tokens
                  /\ idsFile.text # "missing"
                  /\ idsFile.text = "ids" => revocation[r].token \in idsFile.ids

\* ... and so does what a revocation that began later is about to write.
WritersKeep ==
  \A r \in Lone, s \in Running : r # s /\ revocation[s].pc \in {"open", "write"} =>
    revocation[r].token \in revocation[s].ids

LedgerKnows ==
  \A r \in Revocations : revocation[r].pc = "answered" => ledger[revocation[r].token] # "recorded"

\* A process knows what it has to refuse.
Informed == \A p \in Processes : owed[p] \subseteq process[p].revoked

TokenInv ==
  /\ TokenTypeOK /\ Asked /\ AloneOrLapped /\ WritesItsOwn /\ FileKeeps /\ WritersKeep
  /\ LedgerKnows /\ Informed

LEMMA TokenInvInit == TokenInit => TokenInv
BY TokenTypeInit
   DEF TokenInit, TokenInv, Asked, AloneOrLapped, WritesItsOwn, Lone, FileKeeps, WritersKeep,
       LedgerKnows, Informed, Running

-----------------------------------------------------------------------------
\* What the actions do to the revocations, read entry by entry.
LEMMA MovesTo ==
  ASSUME TokenTypeOK, NEW r \in Revocations, NEW pc, At(r, pc),
         pc \in {"open", "write", "written", "answered", "failed"}
  PROVE  /\ revocation' \in [Revocations -> Revocation]
         /\ revocation'[r] = [revocation[r] EXCEPT !.pc = pc]
         /\ \A s \in Revocations \ {r} : revocation'[s] = revocation[s]
<1>1. revocation \in [Revocations -> Revocation]
  BY DEF TokenTypeOK
<1>2. [revocation[r] EXCEPT !.pc = pc] \in Revocation
  BY <1>1 DEF Revocation
<1> QED
  BY <1>1, <1>2 DEF At

LEMMA StopMoves ==
  ASSUME TokenTypeOK, NEW p \in Processes, StopProcess(p)
  PROVE  /\ revocation' \in [Revocations -> Revocation]
         /\ \A r \in Revocations :
              \/ revocation'[r] = revocation[r]
              \/ /\ r \in Running
                 /\ revocation'[r] = [revocation[r] EXCEPT !.pc = "lost"]
<1> DEFINE f(r) == IF r \in Running /\ revocation[r].by = p
                   THEN [revocation[r] EXCEPT !.pc = "lost"] ELSE revocation[r]
<1>1. revocation' = [r \in Revocations |-> f(r)]
  BY DEF StopProcess
<1>2. \A r \in Revocations : revocation[r] \in Revocation
  BY DEF TokenTypeOK
<1>3. \A r \in Revocations : f(r) \in Revocation
  BY <1>2 DEF Revocation
<1> HIDE DEF f
<1>4. revocation' \in [Revocations -> Revocation]
  BY <1>1, <1>3
<1> QED
  BY <1>1, <1>4 DEF f

LEMMA RevocationMoves ==
  ASSUME TokenTypeOK, NEW r \in Revocations, NEW p \in Processes, NEW t \in Tokens,
         RequestRevocation(r, p, t)
  PROVE  /\ revocation' \in [Revocations -> Revocation]
         /\ revocation'[r].pc = "load" /\ revocation'[r].by = p /\ revocation'[r].token = t
         /\ revocation'[r].lapped = (Running # {})
         /\ \A s \in Revocations \ {r} :
              revocation'[s] = IF s \in Running THEN [revocation[s] EXCEPT !.lapped = TRUE]
                               ELSE revocation[s]
<1> DEFINE busy == Running # {}
           new == [pc |-> "load", by |-> p, token |-> t, ids |-> process[p].revoked,
                   lapped |-> busy]
           f(s) == IF s = r THEN new
                   ELSE IF s \in Running THEN [revocation[s] EXCEPT !.lapped = TRUE]
                   ELSE revocation[s]
<1>1. revocation' = [s \in Revocations |-> f(s)]
  BY DEF RequestRevocation
<1>2. \A s \in Revocations : revocation[s] \in Revocation
  BY DEF TokenTypeOK
<1>3. process[p].revoked \in SUBSET Tokens
  BY DEF TokenTypeOK, Process
<1>4. busy \in BOOLEAN
  OBVIOUS
<1> HIDE DEF busy
<1>5. new \in Revocation /\ new.pc = "load" /\ new.by = p /\ new.token = t /\ new.lapped = busy
  BY <1>3, <1>4 DEF Revocation
<1> HIDE DEF new
<1>6. \A s \in Revocations : f(s) \in Revocation
  BY <1>2, <1>5 DEF Revocation
<1> HIDE DEF f
<1>7. revocation' \in [Revocations -> Revocation]
  BY <1>1, <1>6
<1>8. revocation'[r] = new
  BY <1>1 DEF f
<1>9. revocation'[r].lapped = busy
  BY <1>5, <1>8
<1>10. \A s \in Revocations \ {r} :
         revocation'[s] = IF s \in Running THEN [revocation[s] EXCEPT !.lapped = TRUE]
                          ELSE revocation[s]
  BY <1>1 DEF f
<1>11. revocation'[r].lapped = (Running # {})
  BY <1>9, Zenon DEF busy
<1> QED
  BY <1>5, <1>7, <1>8, <1>10, <1>11

LEMMA LoadMoves ==
  ASSUME TokenTypeOK, NEW r \in Revocations, LoadIds(r), idsFile.text \in {"missing", "ids"},
         revocation[r].token \in Tokens
  PROVE  /\ revocation' \in [Revocations -> Revocation]
         /\ revocation'[r] = [revocation[r] EXCEPT
              !.pc = "open", !.ids = @ \cup idsFile.ids \cup {revocation[r].token}]
         /\ \A s \in Revocations \ {r} : revocation'[s] = revocation[s]
<1> DEFINE new == [revocation[r] EXCEPT
              !.pc = "open", !.ids = @ \cup idsFile.ids \cup {revocation[r].token}]
<1>1. revocation \in [Revocations -> Revocation] /\ idsFile.ids \in SUBSET Tokens
  BY DEF TokenTypeOK, IdsFile
<1>2. revocation[r].ids \cup idsFile.ids \cup {revocation[r].token} \in SUBSET Tokens
  BY <1>1 DEF Revocation
<1>3. new \in Revocation
  BY <1>1, <1>2 DEF Revocation
<1>4. revocation' = [revocation EXCEPT ![r] = new]
  BY <1>1 DEF LoadIds
<1> HIDE DEF new
<1>5. /\ revocation' \in [Revocations -> Revocation] /\ revocation'[r] = new
      /\ \A s \in Revocations \ {r} : revocation'[s] = revocation[s]
  BY <1>1, <1>3, <1>4
<1> QED
  BY <1>5 DEF new

-----------------------------------------------------------------------------
\* Each action keeps the invariant.
LEMMA StartKeeps ==
  ASSUME TokenInv, NEW p \in Processes, StartProcess(p)
  PROVE  TokenInv'
<1> USE DEF TokenInv
<1>1. revocation' = revocation /\ idsFile' = idsFile /\ ledger' = ledger
  BY DEF StartProcess
<1>2. \A t \in {revocation[r].token : r \in Settled} : t \in Tokens /\ t \in idsFile.ids
  BY DEF StartProcess, FileKeeps, Lone, Settled
<1>3. TokenTypeOK'
  <2>1. [up |-> TRUE, revoked |-> idsFile.ids \cup EnvironmentIds] \in Process
    BY TokenAssumption DEF TokenTypeOK, Process, IdsFile
  <2>2. EnvironmentIds \cup {revocation[r].token : r \in Settled} \in SUBSET Tokens
    BY <1>2, TokenAssumption
  <2> QED
    BY <2>1, <2>2 DEF TokenTypeOK, StartProcess
<1>4. Informed'
  <2>1. process'[p].revoked = idsFile.ids \cup EnvironmentIds
        /\ \A q \in Processes \ {p} : process'[q] = process[q]
    BY DEF StartProcess, TokenTypeOK
  <2>2. owed'[p] = EnvironmentIds \cup {revocation[r].token : r \in Settled}
        /\ \A q \in Processes \ {p} : owed'[q] = owed[q]
    BY DEF StartProcess, TokenTypeOK
  <2> QED
    BY <1>2, <2>1, <2>2 DEF Informed
<1>5. Running' = Running /\ Lone' = Lone
  BY <1>1 DEF Running, Lone
<1> QED
  BY <1>1, <1>3, <1>4, <1>5
     DEF Asked, AloneOrLapped, WritesItsOwn, FileKeeps, WritersKeep, LedgerKnows

LEMMA StopKeeps ==
  ASSUME TokenInv, NEW p \in Processes, StopProcess(p)
  PROVE  TokenInv'
<1> USE DEF TokenInv
<1>1. /\ revocation' \in [Revocations -> Revocation]
      /\ \A r \in Revocations :
           \/ revocation'[r] = revocation[r]
           \/ r \in Running /\ revocation'[r] = [revocation[r] EXCEPT !.pc = "lost"]
  BY StopMoves
<1>2. idsFile' = idsFile /\ ledger' = ledger /\ tokenFaults' \in 0 .. MaxTokenFaults
  BY TokenAssumption DEF StopProcess, TokenTypeOK
<1>3. \A r \in Revocations :
        /\ revocation'[r].pc \in {revocation[r].pc, "lost"}
        /\ revocation'[r].by = revocation[r].by /\ revocation'[r].token = revocation[r].token
        /\ revocation'[r].ids = revocation[r].ids /\ revocation'[r].lapped = revocation[r].lapped
  BY <1>1 DEF TokenTypeOK, Revocation
<1>4. Running' \subseteq Running /\ Lone' \subseteq Lone
  BY <1>3 DEF Running, Lone
<1>5. TokenTypeOK'
  BY <1>1, <1>2 DEF TokenTypeOK, StopProcess, Process
<1>6. Informed'
  BY DEF Informed, StopProcess, TokenTypeOK
<1>7. Asked' /\ AloneOrLapped' /\ WritesItsOwn'
  BY <1>3, <1>4 DEF Asked, AloneOrLapped, WritesItsOwn, Running
<1>8. FileKeeps'
  BY <1>2, <1>3, <1>4 DEF FileKeeps, Lone
<1>9. WritersKeep'
  BY <1>3, <1>4 DEF WritersKeep, Running, Lone
<1>10. LedgerKnows'
  BY <1>2, <1>3 DEF LedgerKnows
<1> QED
  BY <1>5, <1>6, <1>7, <1>8, <1>9, <1>10

LEMMA IssueKeeps ==
  ASSUME TokenInv, NEW p \in Processes, NEW t \in Tokens, IssueToken(p, t)
  PROVE  TokenInv'
<1> USE DEF TokenInv
<1>1. process' = process /\ revocation' = revocation /\ idsFile' = idsFile /\ owed' = owed
  BY DEF IssueToken
<1>2. TokenTypeOK'
  BY DEF TokenTypeOK, IssueToken
<1>3. LedgerKnows'
  BY <1>1 DEF LedgerKnows, IssueToken, TokenTypeOK
<1>4. Running' = Running /\ Lone' = Lone
  BY <1>1 DEF Running, Lone
<1> QED
  BY <1>1, <1>2, <1>3, <1>4
     DEF Asked, AloneOrLapped, WritesItsOwn, FileKeeps, WritersKeep, Informed

LEMMA RequestKeeps ==
  ASSUME TokenInv, NEW r \in Revocations, NEW p \in Processes, NEW t \in Tokens,
         RequestRevocation(r, p, t)
  PROVE  TokenInv'
<1> USE DEF TokenInv
<1>1. /\ revocation' \in [Revocations -> Revocation]
      /\ \A s \in Revocations \ {r} :
           revocation'[s] = IF s \in Running THEN [revocation[s] EXCEPT !.lapped = TRUE]
                            ELSE revocation[s]
  BY RevocationMoves
<1>2. /\ process' = process /\ idsFile' = idsFile /\ ledger' = ledger /\ owed' = owed
      /\ tokenFaults' = tokenFaults /\ revocation[r].pc = "idle"
  BY DEF RequestRevocation
<1>3. /\ revocation'[r].pc = "load" /\ revocation'[r].by = p /\ revocation'[r].token = t
      /\ Running # {} => revocation'[r].lapped
  BY RevocationMoves
<1>4. \A s \in Revocations \ {r} :
        /\ revocation'[s].pc = revocation[s].pc /\ revocation'[s].by = revocation[s].by
        /\ revocation'[s].token = revocation[s].token /\ revocation'[s].ids = revocation[s].ids
        /\ s \in Running => revocation'[s].lapped
        /\ s \notin Running => revocation'[s].lapped = revocation[s].lapped
  BY <1>1 DEF TokenTypeOK, Revocation
<1>5. Running' = Running \cup {r} /\ r \notin Running
  BY <1>2, <1>3, <1>4 DEF Running
<1>6. Lone' \subseteq Lone \ (Running \cup {r})
  BY <1>3, <1>4 DEF Lone
<1>7. TokenTypeOK'
  BY <1>1, <1>2 DEF TokenTypeOK
<1>8. Asked'
  BY <1>3, <1>4, <1>5 DEF Asked, Running
<1>9. AloneOrLapped'
  BY <1>3, <1>4, <1>5 DEF AloneOrLapped, Running
<1>10. WritesItsOwn'
  <2>1. ASSUME NEW s \in Running', revocation'[s].pc \in {"open", "write"}
        PROVE  revocation'[s].token \in revocation'[s].ids
    <3>1. s \in Running /\ s # r
      BY <1>3, <1>5, <2>1
    <3> QED
      BY <1>4, <2>1, <3>1 DEF WritesItsOwn, Running
  <2> QED
    BY <2>1 DEF WritesItsOwn
<1>11. FileKeeps'
  BY <1>2, <1>4, <1>6 DEF FileKeeps, Lone
<1>12. WritersKeep'
  <2>1. ASSUME NEW k \in Lone', NEW s \in Running', k # s, revocation'[s].pc \in {"open", "write"}
        PROVE  revocation'[k].token \in revocation'[s].ids
    <3>1. s \in Running /\ s # r /\ k \in Lone /\ k # r
      BY <1>3, <1>5, <1>6, <2>1
    <3> QED
      BY <1>4, <2>1, <3>1 DEF WritersKeep, Running, Lone
  <2> QED
    BY <2>1 DEF WritersKeep
<1>13. LedgerKnows'
  BY <1>2, <1>3, <1>4 DEF LedgerKnows
<1>14. Informed'
  BY <1>2 DEF Informed
<1> QED
  BY <1>7, <1>8, <1>9, <1>10, <1>11, <1>12, <1>13, <1>14

\* A revocation that moves to a stage of its own disturbs only what is said of it.
LEMMA MovesFields ==
  ASSUME TokenTypeOK, NEW r \in Revocations, NEW pc, At(r, pc),
         pc \in {"open", "write", "written", "answered", "failed"}
  PROVE  /\ revocation' \in [Revocations -> Revocation]
         /\ revocation'[r].pc = pc
         /\ \A s \in Revocations \ {r} : revocation'[s] = revocation[s]
         /\ \A s \in Revocations :
              /\ revocation'[s].by = revocation[s].by /\ revocation'[s].ids = revocation[s].ids
              /\ revocation'[s].token = revocation[s].token
              /\ revocation'[s].lapped = revocation[s].lapped
<1>1. /\ revocation' \in [Revocations -> Revocation]
      /\ revocation'[r] = [revocation[r] EXCEPT !.pc = pc]
      /\ \A s \in Revocations \ {r} : revocation'[s] = revocation[s]
  BY MovesTo
<1>2. /\ revocation'[r].pc = pc
      /\ revocation'[r].by = revocation[r].by /\ revocation'[r].ids = revocation[r].ids
      /\ revocation'[r].token = revocation[r].token
      /\ revocation'[r].lapped = revocation[r].lapped
  BY <1>1 DEF TokenTypeOK, Revocation
<1> QED
  BY <1>1, <1>2

LEMMA LoadKeeps ==
  ASSUME TokenInv, NEW r \in Revocations, LoadIds(r)
  PROVE  TokenInv'
<1> USE DEF TokenInv
<1>1. /\ process' = process /\ idsFile' = idsFile /\ ledger' = ledger /\ owed' = owed
      /\ tokenFaults' = tokenFaults /\ revocation[r].pc = "load"
  BY DEF LoadIds
<1>2. revocation[r].token \in Tokens /\ r \in Running
  BY <1>1 DEF Asked, Running
<1>3. CASE idsFile.text \in {"missing", "ids"}
  <2>1. /\ revocation' \in [Revocations -> Revocation]
        /\ revocation'[r] = [revocation[r] EXCEPT
             !.pc = "open", !.ids = @ \cup idsFile.ids \cup {revocation[r].token}]
        /\ \A s \in Revocations \ {r} : revocation'[s] = revocation[s]
    BY <1>2, <1>3, LoadMoves
  <2>2. /\ revocation'[r].pc = "open" /\ revocation'[r].by = revocation[r].by
        /\ revocation'[r].token = revocation[r].token
        /\ revocation'[r].lapped = revocation[r].lapped
        /\ revocation'[r].ids = revocation[r].ids \cup idsFile.ids \cup {revocation[r].token}
    BY <2>1 DEF TokenTypeOK, Revocation
  <2>3. Running' = Running /\ Lone' = Lone /\ r \notin Lone
    BY <1>1, <2>1, <2>2 DEF Running, Lone
  <2>4. TokenTypeOK'
    BY <1>1, <2>1 DEF TokenTypeOK
  <2>5. Asked' /\ AloneOrLapped' /\ WritesItsOwn'
    BY <2>1, <2>2, <2>3 DEF Asked, AloneOrLapped, WritesItsOwn, Running
  <2>6. FileKeeps'
    BY <1>1, <2>1, <2>3 DEF FileKeeps, Lone
  <2>7. WritersKeep'
    <3>1. ASSUME NEW k \in Lone, NEW s \in Running, k # s, revocation'[s].pc \in {"open", "write"}
          PROVE  revocation'[k].token \in revocation'[s].ids
      <4>1. k \in Revocations \ {r} /\ s \in Revocations
        BY <2>3 DEF Lone, Running
      <4>2. CASE s = r
        BY <1>3, <2>1, <2>2, <4>1, <4>2 DEF FileKeeps
      <4>3. CASE s # r
        BY <2>1, <3>1, <4>1, <4>3 DEF WritersKeep
      <4> QED
        BY <4>2, <4>3
    <3> QED
      BY <2>3, <3>1 DEF WritersKeep
  <2>8. LedgerKnows'
    <3>1. \A s \in Revocations : revocation'[s].pc = "answered" => revocation'[s] = revocation[s]
      BY <2>1, <2>2
    <3> QED
      BY <1>1, <3>1 DEF LedgerKnows
  <2>9. Informed'
    BY <1>1 DEF Informed
  <2> QED
    BY <2>4, <2>5, <2>6, <2>7, <2>8, <2>9
<1>4. CASE ~(idsFile.text \in {"missing", "ids"})
  <2>1. At(r, "failed")
    BY <1>4 DEF LoadIds
  <2>2. /\ revocation' \in [Revocations -> Revocation] /\ revocation'[r].pc = "failed"
        /\ \A s \in Revocations \ {r} : revocation'[s] = revocation[s]
        /\ \A s \in Revocations :
             /\ revocation'[s].by = revocation[s].by /\ revocation'[s].ids = revocation[s].ids
             /\ revocation'[s].token = revocation[s].token
             /\ revocation'[s].lapped = revocation[s].lapped
    BY <2>1, MovesFields
  <2>3. Running' = Running \ {r} /\ Lone' = Lone
    BY <1>1, <2>2 DEF Running, Lone
  <2>4. TokenTypeOK'
    BY <1>1, <2>2 DEF TokenTypeOK
  <2>5. Asked' /\ AloneOrLapped' /\ WritesItsOwn'
    BY <2>2, <2>3 DEF Asked, AloneOrLapped, WritesItsOwn, Running
  <2>6. FileKeeps' /\ WritersKeep'
    BY <1>1, <2>2, <2>3 DEF FileKeeps, WritersKeep, Running, Lone
  <2>7. LedgerKnows' /\ Informed'
    BY <1>1, <2>2 DEF LedgerKnows, Informed
  <2> QED
    BY <2>4, <2>5, <2>6, <2>7
<1> QED
  BY <1>3, <1>4

LEMMA TruncateKeeps ==
  ASSUME TokenInv, NEW r \in Revocations, TruncateIds(r)
  PROVE  TokenInv'
<1> USE DEF TokenInv
<1>1. /\ process' = process /\ ledger' = ledger /\ owed' = owed /\ tokenFaults' = tokenFaults
      /\ idsFile' = [text |-> "empty", ids |-> {}] /\ revocation[r].pc = "open" /\ At(r, "write")
  BY DEF TruncateIds
<1>2. /\ revocation' \in [Revocations -> Revocation] /\ revocation'[r].pc = "write"
      /\ \A s \in Revocations \ {r} : revocation'[s] = revocation[s]
      /\ \A s \in Revocations :
           /\ revocation'[s].by = revocation[s].by /\ revocation'[s].ids = revocation[s].ids
           /\ revocation'[s].token = revocation[s].token
           /\ revocation'[s].lapped = revocation[s].lapped
  BY <1>1, MovesFields
<1>3. Running' = Running /\ Lone' = Lone /\ r \in Running
  BY <1>1, <1>2 DEF Running, Lone
<1>4. TokenTypeOK'
  BY <1>1, <1>2 DEF TokenTypeOK, IdsFile
<1>5. Asked' /\ AloneOrLapped' /\ WritesItsOwn'
  BY <1>1, <1>2, <1>3 DEF Asked, AloneOrLapped, WritesItsOwn, Running
<1>6. FileKeeps'
  BY <1>1, <1>2, <1>3 DEF FileKeeps, Lone
<1>7. WritersKeep'
  BY <1>1, <1>2, <1>3 DEF WritersKeep, Running, Lone
<1>8. LedgerKnows' /\ Informed'
  BY <1>1, <1>2 DEF LedgerKnows, Informed
<1> QED
  BY <1>4, <1>5, <1>6, <1>7, <1>8

LEMMA WriteKeeps ==
  ASSUME TokenInv, NEW r \in Revocations, WriteIds(r)
  PROVE  TokenInv'
<1> USE DEF TokenInv
<1>1. /\ process' = process /\ ledger' = ledger /\ owed' = owed /\ tokenFaults' = tokenFaults
      /\ revocation[r].pc = "write" /\ At(r, "written")
      /\ \/ idsFile' = [text |-> "ids", ids |-> revocation[r].ids]
         \/ idsFile' = [text |-> "debris", ids |-> {}]
  BY DEF WriteIds
<1>2. /\ revocation' \in [Revocations -> Revocation] /\ revocation'[r].pc = "written"
      /\ \A s \in Revocations \ {r} : revocation'[s] = revocation[s]
      /\ \A s \in Revocations :
           /\ revocation'[s].by = revocation[s].by /\ revocation'[s].ids = revocation[s].ids
           /\ revocation'[s].token = revocation[s].token
           /\ revocation'[s].lapped = revocation[s].lapped
  BY <1>1, MovesFields
<1>3. Running' = Running /\ Lone' \subseteq Lone \cup {r} /\ r \in Running /\ r \notin Lone
  BY <1>1, <1>2 DEF Running, Lone
<1>4. TokenTypeOK'
  BY <1>1, <1>2 DEF TokenTypeOK, IdsFile, Revocation
<1>5. Asked' /\ AloneOrLapped' /\ WritesItsOwn'
  BY <1>1, <1>2, <1>3 DEF Asked, AloneOrLapped, WritesItsOwn, Running
<1>6. FileKeeps'
  <2>1. ASSUME NEW k \in Lone'
        PROVE  revocation[k].token \in Tokens /\ revocation[k].token \in revocation[r].ids
    <3>1. CASE k = r
      BY <1>1, <1>3, <3>1 DEF Asked, WritesItsOwn
    <3>2. CASE k # r
      BY <1>1, <1>3, <3>2 DEF FileKeeps, WritersKeep
    <3> QED
      BY <3>1, <3>2
  <2> QED
    BY <1>1, <1>2, <2>1 DEF FileKeeps, Lone
<1>7. WritersKeep'
  <2>1. ASSUME NEW k \in Lone', NEW s \in Running, k # s, revocation'[s].pc \in {"open", "write"}
        PROVE  revocation'[k].token \in revocation'[s].ids
    <3>1. s # r
      BY <1>2, <2>1
    <3>2. k # r
      BY <1>2, <1>3, <2>1 DEF AloneOrLapped, Lone
    <3> QED
      BY <1>2, <1>3, <2>1, <3>1, <3>2 DEF WritersKeep, Running, Lone
  <2> QED
    BY <1>3, <2>1 DEF WritersKeep
<1>8. LedgerKnows' /\ Informed'
  BY <1>1, <1>2 DEF LedgerKnows, Informed
<1> QED
  BY <1>4, <1>5, <1>6, <1>7, <1>8

LEMMA FailKeeps ==
  ASSUME TokenInv, NEW r \in Revocations, WriteFails(r)
  PROVE  TokenInv'
<1> USE DEF TokenInv
<1>1. /\ process' = process /\ ledger' = ledger /\ owed' = owed
      /\ tokenFaults' \in 0 .. MaxTokenFaults
      /\ revocation[r].pc \in {"open", "write"} /\ At(r, "failed")
      /\ idsFile' = idsFile \/ idsFile' = [text |-> "debris", ids |-> {}]
  BY TokenAssumption DEF WriteFails, TokenTypeOK
<1>2. /\ revocation' \in [Revocations -> Revocation] /\ revocation'[r].pc = "failed"
      /\ \A s \in Revocations \ {r} : revocation'[s] = revocation[s]
      /\ \A s \in Revocations :
           /\ revocation'[s].by = revocation[s].by /\ revocation'[s].ids = revocation[s].ids
           /\ revocation'[s].token = revocation[s].token
           /\ revocation'[s].lapped = revocation[s].lapped
  BY <1>1, MovesFields
<1>3. Running' = Running \ {r} /\ Lone' = Lone
  BY <1>1, <1>2 DEF Running, Lone
<1>4. TokenTypeOK'
  BY <1>1, <1>2 DEF TokenTypeOK, IdsFile
<1>5. Asked' /\ AloneOrLapped' /\ WritesItsOwn'
  BY <1>2, <1>3 DEF Asked, AloneOrLapped, WritesItsOwn, Running
<1>6. FileKeeps'
  BY <1>1, <1>2, <1>3 DEF FileKeeps, Lone
<1>7. WritersKeep'
  BY <1>2, <1>3 DEF WritersKeep, Running, Lone
<1>8. LedgerKnows' /\ Informed'
  BY <1>1, <1>2 DEF LedgerKnows, Informed
<1> QED
  BY <1>4, <1>5, <1>6, <1>7, <1>8

LEMMA AnswerKeeps ==
  ASSUME TokenInv, NEW r \in Revocations, AnswerRevocation(r)
  PROVE  TokenInv'
<1> USE DEF TokenInv
<1> DEFINE t == revocation[r].token
           p == revocation[r].by
<1>1. /\ idsFile' = idsFile /\ tokenFaults' = tokenFaults
      /\ revocation[r].pc = "written" /\ At(r, "answered")
  BY DEF AnswerRevocation
<1>2. /\ revocation' \in [Revocations -> Revocation] /\ revocation'[r].pc = "answered"
      /\ \A s \in Revocations \ {r} : revocation'[s] = revocation[s]
      /\ \A s \in Revocations :
           /\ revocation'[s].by = revocation[s].by /\ revocation'[s].ids = revocation[s].ids
           /\ revocation'[s].token = revocation[s].token
           /\ revocation'[s].lapped = revocation[s].lapped
  BY <1>1, MovesFields
<1>3. Running' = Running \ {r} /\ Lone' = Lone /\ t \in Tokens /\ p \in Processes
  BY <1>1, <1>2 DEF Running, Lone, Asked
<1>4. /\ process' \in [Processes -> Process] /\ process'[p].revoked = process[p].revoked \cup {t}
      /\ \A q \in Processes \ {p} : process'[q] = process[q]
  <2>1. process \in [Processes -> Process] /\ process[p].revoked \cup {t} \in SUBSET Tokens
    BY <1>3 DEF TokenTypeOK, Process
  <2>2. [process[p] EXCEPT !.revoked = process[p].revoked \cup {t}] \in Process
    BY <1>3, <2>1 DEF Process
  <2>3. process' = [process EXCEPT ![p] = [process[p] EXCEPT !.revoked = process[p].revoked \cup {t}]]
    BY <1>3, <2>1 DEF AnswerRevocation
  <2> QED
    BY <1>3, <2>1, <2>2, <2>3 DEF Process
<1>5. /\ owed' \in [Processes -> SUBSET Tokens] /\ owed'[p] = owed[p] \cup {t}
      /\ \A q \in Processes \ {p} : owed'[q] = owed[q]
  BY <1>3 DEF AnswerRevocation, TokenTypeOK
<1>6. /\ ledger' \in [Tokens -> {"none", "recorded", "revoked"}] /\ ledger'[t] # "recorded"
      /\ \A u \in Tokens \ {t} : ledger'[u] = ledger[u]
      /\ ledger' = [ledger EXCEPT ![t] = IF @ = "none" THEN @ ELSE "revoked"]
  BY <1>3 DEF AnswerRevocation, TokenTypeOK
<1>7. TokenTypeOK'
  BY <1>1, <1>2, <1>4, <1>5, <1>6 DEF TokenTypeOK
<1>8. Asked' /\ AloneOrLapped' /\ WritesItsOwn'
  BY <1>2, <1>3 DEF Asked, AloneOrLapped, WritesItsOwn, Running
<1>9. FileKeeps' /\ WritersKeep'
  BY <1>1, <1>2, <1>3 DEF FileKeeps, WritersKeep, Running, Lone
<1>10. LedgerKnows'
  <2>1. ASSUME NEW s \in Revocations, revocation'[s].pc = "answered"
        PROVE  ledger'[revocation'[s].token] # "recorded"
    <3>1. CASE revocation[s].token = t
      BY <1>2, <1>6, <3>1
    <3>2. CASE revocation[s].token # t
      <4>1. ledger'[revocation[s].token] = ledger[revocation[s].token]
        BY <1>6, <3>2 DEF TokenTypeOK
      <4> QED
        BY <1>2, <2>1, <3>2, <4>1 DEF LedgerKnows
    <3> QED
      BY <3>1, <3>2
  <2> QED
    BY <2>1 DEF LedgerKnows
<1>11. Informed'
  BY <1>3, <1>4, <1>5 DEF Informed
<1> QED
  BY <1>7, <1>8, <1>9, <1>10, <1>11

LEMMA TokenInvNext == TokenInv /\ [TokenNext]_tokenVars => TokenInv'
<1> SUFFICES ASSUME TokenInv, [TokenNext]_tokenVars PROVE TokenInv'
  OBVIOUS
<1>1. CASE UNCHANGED tokenVars
  BY <1>1 DEF tokenVars, TokenInv, TokenTypeOK, Asked, AloneOrLapped, WritesItsOwn, Lone, FileKeeps,
              WritersKeep, LedgerKnows, Informed, Running
<1> QED
  BY <1>1, StartKeeps, StopKeeps, IssueKeeps, RequestKeeps, LoadKeeps, TruncateKeeps, WriteKeeps,
     FailKeeps, AnswerKeeps DEF TokenNext

LEMMA TokenInvHolds == TokenSpec => []TokenInv
BY TokenInvInit, TokenInvNext, PTL DEF TokenSpec

-----------------------------------------------------------------------------
\* Every variable keeps its type, for any processes, requests to revoke and tokens.
THEOREM TokenTypeCorrect == TokenSpec => []TokenTypeOK
<1>1. TokenInv => TokenTypeOK
  BY DEF TokenInv
<1> QED
  BY <1>1, TokenInvHolds, PTL

\* However many revocations overlap later, fail or are cut short: one that
\* overlapped no other is listed whenever the file can be read, and in the ledger.
THEOREM RevokedForGood == TokenSpec => []RevocationIsDurable
<1>1. TokenInv => RevocationIsDurable
  BY DEF TokenInv, RevocationIsDurable, FileKeeps, LedgerKnows, Lone
<1> QED
  BY <1>1, TokenInvHolds, PTL

\* An issued token is refused wherever its id is known to be revoked, whatever the
\* policy, the actor, the request and the time ...
LEMMA RevokedTokenRefused ==
  ASSUME NEW revoked \in SUBSET Tokens, NEW t \in revoked
  PROVE  Refuses(t, revoked)
BY DEF Refuses, ByIssuedToken

\* ... and a process knows all it has to refuse.
THEOREM ProcessesRefuse == TokenSpec => []RevokedIsRefused
<1>1. TokenInv => RevokedIsRefused
  <2> SUFFICES ASSUME TokenInv, NEW p \in Processes, NEW t \in owed[p]
               PROVE  <<t, process[p].revoked, TRUE>> \in Refusals
    BY DEF RevokedIsRefused
  <2>1. process[p].revoked \in SUBSET Tokens /\ t \in process[p].revoked
    BY DEF TokenInv, TokenTypeOK, Process, Informed
  <2>2. Refuses(t, process[p].revoked)
    BY <2>1, RevokedTokenRefused
  <2>3. t \in Tokens
    BY <2>1
  <2> DEFINE refused == Refuses(t, process[p].revoked)
  <2>4. <<t, process[p].revoked, refused>> \in Refusals
    BY <2>1, <2>3 DEF Refusals
  <2>5. refused = TRUE
    BY <2>2
  <2> HIDE DEF refused
  <2> QED
    BY <2>4, <2>5
<1> QED
  BY <1>1, TokenInvHolds, PTL

-----------------------------------------------------------------------------
(* inspectToken against authorizeOperation.                                *)

LEMMA EntryIsTheOne ==
  ASSUME NEW p \in Policies, NEW i \in DOMAIN p.registry
  PROVE  Registered(p, p.registry[i].id) /\ Entry(p, p.registry[i].id) = p.registry[i]
<1> DEFINE id == p.registry[i].id
<1>1. p.registry[i] \in Entries(p)
  BY DEF Entries
<1>2. \A e \in Entries(p) : e.id = id => e = p.registry[i]
  BY RegistryAssumption DEF Entries
<1>3. Entry(p, id) \in Entries(p) /\ Entry(p, id).id = id
  BY <1>1 DEF Entry
<1> QED
  BY <1>1, <1>2, <1>3 DEF Registered

\* A token configured once is where it is first configured.
LEMMA OnlyConfigured ==
  ASSUME NEW p \in Policies, NEW token, NEW m, Configured(p, token) = {m}
  PROVE  /\ FirstConfigured(p, token) = m
         /\ m[1] \in DOMAIN p.registry /\ m[2] \in DOMAIN p.registry[m[1]].creds
         /\ p.registry[m[1]].creds[m[2]].token = token
         /\ \A j \in DOMAIN p.registry[m[1]].creds :
              p.registry[m[1]].creds[j].token = token => j = m[2]
<1>1. PICK i \in DOMAIN p.registry :
        \E j \in DOMAIN p.registry[i].creds :
          m = <<i, j>> /\ p.registry[i].creds[j].token = token
  BY DEF Configured
<1>2. m[1] = i /\ m[2] \in DOMAIN p.registry[i].creds /\ p.registry[i].creds[m[2]].token = token
  BY <1>1
<1>3. \A j \in DOMAIN p.registry[i].creds : p.registry[i].creds[j].token = token =>
        <<i, j>> \in Configured(p, token)
  BY DEF Configured
<1>4. \A j \in DOMAIN p.registry[i].creds : p.registry[i].creds[j].token = token => j = m[2]
  <2> SUFFICES ASSUME NEW j \in DOMAIN p.registry[i].creds, p.registry[i].creds[j].token = token
               PROVE  j = m[2]
    OBVIOUS
  <2>1. <<i, j>> = m
    BY <1>3
  <2> QED
    BY <2>1
<1>5. m[2] \in Nat
  BY <1>2, RegistryAssumption
<1>6. FirstConfigured(p, token) = m
  <2>1. \A n \in {m} : m[1] < n[1] \/ (m[1] = n[1] /\ m[2] <= n[2])
    BY <1>5
  <2> QED
    BY <2>1 DEF FirstConfigured
<1> QED
  BY <1>2, <1>4, <1>6

LEMMA RequestsAgree ==
  ASSUME NEW p \in Policies, NEW revoked, NEW a, NEW s, NEW now
  PROVE  Agree(p, revoked, a, s, now)
<1> DEFINE expected == [transport |-> a.transport, command |-> s.command,
                        adminAction |-> s.adminAction]
           inspected == Inspection(p, revoked, a.token, expected, now)
           admitted == /\ Absent \notin {a.id, a.source} /\ RoleAllowed(a.role, s)
                       /\ Registered(p, a.id) => EntryAdmits(Entry(p, a.id), a, s, now)
           configured == Configured(p, a.token)
           named == /\ a.token \in Tokens
                    /\ Claims[a.token].id = a.id /\ Claims[a.token].role = a.role
                    /\ Claims[a.token].source \in {Absent, a.source}
<1>1. ASSUME admitted, configured = {}, ByIssuedToken(p, revoked, a, s, now)
      PROVE  inspected = [kind |-> "issued", valid |-> TRUE]
  <2> DEFINE c == Claims[a.token]
  <2>1. /\ p.issuer /\ a.token \in DOMAIN Claims
        /\ InWindow(now, c) /\ a.token \notin revoked
        /\ c.id = a.id /\ c.role = a.role /\ c.source \in {Absent, a.source}
        /\ Allows(c.transports, a.transport) /\ AdmitsScope(c, s)
        /\ p.requireMatch => Registered(p, c.id)
    BY <1>1 DEF ByIssuedToken
  <2>2. Registered(p, c.id) => IsActive(Entry(p, c.id), now) /\ MatchesRegistry(p, c)
    BY <1>1, <2>1 DEF EntryAdmits, MatchesRegistry
  <2>3. AdmitsScope(c, expected)
    BY <2>1 DEF AdmitsScope
  <2>4. IssuedInspection(p, revoked, a.token, expected, now) = [kind |-> "issued", valid |-> TRUE]
    BY <2>1, <2>2, <2>3 DEF IssuedInspection
  <2> QED
    BY <1>1, <2>1, <2>4 DEF Inspection
<1>2. ASSUME admitted, configured = {}, named, inspected.valid
      PROVE  Verdict(p, revoked, a, s, now) = "authorized"
  <2> DEFINE c == Claims[a.token]
  <2>1. /\ p.issuer /\ a.token \in DOMAIN Claims
        /\ inspected = IssuedInspection(p, revoked, a.token, expected, now)
    BY <1>2 DEF Inspection
  <2>2. /\ InWindow(now, c) /\ a.token \notin revoked
        /\ p.requireMatch => MatchesRegistry(p, c)
        /\ Allows(c.transports, a.transport) /\ AdmitsScope(c, expected)
    BY <1>2, <2>1 DEF IssuedInspection
  <2>3. ByIssuedToken(p, revoked, a, s, now)
    BY <1>2, <2>1, <2>2 DEF ByIssuedToken, MatchesRegistry, AdmitsScope
  <2> QED
    BY <1>2, <2>3 DEF Verdict
<1>3. ASSUME NEW m \in configured, configured = {m}, admitted, p.registry[m[1]].id = a.id
      PROVE  ByCredential(p.registry[m[1]], a, now) <=> inspected.valid
  <2> DEFINE e == p.registry[m[1]]
  <2>1. /\ FirstConfigured(p, a.token) = m
        /\ m[1] \in DOMAIN p.registry /\ m[2] \in DOMAIN e.creds
        /\ e.creds[m[2]].token = a.token
        /\ \A j \in DOMAIN e.creds : e.creds[j].token = a.token => j = m[2]
    BY <1>3, OnlyConfigured
  <2>2. EntryAdmits(e, a, s, now)
    BY <1>3, <2>1, EntryIsTheOne
  <2>3. inspected = StaticInspection(p, a.token, expected, now)
    BY <1>3 DEF Inspection
  <2>4. inspected.valid <=> InWindow(now, e.creds[m[2]])
    BY <2>1, <2>2, <2>3 DEF StaticInspection, EntryAdmits, AdmitsScope
  <2>5. ByCredential(e, a, now) <=> InWindow(now, e.creds[m[2]])
    BY <2>1 DEF ByCredential
  <2> QED
    BY <2>4, <2>5
<1> HIDE DEF inspected, admitted, configured, named
<1> QED
  BY <1>1, <1>2, <1>3 DEF Agree, inspected, admitted, configured, named

\* Whatever ids are revoked, inspectToken says of a token what authorizeOperation
\* does with it, for any registries, modes, actors, requests and times.
THEOREM VerdictsAlwaysAgree == TokenSpec => []VerdictsAgree
<1>1. TokenInv => VerdictsAgree
  <2> SUFFICES ASSUME TokenInv, NEW q \in Processes
               PROVE  <<process[q].revoked, TRUE>> \in Agreements
    BY DEF VerdictsAgree
  <2> DEFINE revoked == process[q].revoked
             agree == AlwaysAgree(revoked)
  <2>1. revoked \in SUBSET Tokens
    BY DEF TokenInv, TokenTypeOK, Process
  <2>2. agree = TRUE
    BY RequestsAgree DEF AlwaysAgree
  <2>3. <<revoked, agree>> \in Agreements
    BY <2>1 DEF Agreements
  <2> HIDE DEF agree
  <2> QED
    BY <2>2, <2>3
<1> QED
  BY <1>1, TokenInvHolds, PTL
===============================================================================
