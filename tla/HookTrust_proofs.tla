-------------------------- MODULE HookTrust_proofs --------------------------
(***************************************************************************)
(* Proofs about HookTrust, for any set of processes, any hook keys and any *)
(* number of changes by Codex.                                             *)
(***************************************************************************)
EXTENDS HookTrust, TLAPS

Labels == {"idle", "config", "status", "fetch", "compare", "files",
           "mismatch", "unfetched", "unverified", "hash", "write", "replace"}

LEMMA DataTypes ==
    /\ NoPairs \in [OwnKeys -> Declarations]
    /\ NoHash \in Payloads
    /\ NoTables \in [OwnKeys -> Table]
    /\ NoText \in [Keys -> Table]
    /\ \A e \in Selections : Untrusted(e) \in Table
    /\ Declared(NoPairs) = {}
<1>1. NoPairs \in [OwnKeys -> Declarations]
  BY DEF NoPairs, Declarations
<1>2. NoHash \in Payloads
  BY <1>1 DEF NoHash, Payloads, Codes, Rests
<1>3. \A e \in Selections : Untrusted(e) \in Table
  BY <1>2 DEF Untrusted, Table, Declarations
<1>4. NoTables \in [OwnKeys -> Table] /\ NoText \in [Keys -> Table]
  BY <1>3 DEF NoTables, NoText, Selections
<1>5. QED
  BY <1>1, <1>2, <1>3, <1>4 DEF Declared, NoPairs

LEMMA ReturnTypeOK ==
  ASSUME TypeOK, NEW p \in Procs, NEW o \in {"ok", "failed", "killed"},
         Return(p, o)
  PROVE  /\ pc' \in [Procs -> Labels]
         /\ hooks' \in [Procs -> [OwnKeys -> Declarations]]
         /\ recorded' \in [Procs -> [OwnKeys -> Table]]
         /\ content' \in [Procs -> Payloads]
         /\ fed' \in [Procs -> 0..3]
         /\ text' \in [Procs -> [Keys -> Table]]
         /\ result' \in [Procs -> {"none", "ok", "failed", "killed"}]
  BY DataTypes DEF TypeOK, Return, Goto, Labels

LEMMA InitTypeOK == Init => TypeOK
<1> SUFFICES ASSUME Init PROVE TypeOK
  OBVIOUS
<1>1. config \in [Keys -> Table]
  BY DataTypes DEF Init, Selections
<1>2. QED
  BY <1>1, DataTypes, MaxWritesIsNat DEF Init, TypeOK

\* A written table is a table, and so is every table of the new text.
LEMMA StaleKeys ==
  ASSUME NEW p \in Procs, NEW tables
  PROVE  Stale(p, tables) \subseteq OwnKeys /\ Stale(p, tables) \intersect Obsolete(p) = {}
  BY DEF Stale, Obsolete, Declared

LEMMA RewrittenType ==
  ASSUME TypeOK, NEW p \in Procs
  PROVE  Rewritten(p) \in [Keys -> Table]
<1>1. \A k \in Keys : text[p][k] \in Table /\ text[p][k].enabled \in Selections
  BY DEF TypeOK, Table
<1>2. ASSUME NEW k \in OwnKeys PROVE Record(p, k) \in Table
  <2>1. hooks[p][k] \in Declarations /\ content[p] \in Payloads
    BY DEF TypeOK
  <2>2. k \in Keys
    BY DEF Keys
  <2>3. QED
    BY <1>1, <2>1, <2>2 DEF Record, Table
<1>3. Untrusted("unset") \in Table
  BY DataTypes DEF Selections
<1>4. QED
  BY <1>1, <1>2, <1>3, StaleKeys DEF Rewritten

\* Granting, taking back and switching write one table each.
LEMMA CodexTables ==
  ASSUME TypeOK, CodexGrant \/ CodexWithdraw \/ CodexSelect
  PROVE  \E k \in Keys, t \in Table : CodexTable(k, t)
<1>1. \A k \in Keys : config[k] \in Table /\ config[k].enabled \in Selections
  BY DEF TypeOK, Table
<1>2. ASSUME NEW k \in OwnKeys
      PROVE  [config[k] EXCEPT !.decl = payload.decl[k],
                               !.content = payload,
                               !.by = "codex"] \in Table
  BY <1>1, ZenonT(40) DEF TypeOK, Table, Payloads, Keys
<1>3. ASSUME NEW k \in Keys, NEW e \in {"on", "off"}
      PROVE  [config[k] EXCEPT !.enabled = e] \in Table
  BY <1>1 DEF Table, Selections
<1>4. OwnKeys \subseteq Keys
  BY DEF Keys
<1>5. CASE CodexGrant
  BY <1>2, <1>4, <1>5 DEF CodexGrant
<1>6. CASE CodexWithdraw
  BY <1>1, <1>4, <1>6, DataTypes DEF CodexWithdraw
<1>7. CASE CodexSelect
  BY <1>3, <1>7 DEF CodexSelect
<1>8. QED
  BY <1>5, <1>6, <1>7

LEMMA StepTypeOK == TypeOK /\ [Next]_vars => TypeOK'
<1> SUFFICES ASSUME TypeOK, [Next]_vars PROVE TypeOK'
  OBVIOUS
<1>1. ASSUME NEW p \in Procs, ReadInstalled(p) PROVE TypeOK'
  <2>1. payload.decl \in [OwnKeys -> Declarations]
    BY DEF TypeOK, Payloads
  <2>2. QED
    BY <1>1, <2>1 DEF TypeOK, ReadInstalled, hostVars, Goto
<1>2. ASSUME NEW p \in Procs, ReadRecords(p) PROVE TypeOK'
  <2>1. [k \in OwnKeys |-> config[k]] \in [OwnKeys -> Table]
    BY DEF TypeOK, Keys
  <2>2. CASE Return(p, "failed")
    BY <1>2, <2>2, ReturnTypeOK DEF TypeOK, ReadRecords, hostVars, Labels
  <2>3. CASE ~Return(p, "failed")
    BY <1>2, <2>1, <2>3, ZenonT(60) DEF TypeOK, ReadRecords, hostVars, Goto
  <2>4. QED
    BY <2>2, <2>3
<1>3. ASSUME NEW p \in Procs, Fingerprint(p) PROVE TypeOK'
  <2>1. /\ payload.decl \in [OwnKeys -> Declarations]
        /\ payload.code \in Codes
        /\ payload.rest \in Rests
    BY DEF TypeOK, Payloads
  <2>2. /\ [content EXCEPT ![p].decl = payload.decl] \in [Procs -> Payloads]
        /\ [content EXCEPT ![p].code = payload.code] \in [Procs -> Payloads]
        /\ [content EXCEPT ![p].rest = payload.rest] \in [Procs -> Payloads]
    BY <2>1 DEF TypeOK, Payloads
  <2>3. CASE \E part \in {0, 1, 2} : Feed(p, part)
    <3>1. content' \in [Procs -> Payloads]
      BY <1>3, <2>2, <2>3, ZenonT(60) DEF Fingerprint, Feed, TypeOK, Return, Goto
    <3>2. fed' \in [Procs -> 0..3]
      BY <2>3 DEF Feed, TypeOK
    <3>3. QED
      BY <1>3, <2>3, <3>1, <3>2 DEF Fingerprint, Feed, TypeOK, hostVars
  <2>4. CASE Return(p, "failed")
    BY <1>3, <2>4, ReturnTypeOK DEF TypeOK, Fingerprint, hostVars, Labels
  <2>5. CASE Goto(p, "fetch") /\ UNCHANGED <<readVars, result>>
    BY <1>3, <2>5 DEF TypeOK, Fingerprint, hostVars, readVars, Goto
  <2>6. QED
    BY <1>3, <2>3, <2>4, <2>5 DEF Fingerprint
<1>4. ASSUME NEW p \in Procs, CompareRecords(p) PROVE TypeOK'
  BY <1>4, ReturnTypeOK
     DEF TypeOK, CompareRecords, hostVars, readVars, Goto, Labels
<1>5. ASSUME NEW p \in Procs, FetchRelease(p) PROVE TypeOK'
  <2>1. pc' \in [Procs -> Labels]
    BY <1>5 DEF TypeOK, FetchRelease, Goto, Labels
  <2>2. /\ hooks' \in [Procs -> [OwnKeys -> Declarations]]
        /\ recorded' \in [Procs -> [OwnKeys -> Table]]
        /\ content' \in [Procs -> Payloads]
        /\ fed' \in [Procs -> 0..3]
    BY <1>5, DataTypes DEF TypeOK, FetchRelease
  <2>3. QED
    BY <1>5, <2>1, <2>2 DEF TypeOK, FetchRelease, hostVars, Labels
<1>6. ASSUME NEW p \in Procs, MatchDeclarations(p) PROVE TypeOK'
  <2>1. payload.decl \in [OwnKeys -> Declarations]
    BY DEF TypeOK, Payloads
  <2>2. QED
    BY <1>6, <2>1 DEF TypeOK, MatchDeclarations, hostVars, Goto
<1>7. ASSUME NEW p \in Procs, CompareFiles(p) PROVE TypeOK'
  <2>1. CASE Return(p, "killed")
    BY <1>7, <2>1, ReturnTypeOK DEF TypeOK, CompareFiles, hostVars, Labels
  <2>2. CASE /\ \/ Goto(p, "hash") /\ UNCHANGED hooks
                \/ /\ Goto(p, "unverified")
                   /\ hooks' = [hooks EXCEPT ![p] = NoPairs]
             /\ UNCHANGED <<recorded, content, fed, text, result>>
    <3>1. pc' \in [Procs -> Labels]
      BY <2>2 DEF TypeOK, Goto, Labels
    <3>2. hooks' \in [Procs -> [OwnKeys -> Declarations]]
      BY <2>2, DataTypes DEF TypeOK
    <3>3. QED
      BY <1>7, <2>2, <3>1, <3>2 DEF TypeOK, CompareFiles, hostVars, Labels
  <2>3. QED
    BY <1>7, <2>1, <2>2 DEF CompareFiles
<1>8. ASSUME NEW p \in Procs, NameUnverified(p) PROVE TypeOK'
  BY <1>8, ReturnTypeOK
     DEF TypeOK, NameUnverified, hostVars, readVars, Goto, Labels
<1>9. ASSUME NEW p \in Procs, FinishHash(p) PROVE TypeOK'
  BY <1>9 DEF TypeOK, FinishHash, hostVars, readVars, Goto
<1>10. ASSUME NEW p \in Procs, ReadConfig(p) \/ ReplaceConfig(p) PROVE TypeOK'
  <2>1. CASE ReadConfig(p)
    <3>1. CASE Return(p, "ok")
      BY <2>1, <3>1, ReturnTypeOK DEF ReadConfig, TypeOK, hostVars, Labels
    <3>2. CASE /\ Goto(p, "replace")
               /\ text' = [text EXCEPT ![p] = config]
               /\ UNCHANGED <<hooks, recorded, content, fed, result>>
      BY <2>1, <3>2, ZenonT(40) DEF ReadConfig, TypeOK, hostVars, Goto
    <3>3. QED
      BY <2>1, <3>1, <3>2 DEF ReadConfig
  <2>2. CASE ReplaceConfig(p)
    <3>1. quiet' \in [Procs -> BOOLEAN]
      BY <2>2 DEF ReplaceConfig, TypeOK
    <3>2. QED
      BY <2>2, <3>1, RewrittenType, ReturnTypeOK DEF ReplaceConfig, TypeOK, Labels
  <2>3. QED
    BY <1>10, <2>1, <2>2
<1>11. ASSUME NEW p \in Procs, RefuseWrite(p) \/ Kill(p) PROVE TypeOK'
  BY <1>11, ReturnTypeOK DEF TypeOK, RefuseWrite, Kill, hostVars, Labels
<1>12. ASSUME Outside PROVE
          /\ released' \subseteq OwnKeys
          /\ pc' \in [Procs -> Labels]
          /\ hooks' \in [Procs -> [OwnKeys -> Declarations]]
          /\ recorded' \in [Procs -> [OwnKeys -> Table]]
          /\ content' \in [Procs -> Payloads]
          /\ fed' \in [Procs -> 0..3]
          /\ text' \in [Procs -> [Keys -> Table]]
          /\ result' \in [Procs -> {"none", "ok", "failed", "killed"}]
          /\ quiet' \in [Procs -> BOOLEAN]
          /\ writes' \in 0..MaxWrites
  BY <1>12, MaxWritesIsNat DEF Outside, TypeOK, readVars, Labels
<1>13. CASE CodexPayload
  <2>1. payload' \in Payloads
    <3>1. ASSUME NEW k \in OwnKeys, NEW d \in Declarations
          PROVE  [payload EXCEPT !.decl[k] = d] \in Payloads
      <4>1. [payload.decl EXCEPT ![k] = d] \in [OwnKeys -> Declarations]
        BY DEF TypeOK, Payloads
      <4>2. QED
        BY <4>1 DEF TypeOK, Payloads
    <3>2. /\ \A c \in Codes : [payload EXCEPT !.code = c] \in Payloads
          /\ \A x \in Rests : [payload EXCEPT !.rest = x] \in Payloads
      BY DEF TypeOK, Payloads
    <3>3. QED
      BY <1>13, <3>1, <3>2 DEF CodexPayload
  <2>2. QED
    BY <1>12, <1>13, <2>1 DEF CodexPayload, TypeOK, Labels
<1>14. ASSUME NEW k \in Keys, NEW t \in Table, CodexTable(k, t) PROVE TypeOK'
  BY <1>12, <1>14 DEF CodexTable, TypeOK, Labels
<1>15. CASE CodexGrant \/ CodexWithdraw \/ CodexSelect
  BY <1>14, <1>15, CodexTables
<1>16. CASE CodexFormat
  BY <1>12, <1>16 DEF CodexFormat, TypeOK, Labels
<1>17. CASE UNCHANGED vars
  BY <1>17 DEF vars, TypeOK
<1>18. QED
  BY <1>1, <1>2, <1>3, <1>4, <1>5, <1>6, <1>7, <1>8, <1>9, <1>10, <1>11,
     <1>13, <1>15, <1>16, <1>17 DEF Next, PassStep, CodexStep

\* Type correctness: the tables stay tables, and a pass only ever holds hashes
\* of the plugin's own hooks.
THEOREM TypeCorrect == Spec => []TypeOK
  BY InitTypeOK, StepTypeOK, PTL DEF Spec

-----------------------------------------------------------------------------
(***************************************************************************)
(* What a pass records. From the comparison of the declarations on, the    *)
(* pairs a pass carries are the release's, but for the hooks of an emptied *)
(* file, or none: every later step keeps them or gives them up, whatever   *)
(* Codex does to the payload meanwhile. A pass that replaces the           *)
(* configuration has a record to replace in it.                            *)
(***************************************************************************)
MatchesRelease(pairs) == \A k \in OwnKeys : pairs[k] \in {ReleaseDecl[k], "emptied"}

PairsFromRelease ==
    \A p \in Procs :
        /\ pc[p] \in {"compare", "mismatch", "unverified"} =>
              hooks[p] = NoPairs
        /\ pc[p] = "files" => MatchesRelease(hooks[p])
        /\ pc[p] \in {"hash", "write", "replace"} =>
              MatchesRelease(hooks[p]) \/ hooks[p] = NoPairs
        /\ pc[p] = "replace" => Stale(p, text[p]) # {}

\* A step of p moves no other process, nor the payload, nor the release.
LEMMA StepLocal ==
  ASSUME TypeOK, NEW p \in Procs, PassStep(p) \/ Kill(p)
  PROVE  /\ \A q \in Procs \ {p} : /\ pc'[q] = pc[q]
                                   /\ hooks'[q] = hooks[q]
                                   /\ content'[q] = content[q]
                                   /\ fed'[q] = fed[q]
                                   /\ text'[q] = text[q]
                                   /\ quiet'[q] => quiet[q]
         /\ released' = released
         /\ payload' = payload
         /\ writes' = writes
<1>1. CASE ReadInstalled(p) \/ ReadRecords(p)
  BY <1>1 DEF ReadInstalled, ReadRecords, Return, Goto, hostVars, TypeOK
<1>2. CASE Fingerprint(p)
  BY <1>2 DEF Fingerprint, Feed, Return, Goto, hostVars, readVars, TypeOK
<1>3. CASE CompareRecords(p) \/ MatchDeclarations(p)
  BY <1>3 DEF CompareRecords, MatchDeclarations, Return, Goto, hostVars,
              readVars, TypeOK
<1>4. CASE FetchRelease(p)
  BY <1>4 DEF FetchRelease, Goto, hostVars, TypeOK
<1>5. CASE CompareFiles(p)
  BY <1>5 DEF CompareFiles, Return, Goto, hostVars, TypeOK
<1>6. CASE NameUnverified(p) \/ FinishHash(p)
  BY <1>6 DEF NameUnverified, FinishHash, Return, Goto, hostVars, readVars,
              TypeOK
<1>7. CASE ReadConfig(p) \/ ReplaceConfig(p) \/ RefuseWrite(p) \/ Kill(p)
  BY <1>7 DEF ReadConfig, ReplaceConfig, RefuseWrite, Kill, Return, Goto,
              hostVars, TypeOK
<1>8. QED
  BY <1>1, <1>2, <1>3, <1>4, <1>5, <1>6, <1>7 DEF PassStep

\* What Codex does moves no process and disturbs every pass.
LEMMA CodexLocal ==
  ASSUME CodexStep
  PROVE  /\ UNCHANGED <<released, pc, hooks, recorded, content, fed, text, result>>
         /\ \A p \in Procs : ~quiet'[p]
         /\ writes' = writes + 1
  BY DEF CodexStep, CodexPayload, CodexGrant, CodexWithdraw, CodexSelect,
         CodexTable, CodexFormat, Outside, readVars

LEMMA StepPairs == TypeOK /\ PairsFromRelease /\ [Next]_vars => PairsFromRelease'
<1> SUFFICES ASSUME TypeOK, PairsFromRelease, [Next]_vars
             PROVE  PairsFromRelease'
  OBVIOUS
<1>1. ASSUME NEW p \in Procs, PassStep(p) \/ Kill(p) PROVE PairsFromRelease'
  <2> DEFINE Good(label, pairs) ==
        /\ label \in {"compare", "mismatch", "unverified"} => pairs = NoPairs
        /\ label = "files" => MatchesRelease(pairs)
        /\ label \in {"hash", "write", "replace"} =>
              MatchesRelease(pairs) \/ pairs = NoPairs
  <2>1. ReleaseDecl' = ReleaseDecl
    BY <1>1, StepLocal DEF ReleaseDecl
  <2>2. Good(pc[p], hooks[p])
    BY DEF PairsFromRelease
  <2>3. Good(pc'[p], hooks'[p])
    <3>1. CASE pc'[p] = "idle"
      BY <3>1
    <3>2. CASE ReadInstalled(p) \/ ReadRecords(p)
      BY <3>2, <3>1 DEF ReadInstalled, ReadRecords, Return, Goto, TypeOK
    <3>3. CASE Fingerprint(p)
      BY <3>3, <3>1, <2>2
         DEF Fingerprint, Feed, Return, Goto, readVars, TypeOK
    <3>4. CASE CompareRecords(p)
      BY <3>4, <3>1 DEF CompareRecords, Return, Goto, TypeOK
    <3>5. CASE FetchRelease(p)
      BY <3>5 DEF FetchRelease, Goto, TypeOK
    <3>6. CASE MatchDeclarations(p)
      <4>1. CASE pc'[p] = "files"
        <5>1. /\ hooks'[p] = payload.decl
              /\ \A k \in OwnKeys : payload.decl[k] \in {ReleaseDecl[k], "emptied"}
          BY <3>6, <4>1 DEF MatchDeclarations, Goto, TypeOK
        <5>2. QED
          BY <4>1, <5>1 DEF MatchesRelease
      <4>2. CASE pc'[p] # "files"
        BY <3>6, <4>2, <2>2 DEF MatchDeclarations, Goto, TypeOK
      <4>3. QED
        BY <4>1, <4>2
    <3>7. CASE CompareFiles(p)
      BY <3>7, <3>1, <2>2 DEF CompareFiles, Return, Goto, TypeOK
    <3>8. CASE NameUnverified(p)
      BY <3>8, <3>1, <2>2 DEF NameUnverified, Return, Goto, readVars, TypeOK
    <3>9. CASE FinishHash(p)
      BY <3>9, <2>2 DEF FinishHash, Goto, readVars, TypeOK
    <3>10. CASE ReadConfig(p)
      BY <3>10, <3>1, <2>2 DEF ReadConfig, Return, Goto, TypeOK
    <3>11. CASE ReplaceConfig(p) \/ RefuseWrite(p) \/ Kill(p)
      BY <3>11, <3>1 DEF ReplaceConfig, RefuseWrite, Kill, Return, Goto, TypeOK
    <3>12. QED
      BY <1>1, <3>2, <3>3, <3>4, <3>5, <3>6, <3>7, <3>8, <3>9, <3>10, <3>11
         DEF PassStep
  <2>4. pc'[p] = "replace" => Stale(p, text[p])' # {}
    <3>1. SUFFICES ASSUME pc'[p] = "replace" PROVE Stale(p, text[p])' # {}
      OBVIOUS
    <3>2. ReadConfig(p)
      BY <1>1, <3>1 DEF PassStep, Kill, ReadInstalled, ReadRecords, Fingerprint,
        Feed, CompareRecords, FetchRelease, MatchDeclarations, CompareFiles,
        NameUnverified, FinishHash, ReplaceConfig, RefuseWrite, Return, Goto, TypeOK
    <3>3. /\ Stale(p, config) # {} /\ text'[p] = config
          /\ hooks'[p] = hooks[p] /\ content'[p] = content[p]
      BY <3>1, <3>2 DEF ReadConfig, Return, Goto, TypeOK
    <3>4. QED
      BY <3>3 DEF Stale
  <2>5. ASSUME NEW q \in Procs \ {p}
        PROVE  Stale(q, text[q])' = Stale(q, text[q])
    BY <1>1, StepLocal DEF Stale
  <2>6. QED
    BY <1>1, <2>1, <2>3, <2>4, <2>5, StepLocal DEF PairsFromRelease, MatchesRelease
<1>2. CASE CodexStep
  BY <1>2, CodexLocal DEF PairsFromRelease, MatchesRelease, ReleaseDecl, Stale
<1>3. CASE UNCHANGED vars
  BY <1>3 DEF vars, PairsFromRelease, MatchesRelease, ReleaseDecl, Stale
<1>4. QED
  BY <1>1, <1>2, <1>3 DEF Next

LEMMA InitPairs == Init => PairsFromRelease
  BY DEF Init, PairsFromRelease

\* What a write replaces is declared by the release with the hash it writes,
\* and of the release's hooks it drops only those of an emptied file.
LEMMA WriteFromRelease ==
  ASSUME TypeOK, PairsFromRelease, NEW p \in Procs, pc[p] = "replace"
  PROVE  /\ \A k \in Stale(p, text[p]) : k \in released /\ hooks[p][k] = ReleaseDecl[k]
         /\ \A k \in released \intersect Obsolete(p) : hooks[p][k] = "emptied"
<1>1. hooks[p] # NoPairs
  BY DataTypes DEF PairsFromRelease, Stale
<1>2. \A k \in OwnKeys : hooks[p][k] \in {ReleaseDecl[k], "emptied"}
  BY <1>1 DEF PairsFromRelease, MatchesRelease
<1>3. QED
  BY <1>2 DEF Stale, Obsolete, Declared, ReleaseDecl

\* What the Driver has written, in the file or in the text a pass has read.
DriversFromRelease(tables) ==
    \A k \in OwnKeys : tables[k].by = "driver" =>
        k \in released /\ tables[k].decl = ReleaseDecl[k]

RecordsFromRelease ==
    /\ DriversFromRelease(config)
    /\ \A p \in Procs : DriversFromRelease(text[p])

LEMMA InitRecords == Init => RecordsFromRelease
  BY DEF Init, RecordsFromRelease, DriversFromRelease, NoText, Untrusted, Keys

LEMMA StepRecords ==
  TypeOK /\ PairsFromRelease /\ RecordsFromRelease /\ [Next]_vars
    => RecordsFromRelease'
<1> SUFFICES ASSUME TypeOK, PairsFromRelease, RecordsFromRelease, [Next]_vars
             PROVE  RecordsFromRelease'
  OBVIOUS
<1>1. released' = released
  BY StepLocal, CodexLocal DEF Next, vars
<1>2. ReleaseDecl' = ReleaseDecl
  BY <1>1 DEF ReleaseDecl
<1>3. ASSUME DriversFromRelease(config'), \A q \in Procs : DriversFromRelease(text'[q])
      PROVE  RecordsFromRelease'
  BY <1>1, <1>2, <1>3 DEF RecordsFromRelease, DriversFromRelease
<1>4. DriversFromRelease(NoText)
  BY DEF DriversFromRelease, NoText, Untrusted, Keys
<1>5. ASSUME NEW p \in Procs, PassStep(p) \/ Kill(p)
      PROVE  RecordsFromRelease'
  <2>1. \A q \in Procs : text'[q] \in {text[q], NoText, config}
    BY <1>5 DEF PassStep, Kill, ReadInstalled, ReadRecords, Fingerprint, Feed,
      CompareRecords, FetchRelease, MatchDeclarations, CompareFiles,
      NameUnverified, FinishHash, ReadConfig, ReplaceConfig, RefuseWrite,
      Return, readVars, TypeOK
  <2>2. \A q \in Procs : DriversFromRelease(text'[q])
    BY <1>4, <2>1 DEF RecordsFromRelease
  <2>3. CASE ~ReplaceConfig(p)
    <3>1. config' = config
      BY <1>5, <2>3 DEF PassStep, Kill, ReadInstalled, ReadRecords, Fingerprint,
        CompareRecords, FetchRelease, MatchDeclarations, CompareFiles,
        NameUnverified, FinishHash, ReadConfig, RefuseWrite, hostVars
    <3>2. QED
      BY <1>3, <2>2, <3>1 DEF RecordsFromRelease
  <2>4. CASE ReplaceConfig(p)
    <3>1. pc[p] = "replace" /\ config' = Rewritten(p)
      BY <2>4 DEF ReplaceConfig
    <3>2. ASSUME NEW k \in OwnKeys, config'[k].by = "driver"
          PROVE  k \in released /\ config'[k].decl = ReleaseDecl[k]
      <4>1. k \in Keys
        BY DEF Keys
      <4>2. CASE k \in Stale(p, text[p])
        <5>1. config'[k] = Record(p, k)
          BY <3>1, <4>1, <4>2, StaleKeys DEF Rewritten
        <5>2. QED
          BY <3>1, <4>2, <5>1, WriteFromRelease DEF Record
      <4>3. CASE k \notin Stale(p, text[p]) /\ k \in Obsolete(p)
        <5>1. config'[k] = Untrusted("unset")
          BY <3>1, <4>1, <4>3 DEF Rewritten
        <5>2. QED
          BY <3>2, <5>1 DEF Untrusted
      <4>4. CASE k \notin Stale(p, text[p]) /\ k \notin Obsolete(p)
        <5>1. config'[k] = text[p][k]
          BY <3>1, <4>1, <4>4 DEF Rewritten
        <5>2. QED
          BY <3>2, <5>1 DEF RecordsFromRelease, DriversFromRelease
      <4>5. QED
        BY <4>2, <4>3, <4>4
    <3>3. DriversFromRelease(config')
      BY <3>2 DEF DriversFromRelease
    <3>4. QED
      BY <1>3, <2>2, <3>3
  <2>5. QED
    BY <2>3, <2>4
<1>6. ASSUME CodexStep PROVE text' = text
  BY <1>6, CodexLocal
<1>7. ASSUME NEW k \in Keys, NEW t, t.by = "driver" => t.by = config[k].by /\ t.decl = config[k].decl,
             CodexTable(k, t), text' = text
      PROVE  RecordsFromRelease'
  <2>1. \A j \in OwnKeys : config'[j].by = "driver" =>
              config[j].by = "driver" /\ config'[j].decl = config[j].decl
    <3>1. config' = [config EXCEPT ![k] = t] /\ config \in [Keys -> Table]
      BY <1>7 DEF CodexTable, TypeOK
    <3>2. QED
      BY <1>7, <3>1 DEF Keys
  <2>2. DriversFromRelease(config')
    BY <2>1 DEF RecordsFromRelease, DriversFromRelease
  <2>3. QED
    BY <1>3, <1>7, <2>2 DEF RecordsFromRelease
<1>8. CASE CodexGrant
  <2>1. PICK k \in OwnKeys :
           CodexTable(k, [config[k] EXCEPT !.decl = payload.decl[k],
                                           !.content = payload, !.by = "codex"])
    BY <1>8 DEF CodexGrant
  <2>2. k \in Keys /\ config[k] \in Table
    BY DEF Keys, TypeOK
  <2>3. [config[k] EXCEPT !.decl = payload.decl[k],
                          !.content = payload, !.by = "codex"].by = "codex"
    BY <2>2 DEF Table
  <2>4. QED
    BY <1>6, <1>7, <1>8, <2>1, <2>2, <2>3 DEF CodexStep
<1>9. CASE CodexWithdraw
  <2>1. PICK k \in OwnKeys : CodexTable(k, Untrusted(config[k].enabled))
    BY <1>9 DEF CodexWithdraw
  <2>2. k \in Keys /\ Untrusted(config[k].enabled).by = "codex"
    BY DEF Keys, Untrusted
  <2>3. QED
    BY <1>6, <1>7, <1>9, <2>1, <2>2 DEF CodexStep
<1>10. CASE CodexSelect
  <2>1. PICK k \in Keys, e \in {"on", "off"} :
           CodexTable(k, [config[k] EXCEPT !.enabled = e])
    BY <1>10 DEF CodexSelect
  <2>2. config[k] \in Table
    BY DEF TypeOK
  <2>3. /\ [config[k] EXCEPT !.enabled = e].by = config[k].by
        /\ [config[k] EXCEPT !.enabled = e].decl = config[k].decl
    BY <2>2 DEF Table
  <2>4. QED
    BY <1>6, <1>7, <1>10, <2>1, <2>3 DEF CodexStep
<1>11. CASE CodexPayload \/ CodexFormat \/ UNCHANGED vars
  <2>1. config' = config /\ text' = text
    BY <1>11 DEF CodexPayload, CodexFormat, Outside, readVars, vars
  <2>2. QED
    BY <1>3, <2>1 DEF RecordsFromRelease
<1>12. QED
  BY <1>5, <1>8, <1>9, <1>10, <1>11 DEF Next, CodexStep

\* A record the Driver has written carries the release's hash of a hook the
\* release declares, whatever Codex rewrites in the middle of a pass
\* (reconcile_trust). Codex replacing a record ends the Driver's claim to it.
THEOREM DeclarationsFromRelease == Spec => []EstablishedFromRelease
<1>1. RecordsFromRelease => EstablishedFromRelease
  BY DEF RecordsFromRelease, DriversFromRelease, EstablishedFromRelease
<1>2. QED
  BY <1>1, InitTypeOK, StepTypeOK, InitPairs, StepPairs, InitRecords,
     StepRecords, PTL DEF Spec

\* A Driver write touches no other plugin's table and keeps the operator's
\* choice for every hook the release declares, but for what was changed since
\* the text was read under the lock and for the hooks of a registration file
\* that was emptied (rewrite_config, _with_trust_records).
THEOREM ChoicesKept == Spec => OperatorChoicesKept
<1>1. TypeOK /\ PairsFromRelease /\ [Next]_vars =>
        (writes' = writes /\ config' # config =>
           \E p \in Procs :
             /\ pc[p] = "replace"
             /\ \A k \in OtherKeys \intersect Unraced(p) : config'[k] = config[k]
             /\ \A k \in released \intersect Unraced(p) :
                   hooks[p][k] # "emptied" =>
                      config'[k].enabled = config[k].enabled)
  <2> SUFFICES ASSUME TypeOK, PairsFromRelease, [Next]_vars,
                      writes' = writes, config' # config
               PROVE  \E p \in Procs :
                        /\ pc[p] = "replace"
                        /\ \A k \in OtherKeys \intersect Unraced(p) :
                              config'[k] = config[k]
                        /\ \A k \in released \intersect Unraced(p) :
                              hooks[p][k] # "emptied" =>
                                 config'[k].enabled = config[k].enabled
    OBVIOUS
  <2>1. ~CodexStep
    BY CodexLocal DEF TypeOK
  <2>2. PICK p \in Procs : PassStep(p) \/ Kill(p)
    BY <2>1 DEF Next, vars
  <2>3. ReplaceConfig(p)
    BY <2>2 DEF PassStep, Kill, ReadInstalled, ReadRecords, Fingerprint,
               CompareRecords, FetchRelease, MatchDeclarations, CompareFiles,
               NameUnverified, FinishHash, ReadConfig, RefuseWrite, hostVars
  <2>4. pc[p] = "replace" /\ config' = Rewritten(p)
    BY <2>3 DEF ReplaceConfig
  <2>5. ASSUME NEW k \in OtherKeys \intersect Unraced(p)
        PROVE  config'[k] = config[k]
    <3>1. k \in Keys /\ k \notin OwnKeys /\ config[k] = text[p][k]
      BY KeysDisjoint DEF Keys, Unraced
    <3>2. k \notin Stale(p, text[p]) /\ k \notin Obsolete(p)
      BY <3>1, StaleKeys DEF Obsolete
    <3>3. QED
      BY <2>4, <3>1, <3>2 DEF Rewritten
  <2>6. ASSUME NEW k \in released \intersect Unraced(p), hooks[p][k] # "emptied"
        PROVE  config'[k].enabled = config[k].enabled
    <3>1. k \in Keys /\ config[k] = text[p][k]
      BY DEF Unraced
    <3>2. k \notin Obsolete(p)
      BY <2>4, <2>6, WriteFromRelease
    <3>3. CASE k \in Stale(p, text[p])
      <4>1. config'[k] = Record(p, k)
        BY <2>4, <3>1, <3>2, <3>3 DEF Rewritten
      <4>2. QED
        BY <3>1, <4>1 DEF Record
    <3>4. CASE k \notin Stale(p, text[p])
      BY <2>4, <3>1, <3>2, <3>4 DEF Rewritten
    <3>5. QED
      BY <3>3, <3>4
  <2>7. QED
    BY <2>4, <2>5, <2>6
<1>2. Spec => [](TypeOK /\ PairsFromRelease)
  BY InitTypeOK, StepTypeOK, InitPairs, StepPairs, PTL DEF Spec
<1>3. QED
  BY <1>1, <1>2, PTL DEF Spec, OperatorChoicesKept

-----------------------------------------------------------------------------
(***************************************************************************)
(* An undisturbed pass. As long as nobody else has changed anything since  *)
(* it began, each thing the pass has established about the payload is      *)
(* still so, and the hash so far is of the payload's parts.                *)
(***************************************************************************)
Verified ==
    \A p \in Procs :
        /\ pc[p] \in {"compare", "files", "mismatch", "unverified"} =>
              fed[p] = 0
        /\ pc[p] \in {"write", "replace"} => fed[p] = 3
        /\ quiet[p] /\ pc[p] = "files" =>
              hooks[p] = payload.decl /\ MatchesRelease(payload.decl)
        /\ quiet[p] /\ pc[p] \in {"hash", "write", "replace"} =>
              /\ Declared(hooks[p]) # {} =>
                    /\ hooks[p] = payload.decl
                    /\ MatchesRelease(payload.decl)
                    /\ payload.code \in {"genuine", "lacking"}
              /\ fed[p] >= 1 => content[p].decl = payload.decl
              /\ fed[p] >= 2 => content[p].code = payload.code
              /\ fed[p] >= 3 => content[p].rest = payload.rest

LEMMA InitVerified == Init => Verified
  BY DEF Init, Verified

\* Declarations that are the release's, and not none, send the comparison to
\* the files.
LEMMA GenuineIsCompared ==
  ASSUME MatchesRelease(payload.decl), Declared(payload.decl) # {}
  PROVE  /\ "genuine" \in {payload.decl[k] : k \in OwnKeys}
         /\ Readable(payload.decl)
  BY DEF MatchesRelease, ReleaseDecl, Declared, Readable

LEMMA StepVerified ==
  TypeOK /\ PairsFromRelease /\ Verified /\ [Next]_vars => Verified'
<1> SUFFICES ASSUME TypeOK, PairsFromRelease, Verified, [Next]_vars
             PROVE  Verified'
  OBVIOUS
<1>1. ASSUME NEW p \in Procs, PassStep(p) \/ Kill(p) PROVE Verified'
  <2> DEFINE Good(label, pairs, hash, n, still) ==
        /\ label \in {"compare", "files", "mismatch", "unverified"} => n = 0
        /\ label \in {"write", "replace"} => n = 3
        /\ still /\ label = "files" =>
              pairs = payload.decl /\ MatchesRelease(payload.decl)
        /\ still /\ label \in {"hash", "write", "replace"} =>
              /\ Declared(pairs) # {} =>
                    /\ pairs = payload.decl
                    /\ MatchesRelease(payload.decl)
                    /\ payload.code \in {"genuine", "lacking"}
              /\ n >= 1 => hash.decl = payload.decl
              /\ n >= 2 => hash.code = payload.code
              /\ n >= 3 => hash.rest = payload.rest
  <2>1. ReleaseDecl' = ReleaseDecl /\ payload' = payload
    BY <1>1, StepLocal DEF ReleaseDecl
  <2>2. Good(pc[p], hooks[p], content[p], fed[p], quiet[p])
    BY DEF Verified
  <2>3. Good(pc'[p], hooks'[p], content'[p], fed'[p], quiet'[p])
    <3>1. CASE pc'[p] \in {"idle", "config", "status", "fetch", "unfetched"}
      BY <3>1
    <3>2. CASE ReadInstalled(p) \/ ReadRecords(p)
      BY <3>2, <3>1 DEF ReadInstalled, ReadRecords, Return, Goto, TypeOK
    <3>3. CASE Fingerprint(p)
      <4>1. CASE pc'[p] # "hash"
        BY <3>3, <3>1, <4>1
           DEF Fingerprint, Feed, Return, Goto, readVars, TypeOK
      <4>2. CASE pc'[p] = "hash"
        <5>1. /\ pc' = pc /\ hooks' = hooks /\ quiet' = quiet
              /\ \/ Feed(p, 0) /\ content' = [content EXCEPT ![p].decl = payload.decl]
                 \/ Feed(p, 1) /\ content' = [content EXCEPT ![p].code = payload.code]
                 \/ Feed(p, 2) /\ content' = [content EXCEPT ![p].rest = payload.rest]
          BY <3>3, <4>2 DEF Fingerprint, Feed, Return, Goto, TypeOK
        <5>2. content[p] \in Payloads
          BY DEF TypeOK
        <5>3. CASE Feed(p, 0) /\ content' = [content EXCEPT ![p].decl = payload.decl]
          <6>1. /\ fed'[p] = 1
                /\ content'[p].decl = payload.decl
            BY <5>2, <5>3 DEF Feed, TypeOK, Payloads
          <6>2. QED
            BY <2>2, <4>2, <5>1, <6>1
        <5>4. CASE Feed(p, 1) /\ content' = [content EXCEPT ![p].code = payload.code]
          <6>1. /\ fed[p] = 1 /\ fed'[p] = 2
                /\ content'[p].code = payload.code
                /\ content'[p].decl = content[p].decl
            BY <5>2, <5>4 DEF Feed, TypeOK, Payloads
          <6>2. QED
            BY <2>2, <4>2, <5>1, <6>1
        <5>5. CASE Feed(p, 2) /\ content' = [content EXCEPT ![p].rest = payload.rest]
          <6>1. /\ fed[p] = 2 /\ fed'[p] = 3
                /\ content'[p].rest = payload.rest
                /\ content'[p].code = content[p].code
                /\ content'[p].decl = content[p].decl
            BY <5>2, <5>5 DEF Feed, TypeOK, Payloads
          <6>2. QED
            BY <2>2, <4>2, <5>1, <6>1
        <5>6. QED
          BY <5>1, <5>3, <5>4, <5>5
      <4>3. QED
        BY <4>1, <4>2
    <3>4. CASE CompareRecords(p)
      BY <3>4, <3>1 DEF CompareRecords, Return, Goto, TypeOK
    <3>5. CASE FetchRelease(p)
      BY <3>5 DEF FetchRelease, Goto, TypeOK
    <3>6. CASE MatchDeclarations(p)
      <4>1. /\ pc[p] = "compare" /\ pc'[p] \in {"files", "mismatch"}
            /\ fed'[p] = fed[p]
            /\ pc'[p] = "files" =>
                 /\ hooks'[p] = payload.decl
                 /\ \A k \in OwnKeys : payload.decl[k] \in {ReleaseDecl[k], "emptied"}
        BY <3>6 DEF MatchDeclarations, Goto, TypeOK
      <4>2. QED
        BY <2>2, <4>1 DEF MatchesRelease
    <3>7. CASE CompareFiles(p)
      <4>1. fed[p] = 0
        BY <3>7, <2>2 DEF CompareFiles
      <4>2. CASE pc'[p] # "hash"
        BY <3>7, <3>1, <4>1, <4>2 DEF CompareFiles, Return, Goto, TypeOK
      <4>3. CASE pc'[p] = "hash"
        <5>1. /\ pc[p] = "files"
              /\ hooks' = hooks /\ fed' = fed /\ quiet' = quiet
              /\ ("genuine" \in {payload.decl[k] : k \in OwnKeys}
                   /\ Readable(payload.decl)) =>
                      payload.code \in {"genuine", "lacking"}
          BY <3>7, <4>3 DEF CompareFiles, Return, Goto, TypeOK
        <5>2. QED
          BY <2>2, <4>1, <4>3, <5>1, GenuineIsCompared
      <4>4. QED
        BY <4>2, <4>3
    <3>8. CASE NameUnverified(p)
      <4>1. CASE pc'[p] = "idle"
        BY <4>1
      <4>2. CASE pc'[p] # "idle"
        <5>1. /\ pc[p] = "unverified" /\ pc'[p] = "hash"
              /\ hooks' = hooks /\ fed' = fed
          BY <3>8, <4>2 DEF NameUnverified, Return, Goto, readVars, TypeOK
        <5>2. hooks[p] = NoPairs /\ fed[p] = 0
          BY <2>2, <5>1 DEF PairsFromRelease
        <5>3. QED
          BY <5>1, <5>2, DataTypes
      <4>3. QED
        BY <4>1, <4>2
    <3>9. CASE FinishHash(p)
      BY <3>9, <2>2 DEF FinishHash, Goto, readVars, TypeOK
    <3>10. CASE ReadConfig(p)
      BY <3>10, <3>1, <2>2 DEF ReadConfig, Return, Goto, TypeOK
    <3>11. CASE ReplaceConfig(p) \/ RefuseWrite(p) \/ Kill(p)
      BY <3>11, <3>1 DEF ReplaceConfig, RefuseWrite, Kill, Return, Goto, TypeOK
    <3>12. QED
      BY <1>1, <3>2, <3>3, <3>4, <3>5, <3>6, <3>7, <3>8, <3>9, <3>10, <3>11
         DEF PassStep
  <2>4. MatchesRelease(payload.decl)' <=> MatchesRelease(payload.decl)
    BY <2>1 DEF MatchesRelease
  <2>5. QED
    BY <1>1, <2>1, <2>3, <2>4, StepLocal DEF Verified
<1>2. CASE CodexStep
  BY <1>2, CodexLocal DEF Verified
<1>3. CASE UNCHANGED vars
  BY <1>3 DEF vars, Verified, MatchesRelease, ReleaseDecl
<1>4. QED
  BY <1>1, <1>2, <1>3 DEF Next

LEMMA SamePayload ==
  ASSUME NEW a \in Payloads, NEW b \in Payloads,
         a.decl = b.decl, a.code = b.code, a.rest = b.rest
  PROVE  a = b
  BY DEF Payloads

\* What an undisturbed pass is about to record is every hook of a payload in
\* which no declaration and no code differs from the release's, but for an
\* emptied registration and a deleted helper (reconcile_trust).
THEOREM UndisturbedPassVerifies == Spec => []VerifiedBeforeWrite
<1>1. TypeOK /\ Verified => VerifiedBeforeWrite
  <2> SUFFICES ASSUME TypeOK, Verified, NEW p \in Procs,
                      pc[p] \in {"write", "replace"},
                      quiet[p], Declared(hooks[p]) # {}
               PROVE  /\ hooks[p] = payload.decl
                      /\ \A k \in OwnKeys :
                            payload.decl[k] \in {ReleaseDecl[k], "emptied"}
                      /\ payload.code \in {"genuine", "lacking"}
                      /\ content[p] = payload
    BY DEF VerifiedBeforeWrite
  <2>1. fed[p] = 3
    BY DEF Verified
  <2>2. /\ hooks[p] = payload.decl
        /\ MatchesRelease(payload.decl)
        /\ payload.code \in {"genuine", "lacking"}
        /\ content[p].decl = payload.decl
        /\ content[p].code = payload.code
        /\ content[p].rest = payload.rest
    BY <2>1 DEF Verified
  <2>3. content[p] = payload
    <3>1. content[p] \in Payloads /\ payload \in Payloads
      BY DEF TypeOK
    <3>2. QED
      BY <2>2, <3>1, SamePayload
  <2>4. QED
    BY <2>2, <2>3 DEF MatchesRelease
<1>2. Spec => [](TypeOK /\ PairsFromRelease /\ Verified)
  BY InitTypeOK, StepTypeOK, InitPairs, StepPairs, InitVerified, StepVerified,
     PTL DEF Spec
<1>3. QED
  BY <1>1, <1>2, PTL
-----------------------------------------------------------------------------
(***************************************************************************)
(* The report of an undisturbed pass. Before the fetch a pass holds what   *)
(* the host has: the declarations, the tables and the parts hashed so far. *)
(* Beyond it there is a reason for the pass to have come that far, Codex   *)
(* does not trust the payload or it cannot be hashed, and that holds until *)
(* the pass writes.                                                        *)
(***************************************************************************)
OwnTables == [k \in OwnKeys |-> config[k]]

PastFetch == {"fetch", "compare", "files", "mismatch", "unfetched",
              "unverified", "hash", "write", "replace"}

HashedSoFar(p) ==
    /\ fed[p] >= 1 => content[p].decl = payload.decl
    /\ fed[p] >= 2 => content[p].code = payload.code
    /\ fed[p] >= 3 => content[p].rest = payload.rest /\ payload.rest # "odd"

Grounded(p) ==
    /\ pc[p] \in {"config", "status"} =>
          Readable(payload.decl) /\ hooks[p] = payload.decl
    /\ pc[p] = "status" =>
          recognized /\ recorded[p] = OwnTables /\ HashedSoFar(p)
    /\ pc[p] \in PastFetch =>
          /\ ~Trusted \/ payload.rest = "odd"
          /\ Readable(payload.decl) => recognized
    /\ pc[p] \in {"hash", "write", "replace"} =>
          /\ HashedSoFar(p)
          /\ Declared(hooks[p]) = {} => Declared(payload.decl) = {}
    /\ pc[p] = "replace" => recognized /\ text[p] = config

Reported(p) ==
    pc[p] = "idle" =>
        /\ result[p] = "ok" => recognized /\ Trusted
        /\ result[p] = "failed" =>
              ~recognized \/ ~Trusted \/ payload.rest = "odd"

ReportInv ==
    \A p \in Procs :
        /\ pc[p] \in {"idle", "config"} => fed[p] = 0
        /\ quiet[p] => Grounded(p) /\ Reported(p)

LEMMA InitReport == Init => ReportInv
  BY DEF Init, ReportInv, Grounded, Reported, PastFetch

\* What is said of the host stays so while the host does.
LEMMA SameHost ==
  ASSUME UNCHANGED <<payload, config, recognized>>
  PROVE  /\ Trusted' <=> Trusted
         /\ OwnTables' = OwnTables
         /\ Readable(payload.decl)' <=> Readable(payload.decl)
         /\ Declared(payload.decl)' = Declared(payload.decl)
  BY DEF Trusted, OwnTables

\* A pass that returns reports the truth when its outcome is true by then.
LEMMA ReturnReports ==
  ASSUME TypeOK, NEW p \in Procs, NEW outcome, Return(p, outcome),
         outcome = "ok" => recognized' /\ Trusted',
         outcome = "failed" =>
            ~recognized' \/ ~Trusted' \/ payload'.rest = "odd"
  PROVE  fed'[p] = 0 /\ Grounded(p)' /\ Reported(p)'
<1>1. pc'[p] = "idle" /\ result'[p] = outcome /\ fed'[p] = 0
  BY DEF Return, Goto, TypeOK
<1> QED BY <1>1 DEF Grounded, Reported, PastFetch

\* Without a declaration there is nothing to trust.
LEMMA NothingDeclared ==
  ASSUME Declared(payload.decl) = {}
  PROVE  Trusted /\ Readable(payload.decl)
  BY DEF Trusted, Covers, Declared, Readable

LEMMA HashIsPayload ==
  ASSUME TypeOK, NEW p \in Procs, fed[p] = 3, HashedSoFar(p)
  PROVE  content[p] = payload
<1>1. content[p] \in Payloads /\ payload \in Payloads
  BY DEF TypeOK
<1> QED BY <1>1, SamePayload DEF HashedSoFar

\* One more part of the payload is read.
LEMMA HashGoesOn ==
  ASSUME TypeOK, NEW p \in Procs, HashedSoFar(p), payload' = payload,
         \/ Feed(p, 0) /\ content' = [content EXCEPT ![p].decl = payload.decl]
         \/ Feed(p, 1) /\ content' = [content EXCEPT ![p].code = payload.code]
         \/ /\ payload.rest # "odd"
            /\ Feed(p, 2) /\ content' = [content EXCEPT ![p].rest = payload.rest]
  PROVE  HashedSoFar(p)'
<1>1. content[p] \in Payloads /\ fed \in [Procs -> 0..3] /\ content \in [Procs -> Payloads]
  BY DEF TypeOK
<1>2. CASE Feed(p, 0) /\ content' = [content EXCEPT ![p].decl = payload.decl]
  <2>1. fed'[p] = 1 /\ content'[p].decl = payload.decl
    BY <1>1, <1>2 DEF Feed, Payloads
  <2> QED BY <2>1 DEF HashedSoFar
<1>3. CASE Feed(p, 1) /\ content' = [content EXCEPT ![p].code = payload.code]
  <2>1. /\ fed[p] = 1 /\ fed'[p] = 2
        /\ content'[p].code = payload.code /\ content'[p].decl = content[p].decl
    BY <1>1, <1>3 DEF Feed, Payloads
  <2> QED BY <2>1 DEF HashedSoFar
<1>4. CASE /\ payload.rest # "odd"
           /\ Feed(p, 2) /\ content' = [content EXCEPT ![p].rest = payload.rest]
  <2>1. /\ fed[p] = 2 /\ fed'[p] = 3
        /\ content'[p].rest = payload.rest /\ content'[p].code = content[p].code
        /\ content'[p].decl = content[p].decl
    BY <1>1, <1>4 DEF Feed, Payloads
  <2> QED BY <1>4, <2>1 DEF HashedSoFar
<1> QED BY <1>2, <1>3, <1>4

\* A write of the installed declarations and of the whole hash leaves every
\* hook covered, those included whose tables needed no change.
LEMMA WriteTrusts ==
  ASSUME TypeOK, NEW p \in Procs,
         payload' = payload, Readable(payload.decl),
         hooks[p] = payload.decl, content[p] = payload,
         \/ Stale(p, config) = {} /\ config' = config
         \/ text[p] = config /\ config' = Rewritten(p)
  PROVE  Trusted'
<1>1. ASSUME NEW k \in Declared(payload.decl)
      PROVE  config'[k].decl = payload.decl[k] /\ config'[k].content = payload
  <2>1. k \in Keys /\ k \notin Obsolete(p) /\ k \in Declared(hooks[p])
    BY DEF Declared, Keys, Obsolete
  <2>2. CASE k \in Stale(p, config)
    <3>1. config'[k] = Record(p, k)
      BY <2>1, <2>2 DEF Rewritten
    <3> QED BY <3>1 DEF Record
  <2>3. CASE k \notin Stale(p, config)
    <3>1. config'[k] = config[k]
      BY <2>1, <2>3 DEF Rewritten
    <3> QED BY <2>1, <2>3, <3>1 DEF Stale
  <2> QED BY <2>2, <2>3
<1> QED BY <1>1 DEF Trusted, Covers

\* Another process changes neither what q has read nor, while q is
\* undisturbed, what q has read it from.
LEMMA StepAlone ==
  ASSUME TypeOK, NEW p \in Procs, PassStep(p) \/ Kill(p), NEW q \in Procs \ {p}
  PROVE  /\ recorded'[q] = recorded[q] /\ result'[q] = result[q]
         /\ quiet'[q] => config' = config /\ recognized' = recognized
<1>1. CASE ReadInstalled(p) \/ ReadRecords(p)
  BY <1>1 DEF ReadInstalled, ReadRecords, Return, Goto, hostVars, TypeOK
<1>2. CASE Fingerprint(p)
  BY <1>2 DEF Fingerprint, Feed, Return, Goto, hostVars, readVars, TypeOK
<1>3. CASE CompareRecords(p) \/ MatchDeclarations(p)
  BY <1>3 DEF CompareRecords, MatchDeclarations, Return, Goto, hostVars,
              readVars, TypeOK
<1>4. CASE FetchRelease(p)
  BY <1>4 DEF FetchRelease, Goto, hostVars, TypeOK
<1>5. CASE CompareFiles(p)
  BY <1>5 DEF CompareFiles, Return, Goto, hostVars, TypeOK
<1>6. CASE NameUnverified(p) \/ FinishHash(p)
  BY <1>6 DEF NameUnverified, FinishHash, Return, Goto, hostVars, readVars,
              TypeOK
<1>7. CASE ReadConfig(p) \/ ReplaceConfig(p)
  BY <1>7 DEF ReadConfig, ReplaceConfig, Return, Goto, hostVars, TypeOK
<1>8. CASE RefuseWrite(p) \/ Kill(p)
  BY <1>8 DEF RefuseWrite, Kill, Return, Goto, hostVars, TypeOK
<1> QED BY <1>1, <1>2, <1>3, <1>4, <1>5, <1>6, <1>7, <1>8 DEF PassStep

\* A step of the pass itself keeps it grounded, and what it returns is true.
LEMMA PassReports ==
  ASSUME TypeOK, PairsFromRelease, Verified, ReportInv,
         NEW p \in Procs, PassStep(p) \/ Kill(p)
  PROVE  /\ pc'[p] \in {"idle", "config"} => fed'[p] = 0
         /\ quiet'[p] => Grounded(p)' /\ Reported(p)'
<1>1. /\ pc[p] \in {"idle", "config"} => fed[p] = 0
      /\ quiet[p] => Grounded(p) /\ Reported(p)
  BY DEF ReportInv
<1>2. pc'[p] \in {"idle", "config"} => fed'[p] = 0
  <2>1. CASE ReadInstalled(p) \/ ReadRecords(p)
    BY <1>1, <2>1 DEF ReadInstalled, ReadRecords, Return, Goto, TypeOK
  <2>2. CASE ~(ReadInstalled(p) \/ ReadRecords(p))
    BY <2>2 DEF PassStep, Kill, Fingerprint, Feed, CompareRecords, FetchRelease,
      MatchDeclarations, CompareFiles, NameUnverified, FinishHash, ReadConfig,
      ReplaceConfig, RefuseWrite, Return, Goto, TypeOK
  <2> QED BY <2>1, <2>2
<1>3. CASE Kill(p)
  BY <1>2, <1>3, ReturnReports DEF Kill
<1>4. CASE ReadInstalled(p)
  <2>1. UNCHANGED <<payload, config, recognized>> /\ pc[p] = "idle"
    BY <1>4 DEF ReadInstalled, hostVars
  <2>2. CASE Readable(payload.decl)
    <3>1. pc'[p] = "config" /\ hooks'[p] = payload.decl
      BY <1>4, <2>2 DEF ReadInstalled, Goto, TypeOK
    <3> QED BY <1>2, <2>1, <2>2, <3>1 DEF Grounded, Reported, PastFetch
  <2>3. CASE ~Readable(payload.decl)
    <3>1. pc'[p] = "fetch"
      BY <1>4, <2>3 DEF ReadInstalled, Goto, TypeOK
    <3>2. ~Trusted'
      BY <2>1, <2>3 DEF Trusted
    <3> QED BY <1>2, <2>1, <2>3, <3>1, <3>2 DEF Grounded, Reported
  <2> QED BY <2>2, <2>3
<1>5. CASE ~ReadInstalled(p) /\ PassStep(p)
  <2> SUFFICES ASSUME quiet'[p] PROVE Grounded(p)' /\ Reported(p)'
    BY <1>2
  <2>1. quiet[p]
    BY <1>5 DEF PassStep, ReadRecords, Fingerprint, CompareRecords, FetchRelease,
      MatchDeclarations, CompareFiles, NameUnverified, FinishHash, ReadConfig,
      ReplaceConfig, RefuseWrite, TypeOK
  <2>2. Grounded(p) /\ Reported(p)
    BY <1>1, <2>1
  <2>3. CASE \/ ReplaceConfig(p)
             \/ ReadConfig(p) /\ Stale(p, config) = {} /\ Return(p, "ok")
    <3>1. /\ pc[p] \in {"write", "replace"} /\ payload' = payload
          /\ recognized' /\ Return(p, "ok")
      BY <2>3 DEF ReadConfig, ReplaceConfig, hostVars
    <3>2. fed[p] = 3
      BY <3>1 DEF Verified
    <3>3. HashedSoFar(p) /\ content[p] = payload
      BY <2>2, <3>1, <3>2, HashIsPayload DEF Grounded
    <3>4. Declared(hooks[p]) # {}
      <4>1. SUFFICES ASSUME Declared(hooks[p]) = {} PROVE FALSE
        OBVIOUS
      <4>2. Trusted
        BY <2>2, <3>1, <4>1, NothingDeclared DEF Grounded
      <4> QED BY <2>2, <3>1, <3>2, <3>3, <4>2 DEF Grounded, PastFetch, HashedSoFar
    <3>5. hooks[p] = payload.decl /\ Readable(payload.decl)
      <4>1. hooks[p] = payload.decl /\ MatchesRelease(payload.decl)
        BY <2>1, <3>1, <3>4 DEF Verified
      <4> QED BY <4>1 DEF MatchesRelease, ReleaseDecl, Readable
    <3>6. \/ Stale(p, config) = {} /\ config' = config
          \/ text[p] = config /\ config' = Rewritten(p)
      BY <2>2, <2>3 DEF ReadConfig, ReplaceConfig, hostVars, Grounded
    <3>7. Trusted'
      BY <3>1, <3>3, <3>5, <3>6, WriteTrusts
    <3> QED BY <3>1, <3>7, ReturnReports
  <2>4. ASSUME ~ReplaceConfig(p),
               ~(ReadConfig(p) /\ Stale(p, config) = {} /\ Return(p, "ok"))
        PROVE  Grounded(p)' /\ Reported(p)'
    <3>1. UNCHANGED <<payload, config, recognized>>
      BY <1>5, <2>4 DEF PassStep, ReadRecords, Fingerprint, CompareRecords,
        FetchRelease, MatchDeclarations, CompareFiles, NameUnverified, FinishHash,
        ReadConfig, RefuseWrite, hostVars
    <3>2. /\ Trusted' <=> Trusted
          /\ OwnTables' = OwnTables
      BY <3>1, SameHost
    <3>3. CASE ReadRecords(p)
      <4>1. CASE Return(p, "failed")
        BY <3>1, <3>3, <4>1, ReturnReports DEF ReadRecords, Return, Goto, TypeOK
      <4>2. CASE recognized /\ Goto(p, "status")
        <5>1. /\ pc[p] = "config" /\ pc'[p] = "status" /\ hooks'[p] = hooks[p]
              /\ fed'[p] = fed[p] /\ recorded'[p] = OwnTables
          BY <3>3, <4>2 DEF ReadRecords, Return, Goto, OwnTables, TypeOK
        <5> QED BY <1>1, <2>2, <3>1, <3>2, <4>2, <5>1
                DEF Grounded, Reported, HashedSoFar, PastFetch
      <4> QED BY <3>3, <4>1, <4>2 DEF ReadRecords
    <3>4. CASE Fingerprint(p)
      <4>1. CASE /\ pc' = pc /\ hooks' = hooks /\ recorded' = recorded
                 /\ \/ Feed(p, 0) /\ content' = [content EXCEPT ![p].decl = payload.decl]
                    \/ Feed(p, 1) /\ content' = [content EXCEPT ![p].code = payload.code]
                    \/ /\ payload.rest # "odd"
                       /\ Feed(p, 2) /\ content' = [content EXCEPT ![p].rest = payload.rest]
        <5>1. pc[p] \in {"status", "hash"}
          BY <3>4 DEF Fingerprint
        <5>2. HashedSoFar(p)'
          BY <2>2, <3>1, <4>1, <5>1, HashGoesOn DEF Grounded
        <5> QED BY <2>2, <3>1, <3>2, <4>1, <5>1, <5>2 DEF Grounded, Reported, PastFetch
      <4>2. CASE payload.rest = "odd" /\ Return(p, "failed")
        BY <3>1, <4>2, ReturnReports
      <4>3. CASE /\ payload.rest = "odd" /\ pc[p] = "status"
                 /\ Goto(p, "fetch") /\ UNCHANGED <<readVars, result>>
        <5>1. pc'[p] = "fetch"
          BY <4>3 DEF Goto, TypeOK
        <5> QED BY <2>2, <3>1, <4>3, <5>1 DEF Grounded, Reported
      <4> QED BY <3>4, <4>1, <4>2, <4>3 DEF Fingerprint, Feed
    <3>5. CASE CompareRecords(p)
      <4>1. /\ pc[p] = "status" /\ fed[p] = 3
            /\ recognized /\ Readable(payload.decl) /\ hooks[p] = payload.decl
            /\ recorded[p] = OwnTables /\ content[p] = payload
        BY <2>2, <3>5, HashIsPayload DEF CompareRecords, Grounded
      <4>2. Covers(recorded[p], hooks[p], content[p]) <=> Trusted
        BY <4>1 DEF Covers, Trusted, OwnTables, Declared
      <4>3. CASE Return(p, "ok") /\ Trusted
        BY <3>1, <3>2, <4>1, <4>3, ReturnReports
      <4>4. CASE Goto(p, "fetch") /\ ~Trusted
        <5>1. pc'[p] = "fetch"
          BY <4>4 DEF Goto, TypeOK
        <5> QED BY <3>1, <3>2, <4>1, <4>4, <5>1 DEF Grounded, Reported
      <4> QED BY <3>5, <4>2, <4>3, <4>4 DEF CompareRecords
    <3>6. CASE FetchRelease(p) \/ MatchDeclarations(p)
      <4>1. pc[p] \in PastFetch /\ pc'[p] \in PastFetch \ {"hash", "write", "replace"}
        BY <3>6 DEF FetchRelease, MatchDeclarations, Goto, PastFetch, TypeOK
      <4> QED BY <2>2, <3>1, <3>2, <4>1 DEF Grounded, Reported, PastFetch
    <3>7. CASE CompareFiles(p)
      <4>1. CASE Return(p, "killed")
        BY <4>1, ReturnReports
      <4>2. CASE pc[p] \in PastFetch /\ pc'[p] = "unverified"
        BY <2>2, <3>1, <3>2, <4>2 DEF Grounded, Reported, PastFetch
      <4>3. CASE pc[p] = "files" /\ Goto(p, "hash") /\ UNCHANGED <<hooks, fed>>
        <5>1. pc'[p] = "hash" /\ fed'[p] = 0
          BY <4>3 DEF Goto, Verified, TypeOK
        <5>2. hooks'[p] = payload.decl
          BY <2>1, <4>3 DEF Verified
        <5> QED BY <2>2, <3>1, <3>2, <4>3, <5>1, <5>2
                DEF Grounded, Reported, HashedSoFar, PastFetch
      <4> QED BY <3>7, <4>1, <4>2, <4>3 DEF CompareFiles, Goto, PastFetch, TypeOK
    <3>8. CASE NameUnverified(p)
      <4>1. ~Trusted \/ payload.rest = "odd"
        BY <2>2, <3>8 DEF NameUnverified, Grounded, PastFetch
      <4>2. CASE Return(p, "failed")
        BY <3>1, <3>2, <4>1, <4>2, ReturnReports
      <4>3. CASE Declared(payload.decl) = {} /\ Return(p, "ok")
        <5>1. recognized
          BY <2>2, <3>8, <4>3, NothingDeclared DEF NameUnverified, Grounded, PastFetch
        <5> QED BY <3>1, <3>2, <4>3, <5>1, NothingDeclared, ReturnReports
      <4>4. CASE /\ Declared(payload.decl) = {} /\ pc[p] = "unverified"
                 /\ Goto(p, "hash") /\ UNCHANGED <<readVars, result>>
        <5>1. pc'[p] = "hash" /\ fed'[p] = 0
          BY <4>4 DEF Goto, Verified, readVars, TypeOK
        <5> QED BY <2>2, <3>1, <3>2, <4>4, <5>1
                DEF Grounded, Reported, HashedSoFar, PastFetch
      <4> QED BY <3>8, <4>2, <4>3, <4>4 DEF NameUnverified
    <3>9. CASE FinishHash(p)
      <4>1. /\ pc[p] = "hash" /\ pc'[p] = "write"
            /\ UNCHANGED <<hooks, content, fed>>
        BY <3>9 DEF FinishHash, Goto, readVars, TypeOK
      <4> QED BY <2>2, <3>1, <3>2, <4>1 DEF Grounded, Reported, HashedSoFar, PastFetch
    <3>10. CASE RefuseWrite(p)
      <4>1. ~Trusted \/ payload.rest = "odd"
        BY <2>2, <3>10 DEF RefuseWrite, Grounded, PastFetch
      <4> QED BY <3>1, <3>2, <3>10, <4>1, ReturnReports DEF RefuseWrite
    <3>11. CASE ReadConfig(p)
      <4>1. /\ pc[p] = "write" /\ pc'[p] = "replace" /\ recognized
            /\ text'[p] = config /\ UNCHANGED <<hooks, content, fed>>
        BY <2>4, <3>11 DEF ReadConfig, Goto, TypeOK
      <4> QED BY <2>2, <3>1, <3>2, <4>1 DEF Grounded, Reported, HashedSoFar, PastFetch
    <3> QED BY <1>5, <2>4, <3>3, <3>4, <3>5, <3>6, <3>7, <3>8, <3>9, <3>10,
               <3>11 DEF PassStep
  <2> QED BY <2>3, <2>4
<1> QED BY <1>3, <1>4, <1>5

LEMMA StepReport ==
  TypeOK /\ PairsFromRelease /\ Verified /\ ReportInv /\ [Next]_vars => ReportInv'
<1> SUFFICES ASSUME TypeOK, PairsFromRelease, Verified, ReportInv, [Next]_vars
             PROVE  ReportInv'
  OBVIOUS
<1>1. ASSUME NEW p \in Procs, PassStep(p) \/ Kill(p) PROVE ReportInv'
  <2>1. ASSUME NEW q \in Procs \ {p}
        PROVE  /\ pc'[q] \in {"idle", "config"} => fed'[q] = 0
               /\ quiet'[q] => Grounded(q)' /\ Reported(q)'
    <3>1. /\ pc'[q] \in {"idle", "config"} => fed'[q] = 0
          /\ quiet[q] => Grounded(q) /\ Reported(q)
      BY <1>1, <2>1, StepLocal DEF ReportInv
    <3>2. ASSUME quiet'[q] PROVE Grounded(q)' /\ Reported(q)'
      <4>1. /\ quiet[q] /\ payload' = payload
            /\ pc'[q] = pc[q] /\ hooks'[q] = hooks[q] /\ content'[q] = content[q]
            /\ fed'[q] = fed[q] /\ text'[q] = text[q]
            /\ recorded'[q] = recorded[q] /\ result'[q] = result[q]
            /\ config' = config /\ recognized' = recognized
        BY <1>1, <2>1, <3>2, StepLocal, StepAlone
      <4>2. /\ Trusted' <=> Trusted
            /\ OwnTables' = OwnTables
        BY <4>1, SameHost
      <4>3. Grounded(q)'
        BY <3>1, <4>1, <4>2 DEF Grounded, HashedSoFar
      <4>4. Reported(q)'
        BY <3>1, <4>1, <4>2 DEF Reported
      <4> QED BY <4>3, <4>4
    <3> QED BY <3>1, <3>2
  <2>2. /\ pc'[p] \in {"idle", "config"} => fed'[p] = 0
        /\ quiet'[p] => Grounded(p)' /\ Reported(p)'
    BY <1>1, PassReports
  <2> QED BY <2>1, <2>2 DEF ReportInv
<1>2. CASE CodexStep
  BY <1>2, CodexLocal DEF ReportInv
<1>3. CASE UNCHANGED vars
  <2>1. /\ Trusted' <=> Trusted
        /\ OwnTables' = OwnTables
    BY <1>3, SameHost DEF vars
  <2>2. \A p \in Procs : (Grounded(p)' <=> Grounded(p)) /\ (Reported(p)' <=> Reported(p))
    BY <1>3, <2>1 DEF vars, Grounded, Reported, HashedSoFar
  <2> QED BY <1>3, <2>2 DEF vars, ReportInv
<1> QED BY <1>1, <1>2, <1>3 DEF Next

\* A pass that nobody disturbs reports the truth: no problem only if Codex
\* trusts every installed hook, a problem only if it does not or something could not
\* be read (trust_status, reconcile_trust).
THEOREM ReportsAreTrue == Spec => []ReportTrue
<1>1. ReportInv => ReportTrue
  BY DEF ReportInv, Reported, ReportTrue
<1>2. Spec => []ReportInv
  BY InitTypeOK, StepTypeOK, InitPairs, StepPairs, InitVerified, StepVerified,
     InitReport, StepReport, PTL DEF Spec
<1> QED BY <1>1, <1>2, PTL
=============================================================================
