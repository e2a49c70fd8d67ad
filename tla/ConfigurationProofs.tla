------------------------ MODULE ConfigurationProofs ------------------------
(***************************************************************************)
(* Proofs of the safety properties of Administration and of Readiness for  *)
(* every value of their constants: any requests, secrets, lines, agents    *)
(* and documents, and any deployment that the settings can describe.       *)
(*                                                                         *)
(* What the panel stores and what the process is configured with are       *)
(* different things: each part uses the definitions of its own component.  *)
(***************************************************************************)
EXTENDS Administration, Readiness, WellFoundedInduction, NaturalsInduction, TLAPS

-----------------------------------------------------------------------------
(* The inductive invariant                                                 *)

Inventories == [Resources -> {"absent", "on", "off"}]
Bodies == SettingsBodies \cup ProfileBodies \cup BindBodies

\* A request under way, by its kind.
Saves   == [kind : {"save"}, loaded : Rows \cup {NoRow}, stale : BOOLEAN]
Checks  == [kind : {"check"}, loaded : Rows, stale : BOOLEAN]
Fetches == [kind : {"fetched"}, fetched : Inventories]
Syncs   == [kind : {"sync"}, fetched : Inventories, loaded : Inventories, stale : BOOLEAN]
Updates == [kind : {"agent"}, agent : Agents, body : Bodies, loaded : AgentRows]

Underway == {Idle} \cup Saves \cup Checks \cup Fetches \cup Syncs \cup Updates

TypeOK ==
    /\ key \in Keys
    /\ setting \in Rows \cup {NoRow}
    /\ lines \in Inventories
    /\ agents \in [Agents -> AgentRows \cup {NoRow}]
    /\ request \in [Requests -> Underway]
    /\ begun \in Nat
    /\ accepted \in [config : Configs, secrets : Secrets] \cup {NoRow}
    /\ raced \in BOOLEAN
    /\ listed \in Inventories
    /\ crossed \in BOOLEAN

\* What a save or a check has loaded against what is in the row: a save that no
\* check overlapped still finds the status untested if it loaded it so, one that
\* could read the secrets it loaded can read those of the row; a check that no
\* save overlapped has tested the settings of the row.
LoadedInv ==
    \A r \in Requests :
      /\ request[r].kind = "save" /\ request[r].loaded.exists =>
           /\ setting.exists
           /\ request[r].loaded.key = key => setting.key = key
           /\ ~request[r].stale /\ request[r].loaded.status = "not_tested" =>
                setting.status = "not_tested"
      /\ request[r].kind = "check" =>
           /\ setting.exists
           /\ ~request[r].stale => Held(request[r].loaded) = Held(setting)

\* The status in the row, whether the process can read the secrets or not.
TestedInv ==
    setting.exists /\ setting.status = "configured" => accepted = Held(setting) \/ raced

\* What a sync has loaded against the rows: a sync that no other overlapped has
\* loaded the rows as they are, no row goes away, and an empty list is only
\* believed where there was no row.
SyncInv ==
    /\ \A r \in Requests :
         request[r].kind = "sync" =>
           /\ ~request[r].stale => request[r].loaded = lines
           /\ \A l \in Resources : request[r].loaded[l] # "absent" => lines[l] # "absent"
           /\ Empty(request[r].fetched) => Empty(request[r].loaded)
    /\ Empty(lines) => Empty(listed)
    /\ LinesAsListed

\* A request on an agent is about an agent that is there.
AgentInv ==
    \A r \in Requests : request[r].kind = "agent" => agents[request[r].agent] \in AgentRows

IInv == TypeOK /\ LoadedInv /\ TestedInv /\ SyncInv /\ AgentInv

-----------------------------------------------------------------------------
(* The initial states, and what the steps of a request do to the requests  *)

\* The invariant holds before the first request.
LEMMA InitIInv == Init => IInv
<1>1. SUFFICES ASSUME Init PROVE IInv
  OBVIOUS
<1>2. TypeOK
  BY <1>1 DEF Init, TypeOK, Inventories, Underway
<1>3. LoadedInv /\ SyncInv /\ AgentInv
  BY <1>1 DEF Init, LoadedInv, SyncInv, AgentInv, Idle, LinesAsListed
<1>4. TestedInv
  BY <1>1 DEF Init, TestedInv, NoRow
<1>5. QED
  BY <1>2, <1>3, <1>4 DEF IInv

USE DEF providerVars, lineVars

\* The kind of a request tells which one it is.
LEMMA KindTells ==
    ASSUME NEW q \in Underway
    PROVE  /\ q.kind = "save" => q \in Saves
           /\ q.kind = "check" => q \in Checks
           /\ q.kind = "fetched" => q \in Fetches
           /\ q.kind = "sync" => q \in Syncs
           /\ q.kind = "agent" => q \in Updates
  BY DEF Underway, Idle, Saves, Checks, Fetches, Syncs, Updates

\* A request that begins is the one that was given, and the others go on.
LEMMA BeginEffect ==
    ASSUME TypeOK, NEW r \in Requests, NEW q \in Underway, Begin(r, q)
    PROVE  /\ request' \in [Requests -> Underway] /\ begun' \in Nat
           /\ request[r] = Idle /\ request'[r] = q
           /\ \A p \in Requests \ {r} : request'[p] = request[p]
  BY DEF TypeOK, Begin

\* A request with the mark that it was overlapped.
LEMMA MarkedType ==
    ASSUME NEW q \in Underway, q.kind \in {"save", "check", "sync"}
    PROVE  /\ [q EXCEPT !.stale = TRUE] \in Underway
           /\ [q EXCEPT !.stale = TRUE].kind = q.kind
           /\ [q EXCEPT !.stale = TRUE].loaded = q.loaded
           /\ [q EXCEPT !.stale = TRUE].stale = TRUE
           /\ q.kind = "sync" => [q EXCEPT !.stale = TRUE].fetched = q.fetched
<1>1. CASE q.kind = "save"
  <2>1. q \in Saves
    BY <1>1, KindTells
  <2>2. [q EXCEPT !.stale = TRUE] \in Saves
    BY <2>1 DEF Saves
  <2>3. QED
    BY <1>1, <2>1, <2>2 DEF Saves, Underway
<1>2. CASE q.kind = "check"
  <2>1. q \in Checks
    BY <1>2, KindTells
  <2>2. [q EXCEPT !.stale = TRUE] \in Checks
    BY <2>1 DEF Checks
  <2>3. QED
    BY <1>2, <2>1, <2>2 DEF Checks, Underway
<1>3. CASE q.kind = "sync"
  <2>1. q \in Syncs
    BY <1>3, KindTells
  <2>2. [q EXCEPT !.stale = TRUE] \in Syncs
    BY <2>1 DEF Syncs
  <2>3. QED
    BY <1>3, <2>1, <2>2 DEF Syncs, Underway
<1>4. QED
  BY <1>1, <1>2, <1>3

\* A request that commits marks the ones it overlapped, and changes nothing else
\* of them.
LEMMA EndSeenEffect ==
    ASSUME TypeOK, NEW r \in Requests, NEW kinds \in SUBSET {"save", "check", "sync"}, EndSeen(r, kinds)
    PROVE  /\ request' \in [Requests -> Underway]
           /\ request'[r] = Idle
           /\ \A q \in Requests \ {r} :
                /\ request[q].kind \notin kinds => request'[q] = request[q]
                /\ request[q].kind \in kinds =>
                     /\ request'[q].kind = request[q].kind
                     /\ request'[q].loaded = request[q].loaded
                     /\ request'[q].stale
                     /\ request[q].kind = "sync" => request'[q].fetched = request[q].fetched
<1>1. request' = [q \in Requests |-> IF q = r THEN Idle
                    ELSE IF request[q].kind \in kinds THEN [request[q] EXCEPT !.stale = TRUE]
                    ELSE request[q]]
  BY DEF EndSeen
<1>2. \A q \in Requests : request[q] \in Underway
  BY DEF TypeOK
<1>3. Idle \in Underway
  BY DEF Underway
<1>4. ASSUME NEW q \in Requests, request[q].kind \in kinds
      PROVE  /\ [request[q] EXCEPT !.stale = TRUE] \in Underway
             /\ [request[q] EXCEPT !.stale = TRUE].kind = request[q].kind
             /\ [request[q] EXCEPT !.stale = TRUE].loaded = request[q].loaded
             /\ [request[q] EXCEPT !.stale = TRUE].stale = TRUE
             /\ request[q].kind = "sync" => [request[q] EXCEPT !.stale = TRUE].fetched = request[q].fetched
  BY <1>2, <1>4, MarkedType
<1>5. request' \in [Requests -> Underway]
  BY <1>1, <1>2, <1>3, <1>4
<1>6. QED
  BY <1>1, <1>4, <1>5

-----------------------------------------------------------------------------
(* The types                                                               *)

\* What a save writes is a row.
LEMMA SavedType ==
    ASSUME TypeOK, NEW loaded \in Rows \cup {NoRow}, NEW config \in Configs \cup {Keep},
           NEW secrets \in [Fields -> Values \cup {Keep, Unset}]
    PROVE  /\ Saved(loaded, config, secrets) \in Rows
           /\ Saved(loaded, config, secrets).exists
           /\ Saved(loaded, config, secrets).key = key
           /\ Saved(loaded, config, secrets).status = "not_tested"
<1> DEFINE known == IF loaded.exists /\ ~Locked(loaded) THEN loaded.secrets ELSE [f \in Fields |-> Unset]
           now == [f \in Fields |-> IF secrets[f] = Keep THEN known[f] ELSE secrets[f]]
           conf == IF config # Keep THEN config ELSE IF loaded.exists THEN loaded.config ELSE Default
<1>1. loaded.exists => loaded \in Rows
  BY DEF NoRow
<1>2. known \in Secrets
  BY <1>1 DEF Secrets, Rows
<1>3. now \in Secrets
  BY <1>2 DEF Secrets
<1>4. conf \in Configs
  BY <1>1, AdministrationAssumption DEF Rows
<1>5. Saved(loaded, config, secrets) =
        [exists |-> TRUE, config |-> conf, secrets |-> now, key |-> key, status |-> "not_tested"]
  BY DEF Saved
<1> HIDE DEF known, now, conf
<1>6. QED
  BY <1>3, <1>4, <1>5 DEF Rows, TypeOK

\* The row a save leaves: its own secrets and key, and a status that is the
\* current one only where the save has loaded it as untested.
LEMMA SaveEffect ==
    ASSUME TypeOK, NEW r \in Requests, SaveCommit(r)
    PROVE  /\ request[r] \in Saves
           /\ request[r].loaded.exists = setting.exists
           /\ setting' \in Rows /\ setting'.exists /\ setting'.key = key
           /\ \/ setting'.status = "not_tested"
              \/ /\ request[r].loaded.exists /\ request[r].loaded.status = "not_tested"
                 /\ setting'.status = setting.status
           /\ Locked(request[r].loaded) => \E f \in Fields : setting'.secrets[f] # Unset
<1> DEFINE loaded == request[r].loaded
<1>1. request[r] \in Saves /\ loaded \in Rows \cup {NoRow}
  BY KindTells DEF TypeOK, SaveCommit, Saves
<1>2. PICK config \in Configs \cup {Keep}, secrets \in [Fields -> Values \cup {Keep, Unset}] :
        /\ MaySave(loaded, secrets)
        /\ loaded.exists = setting.exists
        /\ setting' = IF ~loaded.exists THEN Saved(loaded, config, secrets)
                      ELSE [Saved(loaded, config, secrets) EXCEPT
                              !.config = Written(loaded.config, Saved(loaded, config, secrets).config, setting.config),
                              !.status = Written(loaded.status, Saved(loaded, config, secrets).status, setting.status)]
  BY DEF SaveCommit
<1> DEFINE row == Saved(loaded, config, secrets)
<1>3. row \in Rows /\ row.exists /\ row.key = key /\ row.status = "not_tested"
  BY <1>1, SavedType
<1>4. Locked(loaded) => \E f \in Fields : row.secrets[f] # Unset
  <2>1. SUFFICES ASSUME Locked(loaded) PROVE \E f \in Fields : row.secrets[f] # Unset
    OBVIOUS
  <2>2. PICK f \in Fields : secrets[f] \in Values
    BY <1>2, <2>1 DEF MaySave
  <2>3. row.secrets[f] = secrets[f]
    BY <2>2, AdministrationAssumption DEF Saved
  <2>4. QED
    BY <2>2, <2>3, AdministrationAssumption
<1> HIDE DEF row
<1>5. CASE ~loaded.exists
  BY <1>1, <1>2, <1>3, <1>4, <1>5 DEF row
<1>6. CASE loaded.exists
  <2>1. setting.exists
    BY <1>2, <1>6, Zenon
  <2>2. loaded \in Rows /\ setting \in Rows
    BY <1>1, <1>6, <2>1 DEF NoRow, TypeOK
  <2> DEFINE conf == Written(loaded.config, row.config, setting.config)
             stat == Written(loaded.status, row.status, setting.status)
  <2>3. conf \in Configs
    BY <1>3, <2>2 DEF Written, Rows
  <2>4. /\ stat \in {"not_tested", "configured", "invalid"}
        /\ stat = "not_tested" \/ (loaded.status = "not_tested" /\ stat = setting.status)
    BY <1>3, <2>2 DEF Written, Rows
  <2>5. setting' = [row EXCEPT !.config = conf, !.status = stat]
    BY <1>2, <1>6 DEF row
  <2> HIDE DEF conf, stat
  <2>6. setting' \in Rows /\ setting'.exists /\ setting'.key = key
        /\ setting'.status = stat /\ setting'.secrets = row.secrets
    BY <1>3, <2>3, <2>4, <2>5 DEF Rows
  <2>7. QED
    BY <1>1, <1>2, <1>4, <1>6, <2>4, <2>6
<1>7. QED
  BY <1>5, <1>6

\* A check changes the status of the row and nothing else of it.
LEMMA CheckEffect ==
    ASSUME TypeOK, LoadedInv, NEW r \in Requests, CheckCommit(r)
    PROVE  /\ request[r] \in Checks
           /\ setting \in Rows /\ setting' \in Rows
           /\ setting'.exists /\ setting'.key = setting.key /\ Held(setting') = Held(setting)
           /\ \/ accepted' = Held(request[r].loaded)
              \/ accepted' = accepted /\ setting'.status = "invalid"
              \/ /\ accepted' = accepted /\ setting'.status = setting.status
                 /\ raced => raced'
<1>1. request[r] \in Checks
  BY KindTells DEF TypeOK, CheckCommit
<1>2. setting \in Rows
  BY DEF LoadedInv, TypeOK, CheckCommit, NoRow
<1> DEFINE loaded == request[r].loaded
<1>3. PICK yes \in BOOLEAN :
        /\ setting' = [setting EXCEPT !.status =
               Written(loaded.status, IF yes THEN "configured" ELSE "invalid", setting.status)]
        /\ accepted' = IF yes THEN Held(loaded) ELSE accepted
        /\ raced' = (request[r].stale \/ (raced /\ ~yes /\ loaded.status = "invalid"))
  BY DEF CheckCommit, Answers
<1> DEFINE stat == Written(loaded.status, IF yes THEN "configured" ELSE "invalid", setting.status)
<1>4. stat \in {"not_tested", "configured", "invalid"}
  BY <1>2 DEF Written, Rows
<1>5. /\ setting' \in Rows /\ setting'.exists /\ setting'.key = setting.key
      /\ setting'.config = setting.config /\ setting'.secrets = setting.secrets
      /\ setting'.status = stat
  BY <1>2, <1>3, <1>4 DEF Rows
<1>6. Held(setting') = Held(setting)
  BY <1>5 DEF Held
<1>7. CASE yes
  BY <1>1, <1>2, <1>3, <1>5, <1>6, <1>7
<1>8. CASE ~yes
  BY <1>1, <1>2, <1>3, <1>5, <1>6, <1>8 DEF Written
<1>9. QED
  BY <1>7, <1>8

\* Every action keeps the types of the variables.
LEMMA TypeStep == TypeOK /\ LoadedInv /\ [Next]_vars => TypeOK'
<1>1. SUFFICES ASSUME TypeOK, LoadedInv, [Next]_vars PROVE TypeOK'
  OBVIOUS
<1> USE <1>1 DEF TypeOK
<1>2. CASE Restart
  BY <1>2 DEF Restart, Underway
<1>3. ASSUME NEW a \in Agents, AgentCreate(a) PROVE TypeOK'
  <2>1. \A active \in BOOLEAN : NewAgent(active) \in AgentRows
    <3>1. [d \in Docs |-> 0] \in [Docs -> 0..MaxBindings]
      BY AdministrationAssumption
    <3>2. QED
      BY <3>1 DEF NewAgent, AgentRows
  <2>2. PICK active \in BOOLEAN : agents' = [agents EXCEPT ![a] = NewAgent(active)]
    BY <1>3 DEF AgentCreate
  <2>3. agents' \in [Agents -> AgentRows \cup {NoRow}]
    BY <2>1, <2>2
  <2>4. QED
    BY <1>3, <2>3 DEF AgentCreate
<1>4. ASSUME NEW r \in Requests, RequestFails(r) PROVE TypeOK'
  BY <1>4 DEF RequestFails, End, Underway
<1>5. ASSUME NEW r \in Requests, SaveRead(r) PROVE TypeOK'
  <2>1. [kind |-> "save", loaded |-> setting, stale |-> FALSE] \in Underway
    BY DEF Underway, Saves
  <2>2. QED
    BY <1>5, <2>1, BeginEffect DEF SaveRead
<1>6. ASSUME NEW r \in Requests, SaveCommit(r) PROVE TypeOK'
  <2>1. request' \in [Requests -> Underway]
    BY <1>6, EndSeenEffect DEF SaveCommit
  <2>2. raced' \in BOOLEAN
    BY <1>6, SaveEffect DEF SaveCommit, Saves
  <2>3. QED
    BY <1>6, <2>1, <2>2, SaveEffect DEF SaveCommit
<1>7. ASSUME NEW r \in Requests, CheckRead(r) PROVE TypeOK'
  <2>1. setting \in Rows
    BY <1>7 DEF CheckRead, NoRow
  <2>2. [kind |-> "check", loaded |-> setting, stale |-> FALSE] \in Underway
    BY <2>1 DEF Underway, Checks
  <2>3. QED
    BY <1>7, <2>2, BeginEffect DEF CheckRead
<1>8. ASSUME NEW r \in Requests, CheckCommit(r) PROVE TypeOK'
  <2>1. request' \in [Requests -> Underway]
    BY <1>8, EndSeenEffect DEF CheckCommit
  <2>2. raced' \in BOOLEAN
    BY <1>8, CheckEffect DEF CheckCommit, Checks
  <2>3. request[r].loaded \in Rows
    BY <1>8, CheckEffect DEF Checks
  <2>4. accepted' \in [config : Configs, secrets : Secrets] \cup {NoRow}
    <3>1. Held(request[r].loaded) \in [config : Configs, secrets : Secrets]
      BY <2>3 DEF Held, Rows
    <3>2. QED
      BY <1>8, <3>1, CheckEffect
  <2>5. QED
    BY <1>8, <2>1, <2>2, <2>4, CheckEffect DEF CheckCommit
<1>9. ASSUME NEW r \in Requests, SyncFetch(r) PROVE TypeOK'
  <2>1. PICK fetched \in Inventories : Begin(r, [kind |-> "fetched", fetched |-> fetched])
    BY <1>9 DEF SyncFetch, Answered, Inventories
  <2>2. [kind |-> "fetched", fetched |-> fetched] \in Underway
    BY DEF Underway, Fetches
  <2>3. QED
    BY <1>9, <2>1, <2>2, BeginEffect DEF SyncFetch
<1>10. ASSUME NEW r \in Requests, SyncLoad(r) PROVE TypeOK'
  <2>1. request[r] \in Fetches
    BY <1>10, KindTells DEF SyncLoad
  <2>2. [kind |-> "sync", fetched |-> request[r].fetched, loaded |-> lines, stale |-> FALSE] \in Underway
    BY <2>1 DEF Underway, Syncs, Fetches
  <2>3. request' \in [Requests -> Underway]
    BY <1>10, <2>2 DEF SyncLoad
  <2>4. QED
    BY <1>10, <2>3 DEF SyncLoad
<1>11. ASSUME NEW r \in Requests, SyncCommit(r) PROVE TypeOK'
  <2>1. request[r] \in Syncs
    BY <1>11, KindTells DEF SyncCommit
  <2>2. request' \in [Requests -> Underway]
    BY <1>11, EndSeenEffect DEF SyncCommit
  <2>3. lines' \in Inventories /\ listed' \in Inventories
    BY <1>11, <2>1 DEF SyncCommit, Syncs, Inventories, Synced, Written
  <2>4. crossed' \in BOOLEAN
    BY <1>11, <2>1 DEF SyncCommit, Syncs
  <2>5. QED
    BY <1>11, <2>2, <2>3, <2>4 DEF SyncCommit
<1>12. ASSUME NEW r \in Requests, NEW a \in Agents, AgentRead(r, a) PROVE TypeOK'
  <2>1. agents[a] \in AgentRows
    BY <1>12 DEF AgentRead, NoRow
  <2>2. PICK body \in Bodies : Begin(r, [kind |-> "agent", agent |-> a, body |-> body, loaded |-> agents[a]])
    BY <1>12 DEF AgentRead, Bodies
  <2>3. [kind |-> "agent", agent |-> a, body |-> body, loaded |-> agents[a]] \in Underway
    BY <2>1 DEF Underway, Updates
  <2>4. QED
    BY <1>12, <2>2, <2>3, BeginEffect DEF AgentRead
<1>13. ASSUME NEW r \in Requests, AgentCommit(r) PROVE TypeOK'
  BY <1>13 DEF AgentCommit, End, Underway
<1>14. CASE UNCHANGED vars
  BY <1>14 DEF vars
<1> HIDE DEF TypeOK
<1>15. QED
  BY <1>1, <1>2, <1>3, <1>4, <1>5, <1>6, <1>7, <1>8, <1>9, <1>10, <1>11, <1>12, <1>13, <1>14, Zenon
     DEF Next

-----------------------------------------------------------------------------
(* The provider's settings                                                 *)

\* No save or check loses touch with the row without being marked.
LEMMA LoadedStep == TypeOK /\ LoadedInv /\ [Next]_vars => LoadedInv'
<1>1. SUFFICES ASSUME TypeOK, LoadedInv, [Next]_vars PROVE LoadedInv'
  OBVIOUS
<1> USE <1>1 DEF LoadedInv
<1>2. CASE Restart
  BY <1>2 DEF Restart, Idle
<1>3. ASSUME NEW a \in Agents, AgentCreate(a) PROVE LoadedInv'
  BY <1>3 DEF AgentCreate
<1>4. ASSUME NEW r \in Requests, RequestFails(r) PROVE LoadedInv'
  BY <1>4 DEF RequestFails, End, Idle, TypeOK
<1>5. ASSUME NEW r \in Requests, SaveRead(r) PROVE LoadedInv'
  <2>1. [kind |-> "save", loaded |-> setting, stale |-> FALSE] \in Underway
    BY DEF Underway, Saves, TypeOK
  <2>2. QED
    BY <1>5, <2>1, BeginEffect DEF SaveRead
<1>6. ASSUME NEW r \in Requests, SaveCommit(r) PROVE LoadedInv'
  <2>1. EndSeen(r, {"check"}) /\ UNCHANGED key
    BY <1>6 DEF SaveCommit
  <2>2. /\ request'[r] = Idle /\ Idle.kind = "idle"
        /\ \A q \in Requests \ {r} :
             /\ request'[q].kind = request[q].kind
             /\ request[q].kind = "save" => request'[q] = request[q]
             /\ request[q].kind = "check" => request'[q].stale
    BY <2>1, EndSeenEffect DEF Idle
  <2>3. setting'.exists /\ setting'.key = key
    BY <1>6, SaveEffect
  <2>4. ASSUME NEW q \in Requests, request[q].kind = "save", request[q].loaded.exists,
               ~request[q].stale, request[q].loaded.status = "not_tested"
        PROVE  setting'.status = "not_tested"
    BY <1>6, <2>4, SaveEffect
  <2>5. QED
    BY <2>1, <2>2, <2>3, <2>4
<1>7. ASSUME NEW r \in Requests, CheckRead(r) PROVE LoadedInv'
  <2>1. setting \in Rows /\ setting.exists
    BY <1>7 DEF CheckRead, NoRow, TypeOK
  <2>2. [kind |-> "check", loaded |-> setting, stale |-> FALSE] \in Underway
    BY <2>1 DEF Underway, Checks
  <2>3. QED
    BY <1>7, <2>1, <2>2, BeginEffect DEF CheckRead
<1>8. ASSUME NEW r \in Requests, CheckCommit(r) PROVE LoadedInv'
  <2>1. EndSeen(r, {"save"}) /\ UNCHANGED key
    BY <1>8 DEF CheckCommit
  <2>2. /\ request'[r] = Idle /\ Idle.kind = "idle"
        /\ \A q \in Requests \ {r} :
             /\ request'[q].kind = request[q].kind
             /\ request[q].kind = "save" => request'[q].loaded = request[q].loaded /\ request'[q].stale
             /\ request[q].kind = "check" => request'[q] = request[q]
    BY <2>1, EndSeenEffect DEF Idle
  <2>3. setting.exists /\ setting'.exists /\ setting'.key = setting.key /\ Held(setting') = Held(setting)
    BY <1>8, CheckEffect DEF Rows
  <2>4. QED
    BY <2>1, <2>2, <2>3
<1>9. ASSUME NEW r \in Requests, SyncFetch(r) PROVE LoadedInv'
  <2>1. PICK fetched \in Inventories : Begin(r, [kind |-> "fetched", fetched |-> fetched])
    BY <1>9 DEF SyncFetch, Answered, Inventories
  <2>2. [kind |-> "fetched", fetched |-> fetched] \in Underway
    BY DEF Underway, Fetches
  <2>3. QED
    BY <1>9, <2>1, <2>2, BeginEffect DEF SyncFetch
<1>10. ASSUME NEW r \in Requests, SyncLoad(r) PROVE LoadedInv'
  BY <1>10 DEF SyncLoad, TypeOK
<1>11. ASSUME NEW r \in Requests, SyncCommit(r) PROVE LoadedInv'
  <2>1. EndSeen(r, {"sync"}) /\ UNCHANGED <<key, setting>>
    BY <1>11 DEF SyncCommit
  <2>2. QED
    BY <2>1, EndSeenEffect DEF Idle
<1>12. ASSUME NEW r \in Requests, NEW a \in Agents, AgentRead(r, a) PROVE LoadedInv'
  <2>1. agents[a] \in AgentRows
    BY <1>12 DEF AgentRead, NoRow, TypeOK
  <2>2. PICK body \in Bodies : Begin(r, [kind |-> "agent", agent |-> a, body |-> body, loaded |-> agents[a]])
    BY <1>12 DEF AgentRead, Bodies
  <2>3. [kind |-> "agent", agent |-> a, body |-> body, loaded |-> agents[a]] \in Underway
    BY <2>1 DEF Underway, Updates
  <2>4. QED
    BY <1>12, <2>1, <2>2, <2>3, BeginEffect DEF AgentRead
<1>13. ASSUME NEW r \in Requests, AgentCommit(r) PROVE LoadedInv'
  BY <1>13 DEF AgentCommit, End, Idle, TypeOK
<1>14. CASE UNCHANGED vars
  BY <1>14 DEF vars
<1> HIDE DEF LoadedInv
<1>15. QED
  BY <1>1, <1>2, <1>3, <1>4, <1>5, <1>6, <1>7, <1>8, <1>9, <1>10, <1>11, <1>12, <1>13, <1>14, Zenon
     DEF Next

\* The status follows the settings.
LEMMA TestedStep == TypeOK /\ LoadedInv /\ TestedInv /\ [Next]_vars => TestedInv'
<1>1. SUFFICES ASSUME TypeOK, LoadedInv, TestedInv, [Next]_vars PROVE TestedInv'
  OBVIOUS
<1> USE <1>1 DEF TestedInv
<1>2. CASE Restart
  BY <1>2 DEF Restart
<1>3. ASSUME NEW a \in Agents, AgentCreate(a) PROVE TestedInv'
  BY <1>3 DEF AgentCreate
<1>4. ASSUME NEW r \in Requests, RequestFails(r) PROVE TestedInv'
  BY <1>4 DEF RequestFails
<1>5. ASSUME NEW r \in Requests, SaveRead(r) PROVE TestedInv'
  BY <1>5 DEF SaveRead
<1>6. ASSUME NEW r \in Requests, SaveCommit(r) PROVE TestedInv'
  <2>1. raced' = request[r].stale
    BY <1>6 DEF SaveCommit
  <2>2. ASSUME ~request[r].stale PROVE setting'.status # "configured"
    BY <1>6, <2>2, SaveEffect DEF LoadedInv, Saves
  <2>3. QED
    BY <2>1, <2>2
<1>7. ASSUME NEW r \in Requests, CheckRead(r) PROVE TestedInv'
  BY <1>7 DEF CheckRead
<1>8. ASSUME NEW r \in Requests, CheckCommit(r) PROVE TestedInv'
  <2>1. request[r].kind = "check" /\ (request[r].stale => raced')
    BY <1>8 DEF CheckCommit
  <2>2. ~request[r].stale => Held(request[r].loaded) = Held(setting)
    BY <2>1 DEF LoadedInv
  <2>3. CASE request[r].stale
    BY <2>1, <2>3
  <2>4. CASE ~request[r].stale
    <3>1. Held(request[r].loaded) = Held(setting) /\ setting.exists /\ Held(setting') = Held(setting)
      BY <1>8, <2>1, <2>2, <2>4, CheckEffect DEF LoadedInv
    <3>2. CASE accepted' = Held(request[r].loaded)
      BY <3>1, <3>2
    <3>3. CASE setting'.status = "invalid"
      BY <3>3
    <3>4. CASE accepted' = accepted /\ setting'.status = setting.status /\ (raced => raced')
      BY <3>1, <3>4
    <3>5. QED
      BY <1>8, <3>2, <3>3, <3>4, CheckEffect
  <2>5. QED
    BY <2>3, <2>4
<1>9. ASSUME NEW r \in Requests, SyncFetch(r) PROVE TestedInv'
  BY <1>9 DEF SyncFetch
<1>10. ASSUME NEW r \in Requests, SyncLoad(r) PROVE TestedInv'
  BY <1>10 DEF SyncLoad
<1>11. ASSUME NEW r \in Requests, SyncCommit(r) PROVE TestedInv'
  BY <1>11 DEF SyncCommit
<1>12. ASSUME NEW r \in Requests, NEW a \in Agents, AgentRead(r, a) PROVE TestedInv'
  BY <1>12 DEF AgentRead
<1>13. ASSUME NEW r \in Requests, AgentCommit(r) PROVE TestedInv'
  BY <1>13 DEF AgentCommit
<1>14. CASE UNCHANGED vars
  BY <1>14 DEF vars
<1> HIDE DEF TestedInv
<1>15. QED
  BY <1>1, <1>2, <1>3, <1>4, <1>5, <1>6, <1>7, <1>8, <1>9, <1>10, <1>11, <1>12, <1>13, <1>14, Zenon
     DEF Next

-----------------------------------------------------------------------------
(* The lines                                                               *)

\* A sync that no other overlapped leaves the lines as Mango listed them.
LEMMA SyncStep == TypeOK /\ SyncInv /\ [Next]_vars => SyncInv'
<1>1. SUFFICES ASSUME TypeOK, SyncInv, [Next]_vars PROVE SyncInv'
  OBVIOUS
<1> USE <1>1 DEF SyncInv, LinesAsListed
<1>2. CASE Restart
  BY <1>2 DEF Restart, LinesAsListed, Idle
<1>3. ASSUME NEW a \in Agents, AgentCreate(a) PROVE SyncInv'
  BY <1>3 DEF AgentCreate, LinesAsListed
<1>4. ASSUME NEW r \in Requests, RequestFails(r) PROVE SyncInv'
  BY <1>4 DEF RequestFails, LinesAsListed, End, Idle, TypeOK
<1>5. ASSUME NEW r \in Requests, SaveRead(r) PROVE SyncInv'
  <2>1. [kind |-> "save", loaded |-> setting, stale |-> FALSE] \in Underway
    BY DEF Underway, Saves, TypeOK
  <2>2. QED
    BY <1>5, <2>1, BeginEffect DEF SaveRead
<1>6. ASSUME NEW r \in Requests, SaveCommit(r) PROVE SyncInv'
  <2>1. EndSeen(r, {"check"}) /\ UNCHANGED <<lines, listed, crossed>>
    BY <1>6 DEF SaveCommit
  <2>2. QED
    BY <2>1, EndSeenEffect DEF Idle
<1>7. ASSUME NEW r \in Requests, CheckRead(r) PROVE SyncInv'
  <2>1. setting \in Rows
    BY <1>7 DEF CheckRead, NoRow, TypeOK
  <2>2. [kind |-> "check", loaded |-> setting, stale |-> FALSE] \in Underway
    BY <2>1 DEF Underway, Checks
  <2>3. QED
    BY <1>7, <2>2, BeginEffect DEF CheckRead
<1>8. ASSUME NEW r \in Requests, CheckCommit(r) PROVE SyncInv'
  <2>1. EndSeen(r, {"save"}) /\ UNCHANGED <<lines, listed, crossed>>
    BY <1>8 DEF CheckCommit
  <2>2. QED
    BY <2>1, EndSeenEffect DEF Idle
<1>9. ASSUME NEW r \in Requests, SyncFetch(r) PROVE SyncInv'
  <2>1. PICK fetched \in Inventories : Begin(r, [kind |-> "fetched", fetched |-> fetched])
    BY <1>9 DEF SyncFetch, Answered, Inventories
  <2>2. [kind |-> "fetched", fetched |-> fetched] \in Underway
    BY DEF Underway, Fetches
  <2>3. QED
    BY <1>9, <2>1, <2>2, BeginEffect DEF SyncFetch
<1>10. ASSUME NEW r \in Requests, SyncLoad(r) PROVE SyncInv'
  <2>1. request[r] \in Fetches
    BY <1>10, KindTells DEF SyncLoad, TypeOK
  <2>2. /\ request'[r] = [kind |-> "sync", fetched |-> request[r].fetched, loaded |-> lines, stale |-> FALSE]
        /\ \A q \in Requests \ {r} : request'[q] = request[q]
        /\ UNCHANGED <<lines, listed, crossed>>
    BY <1>10 DEF SyncLoad, TypeOK
  <2>3. Empty(request[r].fetched) => Empty(lines)
    BY <1>10 DEF SyncLoad, Believable
  <2>4. QED
    BY <2>2, <2>3
<1>11. ASSUME NEW r \in Requests, SyncCommit(r) PROVE SyncInv'
  <2> DEFINE fetched == request[r].fetched
             loaded == request[r].loaded
  <2>1. request[r] \in Syncs /\ fetched \in Inventories /\ loaded \in Inventories
    BY <1>11, KindTells DEF SyncCommit, TypeOK, Syncs
  <2>2. /\ lines' = [l \in Resources |-> Synced(fetched, loaded, l)]
        /\ listed' = IF Empty(fetched) THEN listed ELSE fetched
        /\ crossed' = request[r].stale
        /\ EndSeen(r, {"sync"})
    BY <1>11 DEF SyncCommit
  <2>3. /\ request'[r] = Idle /\ Idle.kind = "idle"
        /\ \A q \in Requests \ {r} :
             /\ request'[q].kind = request[q].kind
             /\ request[q].kind = "sync" => /\ request'[q].stale
                                            /\ request'[q].loaded = request[q].loaded
                                            /\ request'[q].fetched = request[q].fetched
    BY <2>2, EndSeenEffect DEF Idle
  <2>4. request[r].kind = "sync"
    BY <1>11 DEF SyncCommit
  <2>5. ASSUME NEW l \in Resources
        PROVE  /\ lines[l] # "absent" => lines'[l] # "absent"
               /\ fetched[l] # "absent" => lines'[l] # "absent"
    BY <2>1, <2>2, <2>4 DEF Synced, Written
  <2>6. Empty(lines') => Empty(listed')
    BY <2>2, <2>5 DEF Empty
  <2>7. ASSUME ~request[r].stale PROVE On(lines') = On(listed')
    <3>1. loaded = lines
      BY <2>4, <2>7
    <3>2. \A l \in Resources : lines'[l] = "on" <=> fetched[l] = "on"
      BY <2>1, <2>2, <3>1 DEF Synced, Written, Inventories
    <3>3. CASE Empty(fetched)
      <4>1. Empty(lines)
        BY <2>4, <3>1, <3>3
      <4>2. On(listed) = {}
        BY <4>1 DEF Empty, On
      <4>3. On(lines') = {}
        BY <3>2, <3>3 DEF Empty, On
      <4>4. QED
        BY <2>2, <3>3, <4>2, <4>3
    <3>4. CASE ~Empty(fetched)
      BY <2>2, <3>2, <3>4 DEF On
    <3>5. QED
      BY <3>3, <3>4
  <2>8. QED
    BY <2>2, <2>3, <2>5, <2>6, <2>7 DEF LinesAsListed
<1>12. ASSUME NEW r \in Requests, NEW a \in Agents, AgentRead(r, a) PROVE SyncInv'
  <2>1. agents[a] \in AgentRows
    BY <1>12 DEF AgentRead, NoRow, TypeOK
  <2>2. PICK body \in Bodies : Begin(r, [kind |-> "agent", agent |-> a, body |-> body, loaded |-> agents[a]])
    BY <1>12 DEF AgentRead, Bodies
  <2>3. [kind |-> "agent", agent |-> a, body |-> body, loaded |-> agents[a]] \in Underway
    BY <2>1 DEF Underway, Updates
  <2>4. QED
    BY <1>12, <2>1, <2>2, <2>3, BeginEffect DEF AgentRead
<1>13. ASSUME NEW r \in Requests, AgentCommit(r) PROVE SyncInv'
  BY <1>13 DEF AgentCommit, LinesAsListed, End, Idle, TypeOK
<1>14. CASE UNCHANGED vars
  BY <1>14 DEF vars, LinesAsListed
<1> HIDE DEF SyncInv
<1>15. QED
  BY <1>1, <1>2, <1>3, <1>4, <1>5, <1>6, <1>7, <1>8, <1>9, <1>10, <1>11, <1>12, <1>13, <1>14, Zenon
     DEF Next

-----------------------------------------------------------------------------
(* The agents                                                              *)

\* An agent that a request has read stays there.
LEMMA AgentStep == TypeOK /\ AgentInv /\ [Next]_vars => AgentInv'
<1>1. SUFFICES ASSUME TypeOK, AgentInv, [Next]_vars PROVE AgentInv'
  OBVIOUS
<1> USE <1>1 DEF AgentInv
<1>2. CASE Restart
  BY <1>2 DEF Restart, Idle
<1>3. ASSUME NEW a \in Agents, AgentCreate(a) PROVE AgentInv'
  <2>1. agents[a] \notin AgentRows
    BY <1>3 DEF AgentCreate, AgentRows
  <2>2. \A b \in Agents \ {a} : agents'[b] = agents[b]
    BY <1>3 DEF AgentCreate, TypeOK
  <2>3. \A r \in Requests : request[r].kind = "agent" => request[r].agent \in Agents
    BY KindTells DEF TypeOK, Updates
  <2>4. QED
    BY <1>3, <2>1, <2>2, <2>3 DEF AgentCreate
<1>4. ASSUME NEW r \in Requests, RequestFails(r) PROVE AgentInv'
  BY <1>4 DEF RequestFails, End, Idle, TypeOK
<1>5. ASSUME NEW r \in Requests, SaveRead(r) PROVE AgentInv'
  <2>1. [kind |-> "save", loaded |-> setting, stale |-> FALSE] \in Underway
    BY DEF Underway, Saves, TypeOK
  <2>2. QED
    BY <1>5, <2>1, BeginEffect DEF SaveRead
<1>6. ASSUME NEW r \in Requests, SaveCommit(r) PROVE AgentInv'
  <2>1. EndSeen(r, {"check"}) /\ UNCHANGED agents
    BY <1>6 DEF SaveCommit
  <2>2. QED
    BY <2>1, EndSeenEffect DEF Idle
<1>7. ASSUME NEW r \in Requests, CheckRead(r) PROVE AgentInv'
  <2>1. setting \in Rows
    BY <1>7 DEF CheckRead, NoRow, TypeOK
  <2>2. [kind |-> "check", loaded |-> setting, stale |-> FALSE] \in Underway
    BY <2>1 DEF Underway, Checks
  <2>3. QED
    BY <1>7, <2>2, BeginEffect DEF CheckRead
<1>8. ASSUME NEW r \in Requests, CheckCommit(r) PROVE AgentInv'
  <2>1. EndSeen(r, {"save"}) /\ UNCHANGED agents
    BY <1>8 DEF CheckCommit
  <2>2. QED
    BY <2>1, EndSeenEffect DEF Idle
<1>9. ASSUME NEW r \in Requests, SyncFetch(r) PROVE AgentInv'
  <2>1. PICK fetched \in Inventories : Begin(r, [kind |-> "fetched", fetched |-> fetched])
    BY <1>9 DEF SyncFetch, Answered, Inventories
  <2>2. [kind |-> "fetched", fetched |-> fetched] \in Underway
    BY DEF Underway, Fetches
  <2>3. QED
    BY <1>9, <2>1, <2>2, BeginEffect DEF SyncFetch
<1>10. ASSUME NEW r \in Requests, SyncLoad(r) PROVE AgentInv'
  BY <1>10 DEF SyncLoad, TypeOK
<1>11. ASSUME NEW r \in Requests, SyncCommit(r) PROVE AgentInv'
  <2>1. EndSeen(r, {"sync"}) /\ UNCHANGED agents
    BY <1>11 DEF SyncCommit
  <2>2. QED
    BY <2>1, EndSeenEffect DEF Idle
<1>12. ASSUME NEW r \in Requests, NEW a \in Agents, AgentRead(r, a) PROVE AgentInv'
  <2>1. agents[a] \in AgentRows
    BY <1>12 DEF AgentRead, NoRow, TypeOK
  <2>2. PICK body \in Bodies : Begin(r, [kind |-> "agent", agent |-> a, body |-> body, loaded |-> agents[a]])
    BY <1>12 DEF AgentRead, Bodies
  <2>3. [kind |-> "agent", agent |-> a, body |-> body, loaded |-> agents[a]] \in Underway
    BY <2>1 DEF Underway, Updates
  <2>4. QED
    BY <1>12, <2>1, <2>2, <2>3, BeginEffect DEF AgentRead
<1>13. ASSUME NEW r \in Requests, AgentCommit(r) PROVE AgentInv'
  <2>1. /\ request'[r] = Idle /\ Idle.kind = "idle"
        /\ \A q \in Requests \ {r} : request'[q] = request[q]
    BY <1>13 DEF AgentCommit, End, TypeOK, Idle
  <2>2. \A b \in Agents : agents'[b] = agents[b] \/ agents'[b] \in AgentRows
    BY <1>13 DEF AgentCommit, TypeOK
  <2>3. \A q \in Requests : request[q].kind = "agent" => request[q].agent \in Agents
    BY KindTells DEF TypeOK, Updates
  <2>4. QED
    BY <2>1, <2>2, <2>3
<1>14. CASE UNCHANGED vars
  BY <1>14 DEF vars
<1> HIDE DEF AgentInv
<1>15. QED
  BY <1>1, <1>2, <1>3, <1>4, <1>5, <1>6, <1>7, <1>8, <1>9, <1>10, <1>11, <1>12, <1>13, <1>14, Zenon
     DEF Next

\* The rows of a document after a commit: more only where the request binds it,
\* fewer only where it unbinds it.
LEMMA DocsAsAsked ==
    ASSUME NEW loaded, NEW body, NEW d \in Docs, NEW current \in Nat, loaded.docs[d] \in Nat
    PROVE  /\ DocAfter(loaded, body, d, current) > current =>
                body.bind = <<d, "bind">> \/ (body.docs # Keep /\ d \in body.docs)
           /\ DocAfter(loaded, body, d, current) < current =>
                body.bind = <<d, "unbind">> \/ (body.docs # Keep /\ d \notin body.docs)
<1> DEFINE now == DocAfter(loaded, body, d, current)
           Less(n) == IF current >= n THEN current - n ELSE 0
<1>1. \A n \in Nat : Less(n) \in Nat /\ Less(n) <= current
  OBVIOUS
<1> USE AdministrationAssumption
<1> HIDE DEF Less
<1>2. CASE body.bind = <<d, "bind">>
  BY <1>2 DEF DocAfter
<1>3. CASE body.bind # <<d, "bind">> /\ body.bind = <<d, "unbind">>
  <2>1. now = Less(1)
    BY <1>3 DEF DocAfter, Less
  <2>2. QED
    BY <1>1, <1>3, <2>1
<1>4. CASE /\ body.bind # <<d, "bind">> /\ body.bind # <<d, "unbind">>
           /\ body.bind = Keep /\ body.docs # Keep /\ d \in body.docs /\ loaded.docs[d] = 0
  BY <1>4 DEF DocAfter
<1>5. CASE /\ body.bind # <<d, "bind">> /\ body.bind # <<d, "unbind">>
           /\ body.bind = Keep /\ body.docs # Keep /\ d \notin body.docs
  <2>1. now = Less(loaded.docs[d])
    BY <1>5 DEF DocAfter, Less
  <2>2. QED
    BY <1>1, <1>5, <2>1
<1>6. CASE /\ body.bind # <<d, "bind">> /\ body.bind # <<d, "unbind">>
           /\ ~(body.bind = Keep /\ body.docs # Keep /\ d \in body.docs /\ loaded.docs[d] = 0)
           /\ ~(body.bind = Keep /\ body.docs # Keep /\ d \notin body.docs)
  <2>1. now = current
    BY <1>6 DEF DocAfter
  <2>2. QED
    BY <2>1
<1>7. QED
  BY <1>2, <1>3, <1>4, <1>5, <1>6

-----------------------------------------------------------------------------
(* Theorems                                                                *)

\* The inductive invariant: types, what saves and checks have loaded, the tested
\* status, what syncs have loaded, and agents that are there.
THEOREM Invariance == Spec => []IInv
<1>1. IInv /\ [Next]_vars => IInv'
  BY TypeStep, LoadedStep, TestedStep, SyncStep, AgentStep DEF IInv
<1>2. QED
  BY <1>1, InitIInv, PTL DEF Spec

\* Every variable of the administration keeps its type.
THEOREM TypeCorrect == Spec => []TypeOK
<1>1. IInv => TypeOK
  BY DEF IInv
<1>2. QED
  BY <1>1, Invariance, PTL

\* "configured" is shown only for settings the provider has accepted, unless a
\* save and a check overlapped (update_provider, validate_provider).
THEOREM ConfiguredTested == Spec => []ConfiguredIsTested
<1>1. IInv => ConfiguredIsTested
  BY DEF IInv, TestedInv, ConfiguredIsTested, Shown
<1>2. QED
  BY <1>1, Invariance, PTL

\* The active lines are the ones Mango listed last, unless two syncs overlapped
\* (sync_lines).
THEOREM LinesListed == Spec => []LinesAsListed
<1>1. IInv => LinesAsListed
  BY DEF IInv, SyncInv
<1>2. QED
  BY <1>1, Invariance, PTL

\* Secrets that the process cannot read are replaced only by one that is entered
\* (update_provider refuses anything else), also where the row was written under
\* another key after the save had loaded it.
THEOREM LockedSecretsStay == Spec => LockedUntilReentered
<1> DEFINE Reentered == Locked(setting) /\ setting'.key # setting.key =>
                          \E f \in Fields : setting'.secrets[f] # Unset
<1>1. ASSUME IInv, [Next]_vars PROVE Reentered
  <2>1. ASSUME NEW r \in Requests, SaveCommit(r) PROVE Reentered
    <3>1. SUFFICES ASSUME Locked(setting) PROVE Locked(request[r].loaded)
      BY <1>1, <2>1, SaveEffect DEF IInv
    <3>2. setting.exists /\ setting.key # key
      BY <3>1 DEF Locked
    <3>3. request[r].loaded.exists /\ request[r].kind = "save"
      BY <1>1, <2>1, <3>2, SaveEffect DEF IInv, SaveCommit
    <3>4. QED
      BY <1>1, <3>2, <3>3 DEF IInv, LoadedInv, Locked
  <2>2. ASSUME NEW r \in Requests, CheckCommit(r) PROVE Reentered
    BY <1>1, <2>2, CheckEffect DEF IInv
  <2>3. ASSUME UNCHANGED setting PROVE Reentered
    BY <2>3
  <2>4. ASSUME NEW r \in Requests,
               \/ RequestFails(r) \/ SaveRead(r) \/ CheckRead(r) \/ SyncFetch(r) \/ SyncLoad(r)
               \/ SyncCommit(r) \/ AgentCommit(r) \/ \E a \in Agents : AgentRead(r, a)
        PROVE  UNCHANGED setting
    BY <2>4 DEF RequestFails, SaveRead, CheckRead, SyncFetch, SyncLoad, SyncCommit, AgentCommit, AgentRead
  <2>5. ASSUME Restart \/ (\E a \in Agents : AgentCreate(a)) \/ UNCHANGED vars
        PROVE  UNCHANGED setting
    BY <2>5 DEF Restart, AgentCreate, vars
  <2> HIDE DEF Reentered
  <2>6. QED
    BY <1>1, <2>1, <2>2, <2>3, <2>4, <2>5, Zenon DEF Next
<1>2. QED
  BY <1>1, Invariance, PTL DEF Spec, LockedUntilReentered

\* What a commit does to an agent is what the request asked for, whatever was
\* committed since it had read the agent (update_settings, update_profile,
\* bind_document and their partial updates).
THEOREM AgentsAsAsked == Spec => AgentAsAsked
<1> DEFINE Asked(a, r) ==
             LET body == request[r].body
                 now  == agents'[a]
                 old  == agents[a]
             IN  /\ request[r].kind = "agent" /\ request[r].agent = a /\ request'[r] = Idle
                 /\ now.active \in {old.active, body.active}
                 /\ now.line \in {old.line, body.line}
                 /\ \A d \in Docs :
                      /\ now.docs[d] > old.docs[d] => body.bind = <<d, "bind">> \/ (body.docs # Keep /\ d \in body.docs)
                      /\ now.docs[d] < old.docs[d] => body.bind = <<d, "unbind">> \/ (body.docs # Keep /\ d \notin body.docs)
           AllAsked == \A a \in Agents : agents[a].exists /\ agents'[a] # agents[a] => \E r \in Requests : Asked(a, r)
<1>1. ASSUME IInv, [Next]_vars PROVE AllAsked
  <2>1. ASSUME NEW r \in Requests, AgentCommit(r) PROVE AllAsked
    <3> DEFINE q == request[r]
               a == q.agent
               body == q.body
               old == agents[a]
    <3>1. q \in Updates /\ a \in Agents /\ q.loaded \in AgentRows /\ old \in AgentRows /\ q.kind = "agent"
      BY <1>1, <2>1, KindTells DEF IInv, TypeOK, AgentInv, AgentCommit, Updates
    <3>2. agents' = [agents EXCEPT ![a] = AgentSaved(q.loaded, body, old)] /\ request'[r] = Idle
      BY <1>1, <2>1 DEF AgentCommit, End, IInv, TypeOK
    <3>3. agents'[a] = AgentSaved(q.loaded, body, old) /\ \A b \in Agents \ {a} : agents'[b] = agents[b]
      BY <1>1, <3>1, <3>2 DEF IInv, TypeOK
    <3> DEFINE Column(asked, was, now) == IF asked = Keep THEN now ELSE Written(was, asked, now)
    <3>4. /\ agents'[a].active = Column(body.active, q.loaded.active, old.active)
          /\ agents'[a].line = Column(body.line, q.loaded.line, old.line)
          /\ agents'[a].docs = [d \in Docs |-> DocAfter(q.loaded, body, d, old.docs[d])]
      BY <3>1, <3>3 DEF AgentSaved, AgentRows
    <3>5. agents'[a].active \in {old.active, body.active} /\ agents'[a].line \in {old.line, body.line}
      BY <3>4 DEF Written
    <3>6. ASSUME NEW d \in Docs
          PROVE  /\ agents'[a].docs[d] > old.docs[d] =>
                      body.bind = <<d, "bind">> \/ (body.docs # Keep /\ d \in body.docs)
                 /\ agents'[a].docs[d] < old.docs[d] =>
                      body.bind = <<d, "unbind">> \/ (body.docs # Keep /\ d \notin body.docs)
      <4>1. old.docs[d] \in Nat /\ q.loaded.docs[d] \in Nat
        <5>1. old.docs \in [Docs -> 0..MaxBindings] /\ q.loaded.docs \in [Docs -> 0..MaxBindings]
          BY <3>1 DEF AgentRows
        <5>2. QED
          BY <5>1, AdministrationAssumption
      <4>2. agents'[a].docs[d] = DocAfter(q.loaded, body, d, old.docs[d])
        BY <3>4
      <4>3. /\ DocAfter(q.loaded, body, d, old.docs[d]) > old.docs[d] =>
                 body.bind = <<d, "bind">> \/ (body.docs # Keep /\ d \in body.docs)
            /\ DocAfter(q.loaded, body, d, old.docs[d]) < old.docs[d] =>
                 body.bind = <<d, "unbind">> \/ (body.docs # Keep /\ d \notin body.docs)
        BY <4>1, DocsAsAsked, Zenon
      <4>4. QED
        BY <4>2, <4>3, Zenon
    <3>7. Asked(a, r)
      BY <3>1, <3>2, <3>5, <3>6
    <3> HIDE DEF Asked
    <3>8. QED
      BY <3>3, <3>7
  <2>2. ASSUME NEW a \in Agents, AgentCreate(a) PROVE AllAsked
    BY <1>1, <2>2 DEF AgentCreate, IInv, TypeOK
  <2>3. ASSUME UNCHANGED agents PROVE AllAsked
    BY <2>3
  <2>4. ASSUME NEW r \in Requests,
               \/ RequestFails(r) \/ SaveRead(r) \/ SaveCommit(r) \/ CheckRead(r) \/ CheckCommit(r)
               \/ SyncFetch(r) \/ SyncLoad(r) \/ SyncCommit(r) \/ \E a \in Agents : AgentRead(r, a)
        PROVE  UNCHANGED agents
    BY <2>4 DEF RequestFails, SaveRead, SaveCommit, CheckRead, CheckCommit, SyncFetch, SyncLoad, SyncCommit,
                AgentRead
  <2>5. ASSUME Restart \/ UNCHANGED vars PROVE UNCHANGED agents
    BY <2>5 DEF Restart, vars
  <2> HIDE DEF AllAsked
  <2>6. QED
    BY <1>1, <2>1, <2>2, <2>3, <2>4, <2>5, Zenon DEF Next
<1>2. QED
  BY <1>1, Invariance, PTL DEF Spec, AgentAsAsked

-----------------------------------------------------------------------------
(* Readiness: the judges of a deployment                                   *)

\* What the card advises leaves a deployment that the settings can describe.
LEMMA AdvisedTypes ==
    ASSUME settings \in Settings, NEW step, Advised(step)
    PROVE  settings' \in Settings
<1>1. CASE settings' = [settings EXCEPT !.api = TRUE]
  BY <1>1 DEF Settings
<1>2. CASE settings' = [settings EXCEPT !.backend = "vps"]
  BY <1>2 DEF Settings, Hosts
<1>3. CASE settings' = [settings EXCEPT !.hook = TRUE]
  BY <1>3 DEF Settings
<1>4. CASE \E e \in {"listed", "unlisted"} : settings' = [settings EXCEPT !.ext = e]
  BY <1>4 DEF Settings
<1>5. CASE settings' = [settings EXCEPT !.provider = "mango"]
  BY <1>5 DEF Settings
<1>6. CASE settings' = [settings EXCEPT !.gwOn = TRUE]
  BY <1>6 DEF Settings
<1>7. CASE settings' = [settings EXCEPT !.freeswitch = TRUE]
  BY <1>7 DEF Settings
<1>8. CASE \E m \in {"mock", "esl_rtp"} : settings' = [settings EXCEPT !.mode = m]
  BY <1>8 DEF Settings
<1>9. CASE \E h \in {"loop", "vps", "vpsIp", "far"} : settings' = [settings EXCEPT !.esl = h]
  BY <1>9 DEF Settings, Hosts
<1>10. CASE settings' = [settings EXCEPT !.password = TRUE]
  BY <1>10 DEF Settings
<1>11. CASE \E h \in {"vps", "far"} : settings' = [settings EXCEPT !.rtp = h]
  BY <1>11 DEF Settings, Hosts
<1>12. QED
  BY <1>1, <1>2, <1>3, <1>4, <1>5, <1>6, <1>7, <1>8, <1>9, <1>10, <1>11 DEF Advised

\* A real runtime is what the call path picks, too.
LEMMA RuntimePicked ==
    ASSUME NEW c \in Settings, c.gemini, TrunkConfigured(c), RuntimeReal(c), c.provider # "twilio"
    PROVE  DirectAdapter(c) = "mango"
<1>1. c.provider \in {"auto", "mango", "stub", "twilio"}
  BY DEF Settings
<1>2. c.provider = "stub" => c.env # "testing"
  BY <1>1 DEF RuntimeReal
<1>3. QED
  BY <1>1, <1>2 DEF DirectAdapter, Resolve, Registered, MangoRuntime

\* A green outbound card means that originate_call gets as far as dialling, or
\* that only the login's domain made it green.
LEMMA OutboundIsDialled ==
    ASSUME NEW c \in Settings, NEW x \in World, c.gemini, x.eslUp, c.provider # "twilio",
           OutboundReady(c, x)
    PROVE  /\ DirectAdapter(c) = "mango"
           /\ \/ Originates(c, x)
              \/ c.trunk = "realm" /\ (~c.api \/ RingsElsewhere(c, x))
<1>1. DirectAdapter(c) = "mango"
  BY RuntimePicked DEF OutboundReady
<1>2. c.trunk \in {"realm", "server"} /\ ResolveFromExt(c, x, c.ext) # "none"
  BY DEF OutboundReady, TrunkConfigured, FromExtFound, ResolveFromExt, Settings
<1>3. Originates(c, x) \/ (c.trunk = "realm" /\ (~c.api \/ RingsElsewhere(c, x)))
  BY <1>2 DEF Originates, DialsOverSip
<1>4. QED
  BY <1>1, <1>3

\* A route that is ready lacks nothing its card would list.
LEMMA GreenIsClear ==
    ASSUME NEW c \in Settings, NEW x \in World, NEW route \in Routes, RouteReady(route, c, x)
    PROVE  Blockers(route, c, x) = {}
<1>1. CASE route = "inbound_webhook"
  BY <1>1 DEF RouteReady, Blockers, RouteNeeds, WebhookNeeds, Missing, InboundWebhookReady
<1>2. CASE route = "outbound_originate"
  BY <1>2 DEF RouteReady, Blockers, RouteNeeds, Missing, OutboundReady
<1>3. CASE route = "inbound_ai_runtime"
  BY <1>3 DEF RouteReady, Blockers, RouteNeeds, WebhookNeeds, Missing, InboundWebhookReady,
     InboundAiReady
<1>4. QED
  BY <1>1, <1>2, <1>3 DEF Routes

\* A route that is not ready has something that its card tells the operator to clear.
LEMMA RedHasBlocker ==
    ASSUME NEW c \in Settings, NEW x \in World, NEW route \in Routes, c.gemini,
           c.api \/ ~TrunkConfigured(c), ~RouteReady(route, c, x)
    PROVE  Blockers(route, c, x) # {}
<1>1. SUFFICES \E r \in RouteNeeds(route) : Missing(r, c, x)
  BY DEF Blockers
<1>2. ~InboundWebhookReady(c, x) => \E r \in WebhookNeeds : Missing(r, c, x)
  <2>1. CASE ~c.api
    <3>1. Missing("mango_api_credentials_missing", c, x)
      BY <2>1 DEF Missing
    <3>2. QED
      BY <3>1 DEF WebhookNeeds
  <2>2. CASE ~c.hook
    <3>1. Missing("mango_webhook_secret_missing", c, x)
      BY <2>2 DEF Missing
    <3>2. QED
      BY <3>1 DEF WebhookNeeds
  <2>3. CASE ~IsRealHost(CardBackend(c, x))
    <3>1. Missing("backend_url_not_public", c, x)
      BY <2>3 DEF Missing
    <3>2. QED
      BY <3>1 DEF WebhookNeeds
  <2>4. QED
    BY <2>1, <2>2, <2>3 DEF InboundWebhookReady
<1>3. CASE route = "inbound_webhook"
  BY <1>2, <1>3 DEF RouteReady, RouteNeeds
<1>4. CASE route = "outbound_originate"
  <2>1. ~TrunkConfigured(c) \/ ~RuntimeReal(c) \/ ~FromExtFound(c, x)
    BY <1>4 DEF RouteReady, OutboundReady
  <2>2. \/ Missing("mango_sip_trunk_missing", c, x)
        \/ Missing("telephony_runtime_not_real", c, x)
        \/ Missing("mango_from_ext_missing", c, x)
    BY <2>1 DEF Missing
  <2>3. QED
    BY <1>4, <2>2 DEF RouteNeeds
<1>5. CASE route = "inbound_ai_runtime"
  <2>1. WebhookNeeds \subseteq RouteNeeds(route)
    BY <1>5 DEF RouteNeeds
  <2>2. CASE ~InboundWebhookReady(c, x)
    BY <1>2, <2>1, <2>2
  <2>3. CASE InboundWebhookReady(c, x)
    <3>1. \/ ~c.gwOn \/ ~c.freeswitch \/ c.mode \notin {"mock", "esl_rtp"}
          \/ ~LocalMediaSupported(c) \/ ~RealMediaHost(c, c.esl) \/ ~c.password
          \/ ~RealMediaHost(c, c.rtp)
      BY <1>5, <2>3 DEF RouteReady, InboundAiReady
    <3>2. CASE ~c.gwOn \/ ~c.freeswitch \/ c.mode \notin {"mock", "esl_rtp"}
      <4>1. \/ Missing("media_gateway_disabled", c, x)
            \/ Missing("media_gateway_provider_not_freeswitch", c, x)
            \/ Missing("media_gateway_mode_not_supported", c, x)
        BY <3>2 DEF Missing
      <4>2. QED
        BY <1>5, <4>1 DEF RouteNeeds
    <3>3. CASE c.gwOn /\ c.freeswitch /\ c.mode \in {"mock", "esl_rtp"} /\ ~LocalMediaSupported(c)
      <4>1. Missing("media_gateway_topology_not_supported", c, x)
        BY <3>3 DEF Missing, LocalMediaSupported
      <4>2. QED
        BY <1>5, <4>1 DEF RouteNeeds
    <3>4. CASE /\ c.gwOn /\ c.freeswitch /\ c.mode \in {"mock", "esl_rtp"}
               /\ ~RealMediaHost(c, c.esl) \/ ~c.password \/ ~RealMediaHost(c, c.rtp)
      <4>1. \/ Missing("freeswitch_esl_host_missing", c, x)
            \/ Missing("freeswitch_esl_password_missing", c, x)
            \/ Missing("freeswitch_rtp_ip_missing", c, x)
        BY <3>4 DEF Missing
      <4>2. QED
        BY <1>5, <4>1 DEF RouteNeeds
    <3>5. QED
      BY <3>1, <3>2, <3>3, <3>4
  <2>4. QED
    BY <2>2, <2>3
<1>6. QED
  BY <1>3, <1>4, <1>5 DEF Routes

\* A preflight that passes has no check that fails, or only warns.
LEMMA AllPass ==
    ASSUME NEW C, Worst(C) = "pass"
    PROVE  "fail" \notin C /\ "warn" \notin C
BY DEF Worst

\* What the checks of a preflight that passes say of the settings.
LEMMA PassedSettings ==
    ASSUME NEW c \in Settings, NEW x \in World, Preflight(c, x) = "pass"
    PROVE  /\ c.provider # "stub" /\ c.gemini /\ MangoRuntime(c) /\ c.ext # "none"
           /\ c.gwOn /\ c.freeswitch /\ c.mode = "esl_rtp" /\ LocalMediaSupported(c)
           /\ x.eslUp /\ Resolve(c, c.provider) \notin {"stub", "error"}
           /\ "fail" \notin VoiceChecks(c) /\ "warn" \notin VoiceChecks(c)
<1>1. PICK D : D = DirectConfigChecks(c, x) \cup AdapterChecks(c) \cup GatewayChecks(c, x)
  OBVIOUS
<1>2. "fail" \notin D /\ "warn" \notin D
  BY <1>1, AllPass DEF Preflight
<1>3. "fail" \notin VoiceChecks(c) /\ "warn" \notin VoiceChecks(c)
  BY <1>1, <1>2 DEF DirectConfigChecks
<1>4. /\ Need(c.provider # "stub") # "fail" /\ Need(c.gemini) # "fail" /\ Need(MangoRuntime(c)) # "fail"
      /\ Need(c.gwOn /\ c.freeswitch) # "fail" /\ Need(c.mode = "esl_rtp") # "fail"
      /\ Need(LocalMediaSupported(c)) # "fail"
  BY <1>1, <1>2 DEF DirectConfigChecks
<1>5. c.ext # "none"
  BY <1>1, <1>2 DEF DirectConfigChecks
<1>6. Need(c.gwOn /\ c.freeswitch => x.eslUp /\ c.mode = "esl_rtp") # "fail"
  BY <1>1, <1>2 DEF GatewayChecks
<1>7. Need(Resolve(c, c.provider) \notin {"stub", "error"}) # "fail"
  BY <1>1, <1>2 DEF AdapterChecks
<1>8. QED
  BY <1>3, <1>4, <1>5, <1>6, <1>7 DEF Need

\* Those settings take a call through every gate up to its conversation.
LEMMA PassStarts ==
    ASSUME NEW c \in Settings, NEW x \in World, Preflight(c, x) = "pass"
    PROVE  \/ CallStarts(c, x)
           \/ c.trunk = "realm" /\ ~c.api
           \/ c.trunk # "server" /\ RingsElsewhere(c, x)
<1>1. /\ c.provider # "stub" /\ c.gemini /\ MangoRuntime(c) /\ c.ext # "none"
      /\ c.gwOn /\ c.freeswitch /\ c.mode = "esl_rtp" /\ LocalMediaSupported(c)
      /\ x.eslUp /\ Resolve(c, c.provider) \notin {"stub", "error"}
      /\ "fail" \notin VoiceChecks(c) /\ "warn" \notin VoiceChecks(c)
  BY PassedSettings
<1>2. DirectAdapter(c) = "mango"
  BY <1>1 DEF DirectAdapter, Resolve, Registered
<1>3. StrategyAccepted(c)
  <2>1. c.strategy = "disabled" => VoiceChecks(c) = {"pass", "warn"}
    BY DEF VoiceChecks
  <2>2. QED
    BY <1>1, <2>1 DEF StrategyAccepted
<1>4. BridgeAttaches(c, x)
  BY <1>1 DEF BridgeAttaches
<1>5. \/ Originates(c, x)
      \/ c.trunk = "realm" /\ ~c.api
      \/ c.trunk # "server" /\ RingsElsewhere(c, x)
  BY <1>1 DEF Originates, DialsOverSip, ResolveFromExt, MangoRuntime, TrunkConfigured, Settings
<1>6. QED
  BY <1>2, <1>3, <1>4, <1>5 DEF CallStarts

\* What can keep a card red, but for the trunk, has a step of its own.
LEMMA EveryNeedHasStep ==
    ASSUME NEW route \in Routes, NEW r \in RouteNeeds(route), r # "mango_sip_trunk_missing"
    PROVE  \E i \in 1..12 : Priorities[i] = r
<1>1. RouteNeeds(route) \subseteq
        {"mango_sip_trunk_missing", "mango_api_credentials_missing", "backend_url_not_public",
         "mango_webhook_secret_missing", "mango_from_ext_missing", "telephony_runtime_not_real",
         "media_gateway_disabled", "media_gateway_provider_not_freeswitch",
         "media_gateway_mode_not_supported", "media_gateway_topology_not_supported",
         "freeswitch_esl_host_missing", "freeswitch_esl_password_missing",
         "freeswitch_rtp_ip_missing"}
  BY DEF Routes, RouteNeeds, WebhookNeeds
<1>2. /\ Priorities[1] = "mango_api_credentials_missing"
      /\ Priorities[2] = "backend_url_not_public"
      /\ Priorities[3] = "mango_webhook_secret_missing"
      /\ Priorities[4] = "mango_from_ext_missing"
      /\ Priorities[5] = "telephony_runtime_not_real"
      /\ Priorities[6] = "media_gateway_disabled"
      /\ Priorities[7] = "media_gateway_provider_not_freeswitch"
      /\ Priorities[8] = "media_gateway_mode_not_supported"
      /\ Priorities[9] = "media_gateway_topology_not_supported"
      /\ Priorities[10] = "freeswitch_esl_host_missing"
      /\ Priorities[11] = "freeswitch_esl_password_missing"
      /\ Priorities[12] = "freeswitch_rtp_ip_missing"
  BY DEF Priorities
<1>3. QED
  BY <1>1, <1>2

\* The first step that is wanted exists.
LEMMA FirstWanted ==
    ASSUME NEW S, S \subseteq 1..12, S # {}
    PROVE  (CHOOSE i \in S : \A j \in S : i <= j) \in 1..12
<1>1. IsWellFoundedOn(OpToRel(<, Nat), Nat)
  BY NatLessThanWellFounded
<1>2. S \subseteq Nat
  OBVIOUS
<1>3. PICK p \in S : \A q \in S : ~(<<q, p>> \in OpToRel(<, Nat))
  BY <1>1, <1>2, WFMin, Zenon
<1>4. \A q \in S : ~(q < p)
  BY <1>2, <1>3 DEF OpToRel
<1>5. \A q \in S : p <= q
  BY <1>2, <1>4
<1>6. QED
  BY <1>5

\* No step of the list is the fallback.
LEMMA StepIsNoFallback ==
    ASSUME NEW i \in 1..12
    PROVE  Priorities[i] # "review_blocked_cards"
BY DEF Priorities

\* Nothing on the list is missing only where every card is green.
LEMMA NoneWantedAllReady ==
    ASSUME NEW c \in Settings, NEW x \in World, c.gemini, TrunkConfigured(c), c.api,
           \A i \in 1..12 : ~Missing(Priorities[i], c, x)
    PROVE  AllReady(c, x)
<1>1. SUFFICES ASSUME NEW route \in Routes, ~RouteReady(route, c, x) PROVE FALSE
  BY DEF AllReady
<1>2. PICK r \in RouteNeeds(route) : Missing(r, c, x)
  BY <1>1, RedHasBlocker DEF Blockers
<1>3. r # "mango_sip_trunk_missing"
  BY <1>2 DEF Missing
<1>4. QED
  BY <1>1, <1>2, <1>3, EveryNeedHasStep

\* What the operator is advised to set is a value of the setting.
THEOREM ReadinessTypeCorrect == ReadinessSpec => []ReadinessTypeOK
<1>1. ReadinessInit => ReadinessTypeOK
  BY DeploymentsAssumption DEF ReadinessInit, ReadinessTypeOK
<1>2. ReadinessTypeOK /\ [ReadinessNext]_readinessVars => ReadinessTypeOK'
  BY AdvisedTypes DEF ReadinessTypeOK, ReadinessNext, FollowAdvice, readinessVars
<1>3. QED
  BY <1>1, <1>2, PTL DEF ReadinessSpec

\* The readiness cards agree with the call path, whatever the settings, what the
\* deployment finds around it and the advice that was followed: a green card dials,
\* and lists no blocker; a red one lists one.
THEOREM CardsAreTrue == ReadinessSpec => []CardIsTrue
<1>1. ReadinessTypeOK => CardIsTrue
  BY OutboundIsDialled, GreenIsClear, RedHasBlocker DEF ReadinessTypeOK, CardIsTrue
<1>2. QED
  BY <1>1, ReadinessTypeCorrect, PTL

\* A preflight that passes is followed by a call that starts, but for the extension's
\* target that only a deployment without a SIP trunk looks at.
THEOREM PreflightPredicts == ReadinessSpec => []PreflightPredictsCall
<1>1. ReadinessTypeOK => PreflightPredictsCall
  BY PassStarts DEF ReadinessTypeOK, PreflightPredictsCall
<1>2. QED
  BY <1>1, ReadinessTypeCorrect, PTL

\* The operator of a deployment with a trunk, the API's credentials and Gemini's key is
\* never told to look at the cards for himself: _build_actionable_next_step names a
\* requirement as long as a card is red.
THEOREM AdviceIsNeverOut == ReadinessSpec => []AdviceNeverRunsOut
<1>1. ASSUME NEW c \in Settings, NEW x \in World, c.gemini, TrunkConfigured(c), c.api
      PROVE  NextStep(c, x) # "review_blocked_cards"
  <2> DEFINE wanted == {i \in 1..12 : Missing(Priorities[i], c, x)}
             first == CHOOSE i \in wanted : \A j \in wanted : i <= j
  <2>1. NextStep(c, x) =
          IF wanted # {} THEN Priorities[first]
          ELSE IF AllReady(c, x) THEN "run_live_smoke" ELSE "review_blocked_cards"
    BY DEF NextStep
  <2>2. wanted = {} => AllReady(c, x)
    BY <1>1, NoneWantedAllReady
  <2>3. wanted # {} => first \in 1..12
    <3>1. wanted \subseteq 1..12
      OBVIOUS
    <3> HIDE DEF wanted
    <3>2. QED
      BY <3>1, FirstWanted
  <2> HIDE DEF wanted, first
  <2>4. QED
    BY <2>1, <2>2, <2>3, StepIsNoFallback
<1>2. ReadinessTypeOK => AdviceNeverRunsOut
  BY <1>1 DEF ReadinessTypeOK, AdviceNeverRunsOut
<1>3. QED
  BY <1>2, ReadinessTypeCorrect, PTL
=============================================================================
