---------------------------- MODULE Administration ----------------------------
(***************************************************************************)
(* The administration of the system over HTTP: the settings of an external *)
(* provider and their validation (provider_settings_service.py), the       *)
(* inventory of Mango's lines (mango_telephony_service.py), and the agents *)
(* with their line and their documents (agent_settings_service.py,         *)
(* agent_profile_service.py, knowledge_base_service.py).                   *)
(*                                                                         *)
(* A request is one database transaction: it reads its rows, it may ask a  *)
(* remote service, and it writes and commits.  No row is locked, and the   *)
(* isolation is READ COMMITTED, so requests overlap between the reading    *)
(* and the commit.  SQLAlchemy writes the columns whose value differs from *)
(* the one that was loaded, and no others.                                 *)
(*                                                                         *)
(* Left out: the columns nothing here depends on (names, prompts, version  *)
(* counters, is_enabled), documents' own editing, and lines of other       *)
(* numbers than the primary one, which the client filters away.            *)
(***************************************************************************)
EXTENDS Naturals, FiniteSets

CONSTANTS Requests,      \* requests that may be under way at one time
          Keys,          \* secrets a process may derive its encryption key from
          Configs,       \* values of a provider's configuration
          Default,       \* config_defaults, one of them
          Fields,        \* secret fields of a provider
          Required,      \* those in required_for_validation
          Values,        \* values of a secret
          Resources,     \* ids Mango may list the primary number under
          Agents,        \* agent profiles
          Docs,          \* active knowledge documents
          Keep,          \* a field that a request's body does not give
          Unset,         \* a secret that is not set
          MaxBindings,   \* bound: binding rows of one document
          MaxRequests    \* bound: requests begun in a behaviour

ASSUME AdministrationAssumption ==
    /\ Default \in Configs /\ Required \subseteq Fields
    /\ Unset \notin Values \cup {Keep}
    /\ Keep \notin Values \cup (Docs \X {"bind", "unbind"})
    /\ MaxBindings \in Nat \ {0} /\ MaxRequests \in Nat \ {0}

VARIABLES key,       \* the key of the running process
          setting,   \* the row of provider_settings, or NoRow
          lines,     \* the rows of telephony_lines, by resource id
          agents,    \* the rows of agent_profiles with their bindings
          request,   \* the requests under way
          begun,     \* how many were begun
          accepted,  \* history: the settings the provider accepted last
          raced,     \* history: the status was last written by a save and a check that overlapped
          listed,    \* history: what the sync that committed last was told
          crossed    \* history: that sync overlapped the commit of another

vars == <<key, setting, lines, agents, request, begun, accepted, raced, listed, crossed>>
providerVars == <<setting, accepted, raced>>
lineVars == <<lines, listed, crossed>>

NoRow == [exists |-> FALSE]
Idle == [kind |-> "idle"]

Secrets == [Fields -> Values \cup {Unset}]
Rows == [exists : {TRUE}, config : Configs, secrets : Secrets, key : Keys,
         status : {"not_tested", "configured", "invalid"}]
AgentRows == [exists : {TRUE}, active : BOOLEAN, line : Resources \cup {"none"},
              docs : [Docs -> 0..MaxBindings]]

On(inventory) == {l \in Resources : inventory[l] = "on"}
Empty(inventory) == \A l \in Resources : inventory[l] = "absent"

Init ==
    /\ key \in Keys
    /\ setting = NoRow
    /\ lines = [l \in Resources |-> "absent"]
    /\ agents = [a \in Agents |-> NoRow]
    /\ request = [r \in Requests |-> Idle]
    /\ begun = 0
    /\ accepted = NoRow /\ raced = FALSE
    /\ listed = lines /\ crossed = FALSE

\* A request is begun in an idle slot, and a slot is idle again after it.
Begin(r, req) ==
    /\ request[r] = Idle /\ begun < MaxRequests
    /\ request' = [request EXCEPT ![r] = req]
    /\ begun' = begun + 1

End(r) == request' = [request EXCEPT ![r] = Idle]

\* A request ends and those that overlap it through the same rows hear of it.
EndSeen(r, kinds) ==
    request' = [q \in Requests |->
        IF q = r THEN Idle
        ELSE IF request[q].kind \in kinds THEN [request[q] EXCEPT !.stale = TRUE]
        ELSE request[q]]

\* A column is written when it differs from what the request loaded.
Written(loaded, value, current) == IF value = loaded THEN current ELSE value

\* The transaction is rolled back: an unknown field, a row that is not there,
\* an insert that another request made first, the database.
RequestFails(r) ==
    /\ request[r] # Idle
    /\ End(r)
    /\ UNCHANGED <<key, agents, begun, providerVars, lineVars>>

\* The process is restarted, perhaps with another secret.
Restart ==
    /\ key' \in Keys
    /\ request' = [r \in Requests |-> Idle]
    /\ UNCHANGED <<agents, begun, providerVars, lineVars>>

-----------------------------------------------------------------------------
(* ProviderSettingsService *)

\* The settings a row holds, for a process that can read its secrets.
Held(row) == [config |-> row.config, secrets |-> row.secrets]

\* _decrypt_secrets raises.
Locked(row) == row.exists /\ row.key # key

\* _to_read.
Shown == IF ~setting.exists THEN "not_tested" ELSE IF Locked(setting) THEN "invalid" ELSE setting.status

\* _missing_required_fields.
Complete(row) == \A f \in Required : row.secrets[f] # Unset

\* get_by_provider; a check of what was never saved is refused.
SaveRead(r) ==
    /\ Begin(r, [kind |-> "save", loaded |-> setting, stale |-> FALSE])
    /\ UNCHANGED <<key, agents, providerVars, lineVars>>

CheckRead(r) ==
    /\ setting.exists
    /\ Begin(r, [kind |-> "check", loaded |-> setting, stale |-> FALSE])
    /\ UNCHANGED <<key, agents, providerVars, lineVars>>

\* update_provider: the row it writes over the one it loaded.
\* Mutant: the status stays.
SavedKeepsStatus(loaded, config, secrets) ==
    LET known == IF loaded.exists /\ ~Locked(loaded) THEN loaded.secrets ELSE [f \in Fields |-> Unset] IN
    [exists  |-> TRUE,
     config  |-> IF config # Keep THEN config ELSE IF loaded.exists THEN loaded.config ELSE Default,
     secrets |-> [f \in Fields |-> IF secrets[f] = Keep THEN known[f] ELSE secrets[f]],
     key     |-> key,
     status  |-> IF loaded.exists THEN loaded.status ELSE "not_tested"]

Saved(loaded, config, secrets) ==
    LET known == IF loaded.exists /\ ~Locked(loaded) THEN loaded.secrets ELSE [f \in Fields |-> Unset] IN
    [exists  |-> TRUE,
     config  |-> IF config # Keep THEN config ELSE IF loaded.exists THEN loaded.config ELSE Default,
     secrets |-> [f \in Fields |-> IF secrets[f] = Keep THEN known[f] ELSE secrets[f]],
     key     |-> key,
     status  |-> "not_tested"]

\* Mutant: secrets nobody can read need not be entered again.
MaySaveAnything(loaded, secrets) == TRUE

\* Secrets that cannot be read are replaced only by a secret that is entered.
MaySave(loaded, secrets) == Locked(loaded) => \E f \in Fields : secrets[f] \in Values

\* The body asks for a configuration or none, and for each secret to be kept, to
\* be removed, or to have a value.  The secrets are encrypted anew and written
\* always.
SaveCommit(r) ==
    /\ request[r].kind = "save"
    /\ LET loaded == request[r].loaded IN
       \E config \in Configs \cup {Keep}, secrets \in [Fields -> Values \cup {Keep, Unset}] :
         /\ MaySave(loaded, secrets)
         /\ loaded.exists = setting.exists
         /\ \E row \in {Saved(loaded, config, secrets)} :
              setting' = IF ~loaded.exists THEN row
                         ELSE [row EXCEPT
                                 !.config = Written(loaded.config, row.config, setting.config),
                                 !.status = Written(loaded.status, row.status, setting.status)]
    /\ raced' = request[r].stale
    /\ EndSeen(r, {"check"})
    /\ UNCHANGED <<key, agents, begun, accepted, lineVars>>

\* _run_validation: the provider is asked with the settings that were loaded,
\* and answers what it likes (Mango is not asked, and its answer is yes).
Answers == BOOLEAN

\* validate_provider.
CheckCommit(r) ==
    /\ request[r].kind = "check"
    /\ LET loaded == request[r].loaded IN
       \E yes \in Answers :
         /\ yes => ~Locked(loaded) /\ Complete(loaded)
         /\ setting' = [setting EXCEPT !.status =
                Written(loaded.status, IF yes THEN "configured" ELSE "invalid", @)]
         /\ accepted' = IF yes THEN Held(loaded) ELSE accepted
         \* a refusal that was loaded already is not written, and settles nothing
         /\ raced' = (request[r].stale \/ (raced /\ ~yes /\ loaded.status = "invalid"))
    /\ EndSeen(r, {"save"})
    /\ UNCHANGED <<key, agents, begun, lineVars>>

-----------------------------------------------------------------------------
(* MangoTelephonyService *)

\* What Mango may answer: it lists the number under an id, or another, or not at
\* all, and as active under one at most.
Answered == {i \in [Resources -> {"absent", "on", "off"}] : Cardinality(On(i)) <= 1}

\* MangoClient.list_lines.
SyncFetch(r) ==
    /\ \E fetched \in Answered : Begin(r, [kind |-> "fetched", fetched |-> fetched])
    /\ UNCHANGED <<key, agents, providerVars, lineVars>>

\* Mutant: an empty list is taken for an answer.
BelievableAlways(fetched) == TRUE

\* A list without a line is not believed while there are lines.
Believable(fetched) == Empty(fetched) => Empty(lines)

\* sync_lines reads the rows, and then asks for the extensions.
SyncLoad(r) ==
    /\ request[r].kind = "fetched"
    /\ Believable(request[r].fetched)
    /\ request' = [request EXCEPT ![r] = [kind |-> "sync", fetched |-> @.fetched, loaded |-> lines,
                                          stale |-> FALSE]]
    /\ UNCHANGED <<key, agents, begun, providerVars, lineVars>>

\* The line's row after the sync: listed lines are written as listed, lines
\* that are not listed any more are switched off.
Synced(fetched, loaded, l) ==
    IF fetched[l] # "absent" THEN Written(loaded[l], fetched[l], lines[l])
    ELSE IF loaded[l] = "on" THEN "off" ELSE lines[l]

SyncCommit(r) ==
    /\ request[r].kind = "sync"
    /\ LET fetched == request[r].fetched
           loaded  == request[r].loaded
       IN  \* the unique constraint on (provider, provider_resource_id)
           /\ \A l \in Resources : fetched[l] # "absent" /\ loaded[l] = "absent" => lines[l] = "absent"
           /\ lines' = [l \in Resources |-> Synced(fetched, loaded, l)]
           /\ listed' = IF Empty(fetched) THEN listed ELSE fetched
    /\ crossed' = request[r].stale
    /\ EndSeen(r, {"sync"})
    /\ UNCHANGED <<key, agents, begun, providerVars>>

-----------------------------------------------------------------------------
(* AgentProfileService, AgentSettingsService, KnowledgeBaseService *)

NewAgent(active) == [exists |-> TRUE, active |-> active, line |-> "none", docs |-> [d \in Docs |-> 0]]

\* create_profile.
AgentCreate(a) ==
    /\ ~agents[a].exists /\ begun < MaxRequests
    /\ begun' = begun + 1
    /\ \E active \in BOOLEAN : agents' = [agents EXCEPT ![a] = NewAgent(active)]
    /\ UNCHANGED <<key, request, providerVars, lineVars>>

\* What a request on an agent asks for; Keep is a field that is not given.
Body(active, line, docs, bind) == [active : active, line : line, docs : docs, bind : bind]

\* update_settings; update_profile and soft_delete_profile; bind_document and
\* unbind_document.
SettingsBodies ==
    Body(BOOLEAN \cup {Keep}, Resources \cup {"none", Keep}, (SUBSET Docs) \cup {Keep}, {Keep})
ProfileBodies == Body(BOOLEAN \cup {Keep}, {Keep}, {Keep}, {Keep})
BindBodies == Body({Keep}, {Keep}, {Keep}, Docs \X {"bind", "unbind"})

\* _apply_telephony_update: a line to be bound must be there and be active.
\* bind_document finds no binding, unbind_document finds one.
Admitted(a, body) ==
    /\ body.line \in Resources => lines[body.line] = "on"
    /\ \A d \in Docs : /\ body.bind = <<d, "bind">> => agents[a].docs[d] = 0
                       /\ body.bind = <<d, "unbind">> => agents[a].docs[d] > 0

AgentRead(r, a) ==
    /\ agents[a].exists
    /\ \E body \in SettingsBodies \cup ProfileBodies \cup BindBodies :
         /\ Admitted(a, body)
         /\ Begin(r, [kind |-> "agent", agent |-> a, body |-> body, loaded |-> agents[a]])
    /\ UNCHANGED <<key, agents, providerVars, lineVars>>

\* The rows that bind document d afterwards.  _replace_knowledge_bindings adds a
\* row where it loaded none and deletes the rows it loaded; rows another request
\* deleted first are gone already.
DocAfter(loaded, body, d, current) ==
    LET Less(n) == IF current >= n THEN current - n ELSE 0 IN
    CASE body.bind = <<d, "bind">>   -> current + 1
      [] body.bind = <<d, "unbind">> -> Less(1)
      [] body.bind = Keep /\ body.docs # Keep /\ d \in body.docs /\ loaded.docs[d] = 0 -> current + 1
      [] body.bind = Keep /\ body.docs # Keep /\ d \notin body.docs -> Less(loaded.docs[d])
      [] OTHER -> current

\* Mutant: every column is written back, whether it was changed or not.
AgentSavedWhole(loaded, body, current) ==
    [current EXCEPT !.active = IF body.active = Keep THEN loaded.active ELSE body.active,
                    !.line   = IF body.line = Keep THEN loaded.line ELSE body.line,
                    !.docs   = [d \in Docs |-> DocAfter(loaded, body, d, @[d])]]

AgentSaved(loaded, body, current) ==
    LET Column(asked, old, now) == IF asked = Keep THEN now ELSE Written(old, asked, now) IN
    [current EXCEPT !.active = Column(body.active, loaded.active, @),
                    !.line   = Column(body.line, loaded.line, @),
                    !.docs   = [d \in Docs |-> DocAfter(loaded, body, d, @[d])]]

AgentCommit(r) ==
    /\ request[r].kind = "agent"
    /\ LET q == request[r]
           row == AgentSaved(q.loaded, q.body, agents[q.agent])
       IN  /\ row \in AgentRows
           /\ agents' = [agents EXCEPT ![q.agent] = row]
    /\ End(r)
    /\ UNCHANGED <<key, begun, providerVars, lineVars>>

-----------------------------------------------------------------------------
Next ==
    \/ Restart
    \/ \E a \in Agents : AgentCreate(a)
    \/ \E r \in Requests :
         \/ RequestFails(r)
         \/ SaveRead(r)
         \/ SaveCommit(r)
         \/ CheckRead(r)
         \/ CheckCommit(r)
         \/ SyncFetch(r)
         \/ SyncLoad(r)
         \/ SyncCommit(r)
         \/ \E a \in Agents : AgentRead(r, a)
         \/ AgentCommit(r)

Spec == Init /\ [][Next]_vars
-----------------------------------------------------------------------------
(* Properties *)

\* "configured" is shown only for settings the provider has accepted: the status
\* of validate_provider is about the configuration and the secrets that are in
\* the row now and that the process can read, however saves, checks, failed
\* requests and changes of the encryption secret follow each other.  The one
\* exception is a save and a check of the same provider that overlapped.
ConfiguredIsTested == Shown = "configured" => accepted = Held(setting) \/ raced

\* "Confirm status changes to configured only after explicit validation"
\* (providers_settings.md): of what is stored.  Two requests that overlap leave the
\* verdict on one set of settings beside another.
ConfiguredOnlyTested == Shown = "configured" => accepted = Held(setting)

\* Secrets written under another encryption secret are not wiped behind the
\* operator's back: as long as nobody enters a secret, the ciphertext stays, and
\* with the former PROVIDER_SETTINGS_SECRET everything is readable again.
LockedUntilReentered ==
    [][Locked(setting) /\ setting'.key # setting.key => \E f \in Fields : setting'.secrets[f] # Unset]_vars

\* The active lines are the ones Mango named active when it last named any line,
\* whatever requests failed, answered nothing or were restarted since; so
\* get_active_by_phone_number never meets two rows of one number.  The exception
\* is a sync that committed between another's reading and its commit.
LinesAsListed == On(lines) = On(listed) \/ crossed

\* Two requests on one agent do not undo each other: after a commit each column
\* of the agent has the value it had, or the value that very request asked for,
\* so that a deleted agent is not brought back, and a line or a document is not
\* bound again, by an update of something else that had read the agent earlier.
AgentAsAsked ==
    [][\A a \in Agents : agents[a].exists /\ agents'[a] # agents[a] =>
         \E r \in Requests :
           LET body == request[r].body
               now  == agents'[a]
               old  == agents[a]
           IN  /\ request[r].kind = "agent" /\ request[r].agent = a /\ request'[r] = Idle
               /\ now.active \in {old.active, body.active}
               /\ now.line \in {old.line, body.line}
               /\ \A d \in Docs :
                    /\ now.docs[d] > old.docs[d] => body.bind = <<d, "bind">> \/ (body.docs # Keep /\ d \in body.docs)
                    /\ now.docs[d] < old.docs[d] => body.bind = <<d, "unbind">> \/ (body.docs # Keep /\ d \notin body.docs)]_vars
=============================================================================
