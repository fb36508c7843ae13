------------------------------- MODULE Tenancy -------------------------------
(***************************************************************************)
(* The tenants of a deployment: the bootstrap route, which makes the first *)
(* and only answers once with its credentials, and the operator's scripts, *)
(* which add a synthetic tenant, give accounts to an old one, issue a      *)
(* worker's token and reset a demonstration, one script at a time beside   *)
(* the requests.  Requests, scripts and their connections may die between  *)
(* any two steps.                                                          *)
(***************************************************************************)
EXTENDS Naturals, FiniteSets

CONSTANTS
    Callers,      \* bootstrap requests; each would make a tenant of its own
    Fictional,    \* the callers that leave the disclaimer as it is
    Expected,     \* the callers that leave the slug as it is
    Extra,        \* the tenant the script adds
    DemoLogin,    \* whether the deployment offers accounts
    Outs,         \* paths a worker's token is written to
    MaxMishaps,   \* crashes and failed calls
    MaxScripts    \* scripts run, and rotations

VARIABLES
    request,      \* where the request of a caller is
    answer,       \* the status it was answered with
    lock,         \* whose transaction holds the bootstrap lock
    tenants,      \* committed
    marker,       \* the marker on the evidence volume
    heard,        \* callers who have read their tokens
    accounts,     \* tenants with demonstration accounts
    rows,         \* tenants with business data
    token,        \* the worker's token of a tenant the database knows, by number
    kept,         \* the newest one that was in a file or in an answer that was read
    file,         \* at a path
    script,       \* the script that runs
    events,       \* resets recorded in the audit chain
    cleared,      \* resets whose transaction was committed
    robbed,       \* tenants that lost data to a reset of another
    mishaps, scripts

tenancyVars == <<request, answer, lock, tenants, marker, heard, accounts, rows, token, kept, file,
                 script, events, cleared, robbed, mishaps, scripts>>
requestVars == <<request, answer, lock, marker, heard>>
countVars == <<events, cleared, robbed>>

Tenants == Callers \cup {Extra}
Free == "free"
NoFile == [tenant |-> "none", token |-> 0]
Idle == [name |-> "none", step |-> "none", tenant |-> "none", seen |-> {}, out |-> "none", made |-> 0]
Synthetic(t) == t = Extra \/ t \in Fictional
TenancyAssumption ==
    /\ Fictional \subseteq Callers /\ Expected \subseteq Callers /\ Extra \notin Callers
    /\ DemoLogin \in BOOLEAN /\ MaxMishaps \in Nat /\ MaxScripts \in Nat
    /\ {Free, "none"} \cap Tenants = {} /\ "none" \notin Outs

Mishap == mishaps < MaxMishaps /\ mishaps' = mishaps + 1
Reply(c, status) == answer' = [answer EXCEPT ![c] = status] /\ request' = [request EXCEPT ![c] = "over"]
Proceed(c, to) == request' = [request EXCEPT ![c] = to] /\ UNCHANGED answer

-----------------------------------------------------------------------------
(* bootstrap.  Only the function that counts may see every tenant, and it  *)
(* counts under a lock that lasts until the end of the transaction.        *)

CreateTenantUnlocked(c) ==
    /\ request[c] = "idle"
    /\ IF tenants # {}
       THEN Reply(c, 409) /\ UNCHANGED lock
       ELSE Proceed(c, "created") /\ lock' = c
    /\ UNCHANGED <<tenants, marker, heard, accounts, rows, token, kept, file, script, countVars, mishaps, scripts>>
CreateTenant(c) ==
    /\ request[c] = "idle" /\ lock = Free
    /\ IF tenants # {}
       THEN Reply(c, 409) /\ UNCHANGED lock
       ELSE Proceed(c, "created") /\ lock' = c
    /\ UNCHANGED <<tenants, marker, heard, accounts, rows, token, kept, file, script, countVars, mishaps, scripts>>

(* Identities, the rule, the accounts if they are offered and the first    *)
(* event, under the credential just made; then the commit.                 *)
Committed(c) ==
    /\ tenants' = tenants \cup {c}
    /\ token' = [token EXCEPT ![c] = 1]
    /\ accounts' = IF DemoLogin THEN accounts \cup {c} ELSE accounts
    /\ lock' = Free

Commit(c) ==
    /\ request[c] = "created"
    /\ Committed(c) /\ Proceed(c, "committed")
    /\ UNCHANGED <<marker, heard, rows, kept, file, script, countVars, mishaps, scripts>>

CommitUnheard(c) ==
    /\ request[c] = "created" /\ Mishap
    /\ Committed(c) /\ Reply(c, 500)
    /\ UNCHANGED <<marker, heard, rows, kept, file, script, countVars, scripts>>

Rollback(c) ==
    /\ request[c] = "created" /\ Mishap
    /\ lock' = Free /\ Reply(c, 500)
    /\ UNCHANGED <<tenants, marker, heard, accounts, rows, token, kept, file, script, countVars, scripts>>

(* The volume is marked once there is a tenant; a failure is only logged,  *)
(* and a marker that is there already stays.                               *)
MarkFirst(c) ==
    /\ request[c] = "created" /\ marker' = TRUE
    /\ UNCHANGED <<request, answer, lock, tenants, heard, accounts, rows, token, kept, file, script, countVars, mishaps, scripts>>
WriteMarker(c) ==
    /\ request[c] = "committed"
    /\ Proceed(c, "marked")
    /\ \/ marker' = TRUE /\ UNCHANGED mishaps
       \/ Mishap /\ UNCHANGED marker
    /\ UNCHANGED <<lock, tenants, heard, accounts, rows, token, kept, file, script, countVars, scripts>>

(* The answer holds the only copy of the tokens.                           *)
AnswerTokens(c) ==
    /\ request[c] = "marked"
    /\ Reply(c, 201)
    /\ \/ heard' = heard \cup {c} /\ UNCHANGED mishaps
       \/ Mishap /\ UNCHANGED heard
    /\ UNCHANGED <<lock, tenants, marker, accounts, rows, token, kept, file, script, countVars, scripts>>

CrashApi ==
    /\ Mishap
    /\ \E c \in Callers : request[c] \notin {"idle", "over"}
    /\ request' = [c \in Callers |-> IF request[c] = "idle" THEN "idle" ELSE "over"]
    /\ lock' = Free
    /\ UNCHANGED <<answer, tenants, marker, heard, accounts, rows, token, kept, file, script, countVars, scripts>>

(* The users of a tenant: somebody who holds its tokens or its password.   *)
Import(t) ==
    /\ t \in tenants \ rows
    /\ t \in heard \cup accounts
    /\ rows' = rows \cup {t}
    /\ UNCHANGED <<requestVars, tenants, accounts, token, kept, file, script, countVars, mishaps, scripts>>

(* An administrator replaces the worker's token; the answer has the only   *)
(* copy of the new one.                                                    *)
RotateCredential(t) ==
    /\ t \in tenants \cap (heard \cup accounts)
    /\ scripts < MaxScripts /\ scripts' = scripts + 1
    /\ token' = [token EXCEPT ![t] = @ + 1]
    /\ \/ kept' = [kept EXCEPT ![t] = token'[t]] /\ UNCHANGED mishaps
       \/ Mishap /\ UNCHANGED kept
    /\ UNCHANGED <<requestVars, tenants, accounts, rows, file, script, countVars>>

-----------------------------------------------------------------------------
(* Scripts.                                                                *)

StartsWith(name, t, out) ==
    /\ script = Idle /\ scripts < MaxScripts
    /\ scripts' = scripts + 1
    /\ script' = [name |-> name, step |-> "checked", tenant |-> t, seen |-> rows, out |-> out, made |-> 0]
Starts(name, t) == StartsWith(name, t, "none")
ScriptAt(name, step) == script.name = name /\ script.step = step
Then(step) == script' = [script EXCEPT !.step = step]
Exits == script' = Idle

TheDemonstration(t) == tenants = {t} /\ t \in Expected      \* one tenant, under the expected slug

(* A check that fails ends a script before it has changed anything.        *)
ProvisionTenant ==
    /\ Extra \notin tenants /\ Starts("provision", Extra)
    /\ UNCHANGED <<requestVars, tenants, accounts, rows, token, kept, file, countVars, mishaps>>
ProvisionCommits ==
    /\ ScriptAt("provision", "checked")
    /\ tenants' = tenants \cup {Extra} /\ accounts' = accounts \cup {Extra}
    /\ token' = [token EXCEPT ![Extra] = 1]
    /\ Then("committed")
    /\ UNCHANGED <<requestVars, rows, kept, file, countVars, mishaps, scripts>>
ProvisionVerifies ==        \* and fails, over what it has committed, if somebody was faster
    /\ ScriptAt("provision", "committed")
    /\ Exits
    /\ UNCHANGED <<requestVars, tenants, accounts, rows, token, kept, file, countVars, mishaps, scripts>>

ProvisionLogin(t) ==
    /\ DemoLogin /\ TheDemonstration(t) /\ Starts("login", t)
    /\ UNCHANGED <<requestVars, tenants, accounts, rows, token, kept, file, countVars, mishaps>>
LoginCommits ==
    /\ ScriptAt("login", "checked")
    /\ accounts' = accounts \cup {script.tenant} /\ Exits
    /\ UNCHANGED <<requestVars, tenants, rows, token, kept, file, countVars, mishaps, scripts>>

(* The new token replaces the old one before it is written anywhere.  A    *)
(* path that is taken is refused; the same tenant's file at another is no  *)
(* obstacle.                                                               *)
IssueToken(t, out) ==
    /\ t \in tenants /\ Synthetic(t) /\ file[out] = NoFile
    /\ StartsWith("issue", t, out)
    /\ UNCHANGED <<requestVars, tenants, accounts, rows, token, kept, file, countVars, mishaps>>
IssueUpdates ==
    /\ ScriptAt("issue", "checked")
    /\ token' = [token EXCEPT ![script.tenant] = @ + 1]
    /\ script' = [script EXCEPT !.step = "updated", !.made = token[script.tenant] + 1]
    /\ UNCHANGED <<requestVars, tenants, accounts, rows, kept, file, countVars, mishaps, scripts>>
IssueWrites ==
    /\ ScriptAt("issue", "updated")
    /\ file' = [file EXCEPT ![script.out] = [tenant |-> script.tenant, token |-> script.made]]
    /\ kept' = [kept EXCEPT ![script.tenant] = IF @ < script.made THEN script.made ELSE @]
    /\ Exits
    /\ UNCHANGED <<requestVars, tenants, accounts, rows, token, countVars, mishaps, scripts>>
RemoveFile(out) ==          \* the operator has moved it to where it belongs
    /\ file[out] # NoFile
    /\ file' = [file EXCEPT ![out] = NoFile]
    /\ UNCHANGED <<requestVars, tenants, accounts, rows, token, kept, script, countVars, mishaps, scripts>>

-----------------------------------------------------------------------------
(* demo-reset: all tables where one tenant is all there is, or the rows of *)
(* one tenant that says it is fictional.                                   *)

ResetAllUnguarded(t) ==
    /\ t \in tenants \cap Expected /\ Starts("resetAll", t)
    /\ UNCHANGED <<requestVars, tenants, accounts, rows, token, kept, file, countVars, mishaps>>
ResetAll(t) ==
    /\ TheDemonstration(t) /\ Starts("resetAll", t)
    /\ UNCHANGED <<requestVars, tenants, accounts, rows, token, kept, file, countVars, mishaps>>
ResetOne(t) ==
    /\ t \in tenants /\ Synthetic(t) /\ Starts("resetOne", t)
    /\ UNCHANGED <<requestVars, tenants, accounts, rows, token, kept, file, countVars, mishaps>>

ResetCommits ==
    /\ script.name \in {"resetAll", "resetOne"} /\ script.step = "checked"
    /\ rows' = IF script.name = "resetAll" THEN {} ELSE rows \ {script.tenant}
    /\ robbed' = robbed \cup ((rows \ rows') \ {script.tenant})
    /\ cleared' = cleared + 1
    /\ Then("cleared")
    /\ UNCHANGED <<requestVars, tenants, accounts, token, kept, file, events, mishaps, scripts>>
(* No transaction spans the two principals: what is recorded is done.      *)
ResetRecords ==
    /\ script.name \in {"resetAll", "resetOne"} /\ script.step = "cleared"
    /\ events' = events + 1 /\ Then("recorded")
    /\ UNCHANGED <<requestVars, tenants, accounts, rows, token, kept, file, cleared, robbed, mishaps, scripts>>
(* Of other tenants the scoped mode compares the counts of the rows it had *)
(* counted before, so it fails too if their users added to them meanwhile; *)
(* the other mode looks for packaging only.                                *)
CountedOfOthers == script.seen \ {script.tenant}
ResetVerifies ==
    /\ script.name \in {"resetAll", "resetOne"} /\ script.step = "recorded"
    /\ \/ /\ script.tenant \in rows \/ (script.name = "resetOne" /\ CountedOfOthers # {})
          /\ Then("failed")
       \/ /\ script.name = "resetOne" => script.tenant \notin rows /\ CountedOfOthers \subseteq rows
          /\ Then("passed")
    /\ UNCHANGED <<requestVars, tenants, accounts, rows, token, kept, file, countVars, mishaps, scripts>>
ResetExits ==
    /\ script.step \in {"failed", "passed"} /\ Exits
    /\ UNCHANGED <<requestVars, tenants, accounts, rows, token, kept, file, countVars, mishaps, scripts>>

(* A query, a connection, the disk or the process: what was not committed  *)
(* is rolled back, and the rest stays.                                     *)
ScriptDies ==
    /\ script # Idle /\ Mishap /\ Exits
    /\ UNCHANGED <<requestVars, tenants, accounts, rows, token, kept, file, countVars, scripts>>

-----------------------------------------------------------------------------
Init ==
    /\ request = [c \in Callers |-> "idle"] /\ answer = [c \in Callers |-> 0]
    /\ lock = Free /\ tenants = {} /\ marker = FALSE /\ heard = {} /\ accounts = {} /\ rows = {}
    /\ token = [t \in Tenants |-> 0] /\ kept = [t \in Tenants |-> 0] /\ file = [out \in Outs |-> NoFile]
    /\ script = Idle /\ events = 0 /\ cleared = 0 /\ robbed = {} /\ mishaps = 0 /\ scripts = 0

Next ==
    \/ CrashApi \/ ProvisionTenant \/ ProvisionCommits \/ ProvisionVerifies \/ LoginCommits
    \/ IssueUpdates \/ IssueWrites \/ ResetCommits \/ ResetRecords \/ ResetVerifies \/ ResetExits \/ ScriptDies
    \/ \E c \in Callers : CreateTenant(c) \/ Commit(c) \/ CommitUnheard(c) \/ Rollback(c)
                          \/ WriteMarker(c) \/ AnswerTokens(c)
    \/ \E t \in Tenants : \/ Import(t) \/ RotateCredential(t) \/ ProvisionLogin(t) \/ ResetAll(t) \/ ResetOne(t)
                          \/ \E out \in Outs : IssueToken(t, out)
    \/ \E out \in Outs : RemoveFile(out)

Spec == Init /\ [][Next]_tenancyVars

-----------------------------------------------------------------------------
Bootstrapped == tenants \cap Callers

(* One bootstrap succeeds; its caller is told so and nobody else is, a     *)
(* refusal means somebody's tenant is there, the volume is marked only for *)
(* a tenant that exists, and nobody is left without credentials or without *)
(* the marker but by a failure.                                            *)
OneBootstrap ==
    /\ Cardinality(Bootstrapped) <= 1
    /\ \A c \in Callers : /\ answer[c] = 201 => c \in tenants
                          /\ answer[c] = 409 => tenants # {}
                          /\ answer[c] \in {409, 500} => c \notin heard
    /\ marker => Bootstrapped # {}
    /\ (mishaps = 0) => \A c \in Bootstrapped : request[c] = "over" => c \in heard /\ marker

(* A reset clears the tenant it was asked to clear and no other, and every *)
(* one that was committed is in the audit chain or was cut short by a      *)
(* failure.  A worker's file never holds a token that was not issued to    *)
(* that tenant, and the token the database knows was handed to somebody,   *)
(* in whatever order scripts and rotations replaced it, but for a failure  *)
(* between the two; an older one may well be left in another file.         *)
ScriptsAreTrue ==
    /\ robbed = {}
    /\ events <= cleared
    /\ cleared - events <= mishaps + (IF script.step = "cleared" THEN 1 ELSE 0)
    /\ script.step = "passed" => events > 0 /\ script.tenant \in tenants
    /\ \A out \in Outs : file[out] # NoFile => /\ file[out].tenant \in tenants
                                               /\ file[out].token <= token[file[out].tenant]
    /\ \A t \in Tenants : mishaps = 0 /\ token[t] > 1
                            => kept[t] = token[t] \/ (script.tenant = t /\ script.made = token[t])
=============================================================================
