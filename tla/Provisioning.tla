----------------------------- MODULE Provisioning -----------------------------
(***************************************************************************)
(* Preparing the database: the migrations in their order, each in a        *)
(* transaction of its own, then the principals, one statement at a time    *)
(* and each statement committed by itself.  Several runs may overlap, any  *)
(* of them may end anywhere, and an operator changes roles in between.     *)
(***************************************************************************)
EXTENDS Integers, FiniteSets

CONSTANTS
    Runs,          \* runs of prepareRuntime
    Passwords,     \* what the environment of a run may hold: role -> password, "" for none
    Required,      \* the principals that must have one
    Last,          \* the number of migrations
    MaxTampering   \* changes by operators

VARIABLES
    at,            \* where a run is
    env,           \* its environment
    migration,     \* the migration it has come to
    open,          \* the run whose transaction holds the schema's locks
    applied,       \* migrations recorded
    schema,        \* how often the statements of a migration are in effect
    roles,         \* pg_roles: [login, password, config, limit, expired]
    member,        \* whether a principal is a member of some role
    current,       \* the role a run is at
    lapses,        \* logins granted over settings nobody had cleared
    overlapped,    \* runs since whose beginning somebody else has changed a role
    tampered

provisioningVars == <<at, env, migration, open, applied, schema, roles, member, current, lapses, overlapped, tampered>>
migrationVars == <<migration, open, applied, schema>>
roleVars == <<roles, member, lapses, overlapped>>

Principals == DOMAIN CHOOSE e \in Passwords : TRUE
None == ""
Unlimited == -1
ProvisioningAssumption ==
    /\ Passwords # {} /\ \A e \in Passwords : DOMAIN e = Principals
    /\ Required \subseteq Principals /\ Last \in Nat /\ MaxTampering \in Nat

Ended == {"idle", "failed", "done"}
Goto(r, step) == at' = [at EXCEPT ![r] = step]
Configured(r) == {p \in Principals : env[r][p] # None}

-----------------------------------------------------------------------------
(* The environment is judged before anything is touched.                   *)

Short(password) == password = "short"
Acceptable(e) ==
    /\ \A p \in Required : e[p] # None
    /\ \A p \in Principals : ~Short(e[p])
    /\ \A p, q \in Principals : e[p] = e[q] /\ e[p] # None => p = q

Begin(r) ==
    /\ at[r] = "idle"
    /\ \E e \in Passwords :
         /\ env' = [env EXCEPT ![r] = e]
         /\ IF Acceptable(e) THEN Goto(r, "migrating") ELSE Goto(r, "failed")
    /\ UNCHANGED <<migrationVars, current, roleVars, tampered>>

-----------------------------------------------------------------------------
(* migrate.                                                                *)

Skip(r) ==
    /\ at[r] = "migrating" /\ migration[r] <= Last
    /\ migration[r] \in applied
    /\ migration' = [migration EXCEPT ![r] = @ + 1]
    /\ UNCHANGED <<at, env, open, applied, schema, current, roleVars, tampered>>

Missing(r) ==
    /\ at[r] = "migrating" /\ migration[r] <= Last
    /\ migration[r] \notin applied
    /\ Goto(r, "missing")
    /\ UNCHANGED <<env, migrationVars, current, roleVars, tampered>>

(* The statements wait for the locks of a transaction that runs the same   *)
(* ones; the name is the key that a second transaction cannot insert, and  *)
(* its failure undoes the statements.                                      *)
NoRun == "none"
RunStatements(r) ==
    /\ at[r] = "missing" /\ open = NoRun
    /\ open' = r /\ Goto(r, "run")
    /\ UNCHANGED <<env, migration, applied, schema, current, roleVars, tampered>>

RecordWithoutKey(r) ==
    /\ at[r] = "run"
    /\ applied' = applied \cup {migration[r]} /\ open' = NoRun
    /\ schema' = [schema EXCEPT ![migration[r]] = @ + 1]
    /\ migration' = [migration EXCEPT ![r] = @ + 1]
    /\ Goto(r, "migrating")
    /\ UNCHANGED <<env, current, roleVars, tampered>>
Record(r) ==
    /\ at[r] = "run" /\ migration[r] \notin applied
    /\ applied' = applied \cup {migration[r]} /\ open' = NoRun
    /\ schema' = [schema EXCEPT ![migration[r]] = @ + 1]
    /\ migration' = [migration EXCEPT ![r] = @ + 1]
    /\ Goto(r, "migrating")
    /\ UNCHANGED <<env, current, roleVars, tampered>>

(* A statement fails, the key is taken, the connection or the process ends.*)
Undo(r) ==
    /\ at[r] = "run"
    /\ open' = NoRun /\ Goto(r, "failed")
    /\ UNCHANGED <<env, migration, applied, schema, current, roleVars, tampered>>

Migrated(r) ==
    /\ at[r] = "migrating" /\ migration[r] > Last
    /\ Goto(r, "retiring")
    /\ UNCHANGED <<env, migrationVars, current, roleVars, tampered>>

-----------------------------------------------------------------------------
(* prepareRuntime.                                                         *)

Begun == {r \in Runs : at[r] # "idle"}
Touches(r) == overlapped' = overlapped \cup (Begun \ {r})

Unseen(r) == (Principals \ Configured(r)) \ current[r].done

(* A principal without a password may not keep an old one.                 *)
RetireSkipped(r) ==
    /\ at[r] = "retiring" /\ Unseen(r) # {}
    /\ \E p \in Unseen(r) : current' = [current EXCEPT ![r].done = @ \cup {p}]
    /\ UNCHANGED <<at, env, migrationVars, roleVars, tampered>>
Retire(r) ==
    /\ at[r] = "retiring"
    /\ \E p \in Unseen(r) :
         /\ current' = [current EXCEPT ![r].done = @ \cup {p}]
         /\ IF roles[p].login
            THEN roles' = [roles EXCEPT ![p].login = FALSE, ![p].password = None] /\ Touches(r)
            ELSE UNCHANGED <<roles, overlapped>>
    /\ UNCHANGED <<at, env, migrationVars, member, lapses, tampered>>

Retired(r) ==
    /\ at[r] = "retiring" /\ Unseen(r) = {}
    /\ Goto(r, "choosing")
    /\ UNCHANGED <<env, migrationVars, current, roleVars, tampered>>

ChooseGranting(r) ==       \* the credential before what it would inherit
    /\ at[r] = "choosing"
    /\ \E p \in Configured(r) \ current[r].done :
         current' = [current EXCEPT ![r] = [role |-> p, done |-> @.done, uncap |-> FALSE]]
    /\ Goto(r, "granting")
    /\ UNCHANGED <<env, migrationVars, roleVars, tampered>>
Choose(r) ==
    /\ at[r] = "choosing"
    /\ \E p \in Configured(r) \ current[r].done :
         current' = [current EXCEPT ![r] = [role |-> p, done |-> @.done, uncap |-> roles[p].limit = 0]]
    /\ Goto(r, "resetting")
    /\ UNCHANGED <<env, migrationVars, roleVars, tampered>>

Role(r) == current[r].role
Alter(r, role) == roles' = [roles EXCEPT ![Role(r)] = role] /\ Touches(r)

ResetAll(r) ==
    /\ at[r] = "resetting"
    /\ Alter(r, [roles[Role(r)] EXCEPT !.config = FALSE]) /\ Goto(r, "extending")
    /\ UNCHANGED <<env, migrationVars, member, current, lapses, tampered>>
Extend(r) ==
    /\ at[r] = "extending"
    /\ Alter(r, [roles[Role(r)] EXCEPT !.expired = FALSE])
    /\ Goto(r, IF current[r].uncap THEN "uncapping" ELSE "granting")
    /\ UNCHANGED <<env, migrationVars, member, current, lapses, tampered>>
(* A cap is the operator's; only a limit that lets nobody in is repaired.  *)
Uncap(r) ==
    /\ at[r] = "uncapping"
    /\ Alter(r, [roles[Role(r)] EXCEPT !.limit = Unlimited]) /\ Goto(r, "granting")
    /\ UNCHANGED <<env, migrationVars, member, current, lapses, tampered>>
Grant(r) ==
    /\ at[r] = "granting"
    /\ Alter(r, [roles[Role(r)] EXCEPT !.login = TRUE, !.password = env[r][Role(r)]])
    /\ lapses' = IF roles[Role(r)].config /\ r \notin overlapped THEN lapses + 1 ELSE lapses
    /\ Goto(r, "asserting")
    /\ UNCHANGED <<env, migrationVars, member, current, tampered>>

Fit(role) == role.login /\ ~role.config /\ role.limit # 0 /\ ~role.expired
AssertRoleAttributes(r) ==
    /\ at[r] = "asserting"
    /\ IF Fit(roles[Role(r)])
       THEN /\ Goto(r, "choosing")
            /\ current' = [current EXCEPT ![r].done = @ \cup {Role(r)}]
       ELSE Goto(r, "failed") /\ UNCHANGED current
    /\ UNCHANGED <<env, migrationVars, roleVars, tampered>>

AssertNoMembership(r) ==
    /\ at[r] = "choosing" /\ current[r].done = Principals
    /\ Goto(r, IF member THEN "failed" ELSE "done")
    /\ UNCHANGED <<env, migrationVars, current, roleVars, tampered>>

(* A statement fails or the process ends: what was altered stays altered.  *)
Fails(r) ==
    /\ at[r] \notin Ended \cup {"run"}
    /\ Goto(r, "failed")
    /\ UNCHANGED <<env, migrationVars, current, roleVars, tampered>>

-----------------------------------------------------------------------------
(* Another administrator, a restored backup.                               *)
Tamper ==
    /\ tampered < MaxTampering /\ tampered' = tampered + 1
    /\ \/ /\ \E p \in Principals :
               roles' \in {[roles EXCEPT ![p].config = TRUE], [roles EXCEPT ![p].expired = TRUE],
                           [roles EXCEPT ![p].limit = 0], [roles EXCEPT ![p].limit = 40]}
          /\ UNCHANGED member
       \/ member' = ~member /\ UNCHANGED roles
    /\ overlapped' = overlapped \cup Begun
    /\ UNCHANGED <<at, env, migrationVars, current, lapses>>

-----------------------------------------------------------------------------
Fresh == [login |-> FALSE, password |-> None, config |-> FALSE, limit |-> Unlimited, expired |-> FALSE]

Init ==
    /\ at = [r \in Runs |-> "idle"]
    /\ env = [r \in Runs |-> CHOOSE e \in Passwords : TRUE]
    /\ migration = [r \in Runs |-> 1]
    /\ open = NoRun /\ applied = {}
    /\ schema = [n \in 1..Last |-> 0]
    /\ roles = [p \in Principals |-> Fresh]
    /\ member = FALSE
    /\ current = [r \in Runs |-> [role |-> None, done |-> {}, uncap |-> FALSE]]
    /\ lapses = 0 /\ overlapped = {} /\ tampered = 0

Next ==
    \/ Tamper
    \/ \E r \in Runs :
         \/ Begin(r) \/ Skip(r) \/ Missing(r) \/ RunStatements(r) \/ Record(r) \/ Undo(r) \/ Migrated(r)
         \/ Retire(r) \/ Retired(r) \/ Choose(r) \/ ResetAll(r) \/ Extend(r) \/ Uncap(r) \/ Grant(r)
         \/ AssertRoleAttributes(r) \/ AssertNoMembership(r) \/ Fails(r)

Spec == Init /\ [][Next]_provisioningVars

-----------------------------------------------------------------------------
(* Every migration is applied once and in order, however runs race and     *)
(* wherever they end; a run that reports success and ran alone leaves what *)
(* its environment says, whatever the runs and the operators before it     *)
(* left behind; and no principal can log in under settings that were not   *)
(* cleared before it could.                                                *)
MigratedOnce ==
    /\ \A n \in 1..Last : schema[n] = IF n \in applied THEN 1 ELSE 0
    /\ \A n \in applied : 1..n \subseteq applied
    /\ \A r \in Runs : at[r] \notin Ended \cup {"migrating", "missing", "run"} => applied = 1..Last
Authoritative ==
    \A r \in Runs : (at[r] = "done" /\ r \notin overlapped) => ~member /\
        \A p \in Principals : IF p \in Configured(r)
                              THEN Fit(roles[p]) /\ roles[p].password = env[r][p]
                              ELSE ~roles[p].login
PreparedAsSaid == MigratedOnce /\ Authoritative /\ lapses = 0
=============================================================================
