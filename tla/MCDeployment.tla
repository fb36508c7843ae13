---------------------------- MODULE MCDeployment ----------------------------
(***************************************************************************)
(* Parts of a deployment that share no state, explored side by side: the   *)
(* part of a behaviour is chosen at its start and takes all of its steps.  *)
(***************************************************************************)
EXTENDS Integers, Sequences, FiniteSets, TLC

CONSTANTS
    Uploads, Bodies, MaxLosses,                        \* Uploads
    MaxCells,                                          \* Csv
    Callers, Fictional, MaxMishaps, MaxScripts,        \* Tenancy
    Runs, Last, MaxTampering,                          \* Provisioning
    MaxDamages,                                        \* Recovery
    PageSize, Bearers, Accounts, MaxRows, MaxSessions, MaxFlight,            \* Workbench
    Count                                              \* Gates

VARIABLES
    part,
    body, step, names, opening, number, versions, entered, required, reply, erasing, losses, unheard, orphans,
    written, writing, ends, text, left,
    bootstrap, told, lock, tenants, marker, heard, accounts, business, issued, kept, file, script, events,
    cleared, robbed, mishaps, scripts,
    run, env, migration, open, applied, schema, roles, member, current, lapses, overlapped, tampered,
    at, live, backup, before, damages, up, report,
    hosts, request, hops, promise, answer, page,
    rows, sessions, minted, token, identity, signInState, busy, flight, evidence, evidenceMore, outOf,
    others, signedOut, overtaken, unlocked,
    gate, stage, results, child, timedOut, strays, filed, exit

-----------------------------------------------------------------------------
U == INSTANCE Uploads WITH rows <- versions, mishaps <- losses, MaxMishaps <- MaxLosses

(* Cells a spreadsheet evaluates and cells that look like it, with quotes, *)
(* line breaks and delimiters inside.                                      *)
Cell(characters, formula) == [text |-> characters, formula |-> formula]
CsvCells ==
    {Cell(<<>>, FALSE), Cell(<<"a", "quote">>, FALSE), Cell(<<"=", "1">>, TRUE), Cell(<<"quote", "=">>, FALSE),
     Cell(<<"a", "lf", "@">>, FALSE), Cell(<<"lf", "blank", "@", "a">>, TRUE),
     Cell(<<"-", "1", ",", "2">>, FALSE), Cell(<<"-", "1", ".">>, TRUE)}
C == INSTANCE Csv
     WITH Contents <- CsvCells, Separators <- {";"}, Breaks <- {<<"cr">>, <<"lf">>, <<"cr", "lf">>}

T == INSTANCE Tenancy
     WITH request <- bootstrap, answer <- told, rows <- business, token <- issued,
          Expected <- Callers, Extra <- "extra", DemoLogin <- TRUE, Outs <- {"out1", "out2"}

Environments == {("app" :> a @@ "auth" :> b) : a \in {"p", "q", ""}, b \in {"", "p", "short"}}
P == INSTANCE Provisioning WITH at <- run, Required <- {"app"}, Passwords <- Environments

R == INSTANCE Recovery WITH A <- "a", B <- "b"

(* No map, a host for every surface, two hosts for one surface under a     *)
(* name that is declared twice, and a surface that does not exist.         *)
Entry(host, surface) == [host |-> host, surface |-> surface]
Full == <<Entry("m", "marketing"), Entry("a", "app"), Entry("demo.m", "demo"), Entry("docs.m", "docs"),
          Entry("api.m", "api"), Entry("status.m", "status"), Entry("community.m", "community")>>
Repeating == <<Entry("second", "app"), Entry("m2", "marketing"), Entry("m", "app"), Entry("m", "marketing"),
               Entry("d", "docs"), Entry("demo.m", "demo")>>
HostMaps == {<<>>, Full, Repeating, <<Entry("m", "markting")>>}
TypedPaths ==
    {<<>>, <<"docs">>, <<"app">>, <<"product">>, <<"status">>, <<"nothing">>, <<"pl", "app">>, <<"pl", "docs">>,
     <<"pl", "demo">>, <<"en", "docs", "limits">>, <<"health">>, <<"health", "ready">>, <<"v1">>,
     <<"v1", "version">>, <<"v1", "data">>}
Spellings == [name \in {"www.m"} |-> "m"]
E == INSTANCE Edge
     WITH Maps <- HostMaps, OneHost <- "one", Unwww <- Spellings, Locales <- {"en", "pl"},
          Slugs <- {"quickstart", "limits"}, Typed <- TypedPaths

W == INSTANCE Workbench
K == INSTANCE Controls

G == INSTANCE Gates WITH at <- stage, left <- strays, report <- filed

ASSUME DeploymentAssumption ==
    /\ U!UploadsAssumption /\ T!TenancyAssumption /\ P!ProvisioningAssumption
    /\ R!RecoveryAssumption /\ W!WorkbenchAssumption /\ G!GatesAssumption

-----------------------------------------------------------------------------
uploads == <<body, step, names, opening, number, versions, entered, required, reply, erasing, losses,
             unheard, orphans>>
csv == <<written, writing, ends, text, left>>
tenancy == <<bootstrap, told, lock, tenants, marker, heard, accounts, business, issued, kept, file, script, events,
             cleared, robbed, mishaps, scripts>>
provisioning == <<run, env, migration, open, applied, schema, roles, member, current, lapses, overlapped, tampered>>
recovery == <<at, live, backup, before, damages, up, report>>
edge == <<hosts, request, hops, promise, answer, page>>
workbench == <<rows, sessions, minted, token, identity, signInState, busy, flight, evidence, evidenceMore, outOf,
               others, signedOut, overtaken, unlocked>>
gates == <<gate, stage, results, child, timedOut, strays, filed, exit>>
vars == <<part, uploads, csv, tenancy, provisioning, recovery, edge, workbench, gates>>

Init ==
    /\ part \in {"uploads", "csv", "tenancy", "provisioning", "recovery", "edge", "workbench", "gates"}
    /\ U!Init /\ C!Init /\ T!Init /\ P!Init /\ R!Init /\ E!Init /\ W!Init /\ G!Init
    /\ part # "csv" => ends = <<"lf">>
    /\ part # "edge" => hosts = <<>>
    /\ part # "gates" => gate = "full" /\ filed.of = "none"

UploadsStep ==
    part = "uploads" /\ UNCHANGED <<part, csv, tenancy, provisioning, recovery, edge, workbench, gates>>
CsvStep ==
    part = "csv" /\ UNCHANGED <<part, uploads, tenancy, provisioning, recovery, edge, workbench, gates>>
TenancyStep ==
    part = "tenancy" /\ UNCHANGED <<part, uploads, csv, provisioning, recovery, edge, workbench, gates>>
ProvisioningStep ==
    part = "provisioning" /\ UNCHANGED <<part, uploads, csv, tenancy, recovery, edge, workbench, gates>>
RecoveryStep ==
    part = "recovery" /\ UNCHANGED <<part, uploads, csv, tenancy, provisioning, edge, workbench, gates>>
EdgeStep ==
    part = "edge" /\ UNCHANGED <<part, uploads, csv, tenancy, provisioning, recovery, workbench, gates>>
WorkbenchStep ==
    part = "workbench" /\ UNCHANGED <<part, uploads, csv, tenancy, provisioning, recovery, edge, gates>>
GatesStep ==
    part = "gates" /\ UNCHANGED <<part, uploads, csv, tenancy, provisioning, recovery, edge, workbench>>

Next ==
    \/ UploadsStep /\ U!Next
    \/ CsvStep /\ C!Next
    \/ TenancyStep /\ T!Next
    \/ ProvisioningStep /\ P!Next
    \/ RecoveryStep /\ R!Next
    \/ EdgeStep /\ E!Next
    \/ WorkbenchStep /\ W!Next
    \/ GatesStep /\ G!Next

Spec == Init /\ [][Next]_vars

(* The tab is followed up to the histories that its property excepts: what *)
(* has landed beside another operation is looked at, what the tab does     *)
(* afterwards is not.                                                      *)
Followed == ~overtaken /\ ~unlocked

-----------------------------------------------------------------------------
(* Row and bytes of an upload stay together, whatever races, fails or ends.*)
UploadsAreWhole == U!UploadsAreWhole

(* The reader of a CSV file sees the cells its writer meant and judges     *)
(* each as a spreadsheet would.                                            *)
CellsAreSeen == C!CellsAreSeen

(* Migrations, principals and the first tenant are what those who made     *)
(* them were told, one bootstrap wins, and a reset clears one tenant.      *)
DeploymentIsOwned == P!PreparedAsSaid /\ T!OneBootstrap /\ T!ScriptsAreTrue

(* A rehearsal of recovery, a stage or a gate that passes has seen all it  *)
(* looks for.                                                              *)
PassIsEarned == R!PassIsEarned /\ G!VerdictIsEarned

(* A role is offered what the server lets it do; no step changes that, so  *)
(* it is looked at while the tab is new.                                   *)
OffersAreServed == part = "workbench" /\ W!Init => K!OffersAreServed

(* A reader is led where a link says, however many redirects lie between,  *)
(* and a role, over what it is offered, to what the server lets it do.     *)
WaysLead == E!LinksLand /\ OffersAreServed

(* What the workbench shows is what the server has for whoever signed in.  *)
ScreenIsTrue == W!ScreenIsTrue
=============================================================================
