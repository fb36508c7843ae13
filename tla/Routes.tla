------------------------------- MODULE Routes -------------------------------
(***************************************************************************)
(* What the HTTP service is made of: the permissions and the roles that    *)
(* hold them, and the routes, each a sequence of stages.  Guards between   *)
(* two awaits run in one step; a query waits for a client of its pool, is  *)
(* answered, and gives the client back.  What a query does is the name of  *)
(* its effect: the modules of the components say what lies behind it.      *)
(***************************************************************************)
EXTENDS Naturals, Sequences

(* Permissions: which roles hold which.                                    *)

HumanRoles == {"tenant_admin", "compliance_manager", "packaging_editor", "evidence_contributor",
               "evidence_reviewer", "read_only_auditor", "supplier_user"}
MachineRoles == {"service_account", "worker"}
Registry ==
    [read |-> (HumanRoles \ {"supplier_user"}) \cup {"service_account"},
     readOwn |-> {"supplier_user"},
     packagingWrite |-> {"tenant_admin", "compliance_manager", "packaging_editor"},
     evidenceUpload |-> {"tenant_admin", "evidence_contributor", "supplier_user"},
     evidenceReview |-> {"tenant_admin", "evidence_reviewer"},
     evidenceDownload |-> {"tenant_admin", "evidence_reviewer", "read_only_auditor"},
     evidenceDownloadOwn |-> {"evidence_contributor", "supplier_user"},
     assessmentRun |-> {"tenant_admin", "compliance_manager", "service_account"},
     gapManage |-> {"tenant_admin", "compliance_manager"},
     reviewFreeze |-> {"tenant_admin", "compliance_manager"},
     dossierGenerate |-> {"tenant_admin", "compliance_manager", "service_account"},
     dossierDownload |-> {"tenant_admin", "compliance_manager", "read_only_auditor", "service_account"},
     auditVerify |-> {"tenant_admin", "compliance_manager", "read_only_auditor"},
     scanRequeue |-> {"tenant_admin"},
     credentialRotate |-> {"tenant_admin"},
     scanProcess |-> {"worker"}]
MachineOnly == {"scanProcess"}

RegistryIsSound ==
    \A p \in DOMAIN Registry :
        /\ Registry[p] # {}
        /\ Registry[p] \subseteq HumanRoles \cup MachineRoles
        /\ p \in MachineOnly => Registry[p] \cap HumanRoles = {}

IsAllowed(role, permission) == role \in Registry[permission]

-----------------------------------------------------------------------------
(* Stages.  The outcomes of a query pair a status, 0 when the request goes *)
(* on, with what is then committed.                                        *)

Guard(test, of, status) == [kind |-> "guard", test |-> test, of |-> of, status |-> status]
Query(pool, outcomes) == [kind |-> "query", pool |-> pool, outcomes |-> outcomes]
Sends(status) == [kind |-> "send", status |-> status]
Probe == [kind |-> "probe", pool |-> "request"]

Needs(permissions) == Guard("permission", permissions, 404)
Parsed == Guard("body", {}, 400)
Importable == Guard("import", {}, 422)
Identified == Guard("id", {}, 404)       \* requireUuid, requireGapId
Paged == Guard("page", {}, 400)
Demonstrates == Guard("demo", {}, 404)
Holding(pool) == Guard("pool", {pool}, 404)

Continues(what) == <<0, what>>
Refuses(status) == <<status, "nothing">>
Reads == Query("request", {Continues("nothing")})
ReadsRow == Query("request", {Continues("nothing"), Refuses(404)})
Writes(what, refusals) == Query("request", {Continues(what)} \cup {Refuses(s) : s \in refusals})
Limited == Query("request", {Continues("nothing"), Refuses(429)})

(* What the rules of the public routes count by.  A dimension that is not  *)
(* known before authentication counts nothing.                             *)
Dimensions == [bootstrap |-> {"ip"}, login |-> {"ip", "loginTarget"}, read |-> {"subject"}]
Counted(rule) == IF Dimensions[rule] \cap {"ip", "loginTarget"} = {} THEN <<>> ELSE <<Limited>>

(* Origin, then the bearer credential and the identity behind it, whose    *)
(* session is refused when the demonstration is off.                       *)
AllowedOrigin == Guard("origin", {}, 403)
Authenticated == <<Guard("credential", {}, 401), Reads, Guard("identity", {}, 401), Guard("session", {}, 401)>>
Listing == <<Limited, Needs({"read", "readOwn"}), Paged, Reads, Sends(200)>>

-----------------------------------------------------------------------------
(* The routes.                                                             *)

Live == <<Sends(200)>>
Ready == <<Probe>>
Version == Counted("read") \o <<Query("request", {Continues("nothing")}), Sends(200)>>
Permissions == Counted("read") \o <<Sends(200)>>
BootstrapRoute == Counted("bootstrap") \o <<Parsed, Guard("secret", {}, 401), Writes("bootstraps", {409}), Sends(201)>>
DemoAccountsByFlag == Counted("read") \o <<Demonstrates, Sends(200)>>
DemoAccounts == Counted("read") \o <<Demonstrates, Holding("auth"), Sends(200)>>
Login == <<Parsed>> \o Counted("login") \o <<Demonstrates, Holding("auth"),
           Query("auth", {Continues("nothing"), Refuses(401)}),
           Query("auth", {Continues("signs in"), Refuses(401)}), Sends(200)>>
Session == <<Limited, Sends(200)>>
Logout == <<Limited, Guard("has a session", {}, 200), Query("request", {Continues("signs out"), Refuses(200)}), Sends(204)>>
RotateCredential == <<Limited, Identified, Guard("rotation", {"credentialRotate"}, 404), Holding("credential"),
                      Query("credential", {Continues("rotates"), Refuses(404)}), Sends(200)>>
(* express.raw reads the body, the service its key, its type and its rows. *)
Imports == <<Limited, Parsed, Needs({"packagingWrite"}), Importable,
             Query("request", {Continues("imports"), Refuses(200), Refuses(409), <<422, "rejects">>}), Sends(201)>>
CatalogSummary == <<Limited, Needs({"read"}), Reads, Sends(200)>>
Catalog == <<Limited, Guard("resource", {}, 404), Needs({"read"}), Paged, Reads, Sends(200)>>
EvidenceRequirements == Listing
Upload == <<Limited, Needs({"evidenceUpload"}), Parsed, Writes("uploads", {404}), Sends(202)>>
Evidence == Listing
ReviewEvidence == <<Limited, Parsed, Needs({"evidenceReview"}), Identified, Guard("decision", {}, 400), Writes("reviews", {404, 409}), Sends(200)>>
ScanJobs == <<Limited, Needs({"scanRequeue"}), Reads, Sends(200)>>
Requeue == <<Limited, Needs({"scanRequeue"}), Identified, Writes("requeues", {404, 409}), Sends(200)>>
(* Whose the row is can only be asked of the row: the permission is        *)
(* checked inside the transaction that read it, which then asks for a      *)
(* clean verdict and reads the file; no row, not clean and not the         *)
(* caller's have one answer.                                               *)
DownloadEvidence == <<Limited, Identified, ReadsRow, Guard("own", {"evidenceDownload", "evidenceDownloadOwn"}, 404),
                      Sends(200)>>
RunAssessments == <<Limited, Parsed, Needs({"assessmentRun"}), Writes("assesses", {404, 409}), Sends(201)>>
Assessments == Listing
Gaps == Listing
AssignGap == <<Limited, Parsed, Needs({"gapManage"}), Identified, Writes("assigns", {404, 409}), Sends(200)>>
RemediateGap == <<Limited, Parsed, Needs({"gapManage"}), Identified, Writes("remediates", {404, 409}), Sends(200)>>
ReassessGapUnvetted ==
    <<Limited, Needs({"gapManage"}), ReadsRow, Identified, Writes("assesses", {404, 409}), Sends(201)>>
ReassessGap == <<Limited, Needs({"gapManage"}), Identified, ReadsRow, Writes("assesses", {404, 409}), Sends(201)>>
FreezeReview == <<Limited, Parsed, Needs({"reviewFreeze"}), Writes("freezes", {409}), Sends(201)>>
ReviewSnapshots == <<Limited, Needs({"dossierDownload"}), Reads, Sends(200)>>
GenerateDossier == <<Limited, Needs({"dossierGenerate"}), Identified, Writes("generates", {404, 409}), Sends(201)>>
DownloadDossier == <<Limited, Needs({"dossierDownload"}), Identified, ReadsRow, Sends(200)>>
DemoReset == <<Limited, Demonstrates, Needs({"scanRequeue"}), Holding("maintenance"), Reads,
               Query("maintenance", {Continues("resets"), Refuses(404)}), Sends(200)>>
VerifyAudit == <<Limited, Needs({"auditVerify"}), Reads, Sends(200)>>

Public == [live |-> Live, ready |-> Ready, version |-> Version, permissions |-> Permissions,
           bootstrap |-> BootstrapRoute, demoAccounts |-> DemoAccounts, login |-> Login]
Private ==
    [session |-> Session, logout |-> Logout, rotateCredential |-> RotateCredential, imports |-> Imports,
     catalogSummary |-> CatalogSummary, catalog |-> Catalog, evidenceRequirements |-> EvidenceRequirements,
     upload |-> Upload, evidence |-> Evidence, reviewEvidence |-> ReviewEvidence, scanJobs |-> ScanJobs,
     requeue |-> Requeue, downloadEvidence |-> DownloadEvidence, runAssessments |-> RunAssessments,
     assessments |-> Assessments, gaps |-> Gaps, assignGap |-> AssignGap, remediateGap |-> RemediateGap,
     reassessGap |-> ReassessGap, freezeReview |-> FreezeReview, reviewSnapshots |-> ReviewSnapshots,
     generateDossier |-> GenerateDossier, downloadDossier |-> DownloadDossier, demoReset |-> DemoReset,
     verifyAudit |-> VerifyAudit]
Routes == DOMAIN Public \cup DOMAIN Private
App == [route \in Routes |->
           <<AllowedOrigin>> \o IF route \in DOMAIN Public THEN Public[route]
                                ELSE Authenticated \o Private[route]]
=============================================================================
