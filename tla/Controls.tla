------------------------------- MODULE Controls -------------------------------
(***************************************************************************)
(* The controls of the workbench: the permissions that unlock each, the    *)
(* controls that put on the screen what it acts on, and the routes it      *)
(* asks.  What a role may do is decided elsewhere, by the registry and the *)
(* guards of Routes; the workbench is to offer that and nothing else.      *)
(***************************************************************************)
EXTENDS Naturals, FiniteSets

Server == INSTANCE Routes

(* needs: one of them unlocks it, none is asked for if it is empty.        *)
(* after: one of them comes first, none has to if it is empty.             *)
Control(needs, after, asks) == [needs |-> needs, after |-> after, asks |-> asks]

CanRead == {"read", "readOwn"}

RunImport == Control({"packagingWrite"}, {}, {"imports"})
LoadCatalogReadOwn == Control(CanRead, {}, {"catalogSummary"})
LoadCatalog == Control({"read"}, {}, {"catalogSummary"})
CatalogResource == Control({}, {"loadCatalog"}, {"catalog"})
MoreCatalog == Control({}, {"catalogResource"}, {"catalog"})
LoadRequirements == Control(CanRead, {}, {"evidenceRequirements"})
MoreRequirements == Control({}, {"loadRequirements"}, {"evidenceRequirements"})
LoadEvidence == Control(CanRead, {}, {"evidence"})
UploadEvidence == Control({"evidenceUpload"}, {"loadRequirements"}, {"upload", "evidence"})
MoreEvidence == Control({}, {"loadEvidence"}, {"evidence"})
ViewEvidence == Control({"evidenceDownload", "evidenceDownloadOwn"}, {"loadEvidence"}, {"downloadEvidence"})
Review == Control({"evidenceReview"}, {"loadEvidence"}, {"reviewEvidence", "evidence"})
RunAssessment == Control({"assessmentRun"}, {}, {"runAssessments"})
LoadGaps == Control(CanRead, {}, {"gaps"})
MoreGaps == Control({}, {"loadGaps"}, {"gaps"})
Assign == Control({"gapManage"}, {"loadGaps"}, {"assignGap", "gaps"})
Remediate == Control({"gapManage"}, {"loadGaps"}, {"remediateGap", "gaps"})
Reassess == Control({"gapManage"}, {"loadGaps"}, {"reassessGap", "gaps"})
LoadScanJobs == Control({"scanRequeue"}, {}, {"scanJobs"})
Requeue == Control({}, {"loadScanJobs"}, {"requeue", "scanJobs"})
Reset == Control({"scanRequeue"}, {}, {"demoReset"})
Freeze == Control({"reviewFreeze"}, {}, {"freezeReview"})
Generate == Control({"dossierGenerate"}, {"freeze", "loadDossiers"}, {"generateDossier"})
LoadDossiers == Control({"dossierDownload"}, {}, {"reviewSnapshots"})
DownloadGenerated == Control({}, {"generate"}, {"downloadDossier"})
Download == Control({}, {"generate", "loadDossiers"}, {"downloadDossier"})
VerifyAudit == Control({"auditVerify"}, {}, {"verifyAudit"})
SignOut == Control({}, {}, {"logout"})

Workbench ==
    [runImport |-> RunImport, loadCatalog |-> LoadCatalog, catalogResource |-> CatalogResource,
     moreCatalog |-> MoreCatalog, loadRequirements |-> LoadRequirements, moreRequirements |-> MoreRequirements,
     loadEvidence |-> LoadEvidence, uploadEvidence |-> UploadEvidence, moreEvidence |-> MoreEvidence,
     viewEvidence |-> ViewEvidence, review |-> Review, runAssessment |-> RunAssessment, loadGaps |-> LoadGaps,
     moreGaps |-> MoreGaps, assign |-> Assign, remediate |-> Remediate, reassess |-> Reassess,
     loadScanJobs |-> LoadScanJobs, requeue |-> Requeue, reset |-> Reset, freeze |-> Freeze,
     generate |-> Generate, loadDossiers |-> LoadDossiers, download |-> Download, verifyAudit |-> VerifyAudit,
     signOut |-> SignOut]

(* What a role is offered once it has pressed all it can, in any order.    *)
Unlocked(role, control) ==
    Workbench[control].needs = {} \/ \E p \in Workbench[control].needs : Server!IsAllowed(role, p)
Offered(role) ==
    LET unlocked == {c \in DOMAIN Workbench : Unlocked(role, c)}
        within[n \in Nat] ==
            IF n = 0 THEN {c \in unlocked : Workbench[c].after = {}}
            ELSE LET before == within[n - 1]
                 IN before \cup {c \in unlocked : Workbench[c].after \cap before # {}}
    IN within[Cardinality(unlocked)]

(* What the server lets a role do.                                         *)
Grants(role, guard) ==
    guard.kind = "guard" /\ guard.test \in {"permission", "own"} => \E p \in guard.of : Server!IsAllowed(role, p)
Served(role, route) == \A i \in DOMAIN Server!App[route] : Grants(role, Server!App[route][i])

(* The routes that change the record or hand a document out.               *)
Workflow == {"imports", "upload", "reviewEvidence", "requeue", "downloadEvidence", "runAssessments", "assignGap",
             "remediateGap", "reassessGap", "freezeReview", "generateDossier", "downloadDossier", "demoReset",
             "verifyAudit", "logout"}

-----------------------------------------------------------------------------
(* No role is offered a control whose request the server is certain to     *)
(* refuse it, and no role lacks the way, over the controls it is offered,  *)
(* to what the server would let it do.                                     *)
OffersAreServed ==
    \A role \in Server!HumanRoles :
        /\ \A c \in Offered(role) : \A route \in Workbench[c].asks : Served(role, route)
        /\ \A route \in Workflow : Served(role, route) => \E c \in Offered(role) : route \in Workbench[c].asks
=============================================================================
