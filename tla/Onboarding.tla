------------------------------ MODULE Onboarding -------------------------------
(***************************************************************************)
(* services/onboarding: the life of an application.  Edits, verifications, *)
(* compliance checks and decisions each read the application, change their *)
(* copy and save it whole.  Texts are left out; an application's bank      *)
(* accounts all have one number, and Redis answers.                        *)
(***************************************************************************)
EXTENDS Requests

CONSTANTS
    Applications, Uploads,       \* uuids
    ApplicantTypes, KycLevels,   \* "individual", "business"; "tier_1" ..
    Numbers, HomeNumbers,        \* identity documents; those the KYC provider covers
    MaxDocuments                 \* bounds the identity documents of an application

ASSUME OnboardingAssumption ==
    ApplicantTypes \subseteq {"individual", "business"} /\ KycLevels \subseteq {"tier_1", "tier_2", "tier_3"}

VARIABLES
    applications,   \* application:<id>
    documents,      \* document:<id>, the status of an uploaded file
    documentList,   \* application:<id>:documents
    applying,       \* the request each client is in
    uploading,      \* the upload each client is in: it meets applications only to see
                    \* that there is one, and is followed on its own
    intended,       \* history: [facts, status] if every save had built on the last
    contested       \* history: applications two requests held copies of at once

UploadVars == <<documents, documentList, uploading>>
OnboardingVars == <<applications, applying, intended, contested, UploadVars>>

Application ==
    [type : {"individual", "business"}, level : {"tier_1", "tier_2", "tier_3"},
     status : {"draft", "submitted", "under_review", "approved", "rejected"},
     step : {"personal_info", "identity_verification", "compliance_checks", "review", "completed"},
     personal : BOOLEAN, business : BOOLEAN, addresses : BOOLEAN,
     identity : Seq([number : Numbers, verified : BOOLEAN]),
     bank : {"none", "pending", "verified"},     \* of the first account
     checked : BOOLEAN, reviewed : BOOLEAN]

DefaultWorkflow(type) ==
    <<"personal_info", "identity_verification", "address_verification">>
    \o (IF type = "business" THEN <<"business_info">> ELSE <<>>)
    \o <<"bank_account", "compliance_checks", "review", "completed">>
Workflow(type, level) ==
    IF type = "individual" /\ level = "tier_1"
    THEN [steps |-> <<"personal_info", "identity_verification", "bank_account",
                      "compliance_checks", "review", "completed">>, autoApproval |-> TRUE]
    ELSE [steps |-> DefaultWorkflow(type), autoApproval |-> FALSE]

NextStep(app) ==
    LET steps == Workflow(app.type, app.level).steps
        here == {i \in 1 .. Len(steps) - 1 : steps[i] = app.step}
    IN  IF here = {} THEN app.step ELSE steps[(CHOOSE i \in here : TRUE) + 1]

NewApplication(type, level) ==
    [type |-> type, level |-> level, status |-> "draft", step |-> Workflow(type, level).steps[1],
     personal |-> FALSE, business |-> FALSE, addresses |-> FALSE, identity |-> <<>>,
     bank |-> "none", checked |-> FALSE, reviewed |-> FALSE]

Complete(app) ==
    /\ app.personal /\ app.addresses /\ app.identity # <<>> /\ app.bank # "none"
    /\ app.type = "business" => app.business

\* Faulty variant: the document need not be verified.
AutoApprovesUnverified(app) ==
    Workflow(app.type, app.level).autoApproval /\ app.checked /\ app.identity # <<>>

\* The only rule: complianceChecks.0 passed and identityDocuments.0 is verified.
AutoApproves(app) ==
    /\ Workflow(app.type, app.level).autoApproval /\ app.checked
    /\ app.identity # <<>> /\ app.identity[1].verified

\* The provider confirms what it is asked; the first document of that number counts.
WithVerified(app, number) ==
    LET found == {i \in 1 .. Len(app.identity) : app.identity[i].number = number}
        first == CHOOSE i \in found : \A j \in found : i <= j
    IN  [app EXCEPT !.identity[first].verified = TRUE]

Checked(app) ==
    LET reviewing == [app EXCEPT !.checked = TRUE, !.status = "under_review", !.step = "review"]
    IN  IF AutoApproves(reviewing)
        THEN [reviewing EXCEPT !.status = "approved", !.step = "completed"] ELSE reviewing

\* What an application states, apart from its status.
Facts(app) ==
    {f \in {"personal", "business", "addresses", "checked", "reviewed"} : app[f]}
    \union (IF app.bank = "none" THEN {} ELSE {"bank", app.bank} \ {"pending"})
    \union {app.identity[i].number : i \in 1 .. Len(app.identity)}
    \union (IF \E i \in 1 .. Len(app.identity) : app.identity[i].verified
            THEN {"identified"} ELSE {})

Nothing == [facts |-> {}, status |-> "draft"]
OnboardingInit ==
    /\ applications = [a \in Applications |-> Unused]
    /\ documents = [d \in Uploads |-> Unused] /\ documentList = [a \in Applications |-> {}]
    /\ applying = [k \in Clients |-> Resting] /\ uploading = [k \in Clients |-> Resting]
    /\ intended = [a \in Applications |-> Nothing]
    /\ contested = {}

-----------------------------------------------------------------------------
Applying(k, pc) == applying[k].pc = pc
Continue(k, call) == applying' = [applying EXCEPT ![k] = call]
HasCopy(k, a) == Applying(k, "save") /\ applying[k].app = a

\* A request has read application a and goes on to save its copy, changed by `change`:
\* `fact` and `status` say what the change is, `then` what the request does next.
Edits(k, a, copy, change, then) ==
    /\ Continue(k, [pc |-> "save", app |-> a, copy |-> copy, change |-> change, then |-> then])
    /\ contested' = IF \E j \in Clients : HasCopy(j, a)
                    THEN contested \union {a} ELSE contested
    /\ UNCHANGED <<applications, intended>> /\ UNCHANGED UploadVars
Fact(fact) == [fact |-> {fact}, status |-> "same"]
Becomes(status, facts) == [fact |-> facts, status |-> status]
Done == Resting

createApplication(k, a, type, level) ==
    /\ applications[a] = Unused
    /\ applications' = [applications EXCEPT ![a] = NewApplication(type, level)]
    /\ UNCHANGED <<applying, intended, contested>> /\ UNCHANGED UploadVars

updatePersonalInfo(k, a) ==
    LET app == applications[a] IN
    Edits(k, a, [app EXCEPT !.personal = TRUE,
                            !.step = IF @ = "personal_info" THEN NextStep(app) ELSE @],
          Fact("personal"), Done)

updateBusinessInfo(k, a) ==
    LET app == applications[a] IN
    /\ app.type = "business"
    /\ Edits(k, a, [app EXCEPT !.business = TRUE,
                               !.step = IF @ = "business_info" THEN NextStep(app) ELSE @],
             Fact("business"), Done)

addAddress(k, a) ==
    Edits(k, a, [applications[a] EXCEPT !.addresses = TRUE], Fact("addresses"), Done)

\* Faulty variant: the new document takes the place of those before it.
addIdentityDocumentAlone(k, a, number) ==
    Edits(k, a, [applications[a] EXCEPT !.identity = <<[number |-> number, verified |-> FALSE]>>],
          Fact(number), [pc |-> "verifyIdentity", app |-> a, number |-> number])

addIdentityDocument(k, a, number) ==
    /\ Len(applications[a].identity) < MaxDocuments
    /\ Edits(k, a, [applications[a] EXCEPT !.identity =
                        Append(@, [number |-> number, verified |-> FALSE])],
             Fact(number), [pc |-> "verifyIdentity", app |-> a, number |-> number])

addBankAccount(k, a) ==
    Edits(k, a, [applications[a] EXCEPT !.bank = IF @ = "none" THEN "pending" ELSE @],
          Fact("bank"), [pc |-> "verifyBank", app |-> a])

submitApplication(k, a) ==
    LET app == applications[a]
        submitted == [app EXCEPT !.status = "submitted", !.step = "compliance_checks"] IN
    /\ app.status = "draft" /\ Complete(app)
    /\ Edits(k, a, submitted, Becomes("submitted", {}), [pc |-> "checks"])

\* Whatever the status was; the webhook only logs.
approveApplication(k, a) ==
    Edits(k, a, [applications[a] EXCEPT !.status = "approved", !.step = "completed", !.reviewed = TRUE],
          Becomes("approved", {"reviewed"}), Done)
rejectApplication(k, a) ==
    Edits(k, a, [applications[a] EXCEPT !.status = "rejected", !.reviewed = TRUE],
          Becomes("rejected", {"reviewed"}), Done)

-----------------------------------------------------------------------------
saveApplication(k) ==
    LET call == applying[k]
        checked == Checked(call.copy) IN
    /\ Applying(k, "save")
    /\ applications' = [applications EXCEPT ![call.app] = call.copy]
    /\ intended' = [intended EXCEPT ![call.app] = IF call.app \in contested THEN Nothing ELSE
           [facts |-> @.facts \union call.change.fact,
            status |-> IF call.change.status = "same" THEN @.status ELSE call.change.status]]
    /\ Continue(k, IF call.then.pc # "checks" THEN call.then
                   ELSE [call EXCEPT !.copy = checked, !.then = Done,
                                     !.change = Becomes(checked.status, {"checked"})])
    /\ UNCHANGED <<contested, UploadVars>>

\* No provider for the document's country: it stays pending.
verifyIdentityDocument(k) ==
    LET call == applying[k]
        app == applications[call.app] IN
    /\ Applying(k, "verifyIdentity")
    /\ IF /\ call.number \in HomeNumbers /\ OnRecord(app)
          /\ \E i \in 1 .. Len(app.identity) : app.identity[i].number = call.number
       THEN Edits(k, call.app, WithVerified(app, call.number), Fact("identified"), Done)
       ELSE Continue(k, Done) /\ UNCHANGED <<applications, intended, contested, UploadVars>>

\* The bank answers after two seconds; the application is read again then.
verifyBankAccount(k) ==
    LET call == applying[k]
        app == applications[call.app] IN
    /\ Applying(k, "verifyBank")
    /\ IF OnRecord(app) /\ app.bank # "none"
       THEN Edits(k, call.app, [app EXCEPT !.bank = "verified"], Fact("verified"), Done)
       ELSE Continue(k, Done) /\ UNCHANGED <<applications, intended, contested, UploadVars>>

\* An application is dropped after a day without a save.
ApplicationExpires(a) ==
    /\ OnRecord(applications[a])
    /\ applications' = [applications EXCEPT ![a] = Expired]
    /\ UNCHANGED <<applying, intended, contested, UploadVars>>

-----------------------------------------------------------------------------
\* onboarding-controller.ts and its routes: everyone is authenticated, and nobody's
\* application is closed to another client.
Known(a) == OnRecord(applications[a])
PostApplication(k) == \E a \in Applications, type \in ApplicantTypes, level \in KycLevels :
                          createApplication(k, a, type, level)
PutPersonalInfo(k) == \E a \in Applications : Known(a) /\ updatePersonalInfo(k, a)
PutBusinessInfo(k) == \E a \in Applications : Known(a) /\ updateBusinessInfo(k, a)
PostAddress(k) == \E a \in Applications : Known(a) /\ addAddress(k, a)
PostIdentityDocument(k) ==
    \E a \in Applications, n \in Numbers : Known(a) /\ addIdentityDocument(k, a, n)
PostBankAccount(k) == \E a \in Applications : Known(a) /\ addBankAccount(k, a)
PostSubmission(k) == \E a \in Applications : Known(a) /\ submitApplication(k, a)
PostApproval(k) == k \in Staff /\ \E a \in Applications : Known(a) /\ approveApplication(k, a)
PostRejection(k) == k \in Staff /\ \E a \in Applications : Known(a) /\ rejectApplication(k, a)
OnboardingNext ==
    \/ \E a \in Applications : ApplicationExpires(a)
    \/ \E k \in Clients :
        \/ /\ applying[k] = Resting
           /\ \/ PostApplication(k) \/ PutPersonalInfo(k) \/ PutBusinessInfo(k) \/ PostAddress(k)
              \/ PostIdentityDocument(k) \/ PostBankAccount(k) \/ PostSubmission(k)
              \/ PostApproval(k) \/ PostRejection(k)
        \/ saveApplication(k) \/ verifyIdentityDocument(k) \/ verifyBankAccount(k)
OnboardingSpec == OnboardingInit /\ [][OnboardingNext]_OnboardingVars

-----------------------------------------------------------------------------
\* Uploaded files.
UploadStep(k, call) ==
    /\ uploading' = [uploading EXCEPT ![k] = call]
    /\ UNCHANGED <<applications, applying, intended>>
HasList(k, a) == uploading[k].pc = "saveList" /\ uploading[k].app = a

\* The metadata is stored before the list is read; an image goes through OCR.
uploadDocument(k, a, d, image) ==
    /\ documents[d] = Unused
    /\ documents' = [documents EXCEPT ![d] = [status |-> "uploaded", app |-> a]]
    /\ UploadStep(k, [pc |-> "readList", app |-> a, doc |-> d, image |-> image])
    /\ UNCHANGED <<documentList, contested>>
readDocumentList(k) ==
    LET call == uploading[k] IN
    /\ call.pc = "readList"
    /\ UploadStep(k, [pc |-> "saveList", app |-> call.app, doc |-> call.doc, image |-> call.image,
                      list |-> documentList[call.app]])
    /\ contested' = IF \E j \in Clients : HasList(j, call.app)
                    THEN contested \union {call.app} ELSE contested
    /\ UNCHANGED <<documents, documentList>>
\* Faulty variant: the list is what this upload adds.
saveDocumentAlone(k) ==
    LET call == uploading[k] IN
    /\ call.pc = "saveList"
    /\ documentList' = [documentList EXCEPT ![call.app] = {call.doc}]
    /\ UploadStep(k, IF call.image THEN [pc |-> "ocr", doc |-> call.doc] ELSE Done)
    /\ UNCHANGED <<documents, contested>>

saveDocumentList(k) ==
    LET call == uploading[k] IN
    /\ call.pc = "saveList"
    /\ documentList' = [documentList EXCEPT ![call.app] = call.list \union {call.doc}]
    /\ UploadStep(k, IF call.image THEN [pc |-> "ocr", doc |-> call.doc] ELSE Done)
    /\ UNCHANGED <<documents, contested>>

\* "processing" is stored at once, "processed" three seconds later.
processDocumentOcr(k) ==
    LET d == uploading[k].doc IN
    /\ uploading[k].pc = "ocr"
    /\ documents' = [documents EXCEPT ![d].status =
                        IF @ = "uploaded" THEN "processing" ELSE "processed"]
    /\ UploadStep(k, IF documents[d].status = "processing" THEN Done ELSE uploading[k])
    /\ UNCHANGED <<documentList, contested>>

PostDocument(k) == \E a \in Applications, d \in Uploads, image \in BOOLEAN :
                       Known(a) /\ uploadDocument(k, a, d, image)
UploadsNext ==
    \E k \in Clients :
        \/ PostApplication(k)
        \/ uploading[k] = Resting /\ PostDocument(k)
        \/ readDocumentList(k) \/ saveDocumentList(k) \/ processDocumentOcr(k)

-----------------------------------------------------------------------------
\* The documents are of the types of types/onboarding.ts.
OnboardingTypeOK ==
    /\ \A a \in Applications : OnRecord(applications[a]) => applications[a] \in Application
    /\ documentList \in [Applications -> SUBSET Uploads] /\ contested \subseteq Applications
    /\ \A d \in Uploads : documents[d].status \in {"unused", "uploaded", "processing", "processed"}

\* However edits, verifications and checks overwrite each other, an application that no
\* reviewer has decided on is approved only if it is complete, its checks have passed and
\* its first identity document is verified (checkAutoApprovalRules).
AutoApprovalIsEarned ==
    \A a \in Applications :
        LET app == applications[a] IN
        OnRecord(app) /\ app.status = "approved" /\ ~app.reviewed =>
            /\ Complete(app) /\ app.checked /\ app.identity[1].verified
            /\ app.type = "individual" /\ app.level = "tier_1"

\* What was stated in an application and the last decision about it are lost only if two
\* requests held copies of it at once: verifications read it again after the provider's
\* answer (verifyBankAccount), and only the compliance checks save the copy they began with.
ApplicationLostOnlyByOverlap ==
    \A a \in Applications \ contested :
        Known(a) => [facts |-> Facts(applications[a]), status |-> applications[a].status] = intended[a]

\* A file's metadata are stored before its application's list names it, and once an upload
\* is past its save the list names it, unless another upload had the list in hand meanwhile.
UploadedIsListed ==
    \A d \in Uploads :
        /\ \A a \in Applications : d \in documentList[a] => OnRecord(documents[d])
        /\ OnRecord(documents[d]) =>
               \/ documents[d].app \in contested \/ d \in documentList[documents[d].app]
               \/ \E k \in Clients : uploading[k].pc \in {"readList", "saveList"} /\ uploading[k].doc = d

=============================================================================
