-------------------------------- MODULE Kyc --------------------------------
(***************************************************************************)
(* The identity verification of one user: the row of user_verification,    *)
(* the documents of kyc_documents, and the images in object storage.       *)
(* The user's requests call Jibit, or storage, between their reads and     *)
(* their writes; an admin's decision is one transaction on the locked row. *)
(***************************************************************************)
EXTENDS Integers, FiniteSets

CONSTANTS KycWorkers,      \* the user's requests in flight at a time
          MaxSubmissions,  \* bound on the submissions started
          MaxPerDay        \* kycMaxSubmissionsPerDay

ASSUME KycBounds == {MaxSubmissions, MaxPerDay} \subseteq Nat

Submissions == 1 .. MaxSubmissions
KycIdle == [op |-> "idle", d |-> 0]
InReview == {"pending", "under_review"}

VARIABLES
  kyc,     \* the row: status, the three Jibit steps, and (history) whether the steps approved it
  docs,    \* the documents, by submission
  files,   \* the submissions whose images are stored
  lostFiles, \* (history) images whose deletion failed
  kwork,   \* the requests in flight
  subs,    \* submissions started so far
  bulk,    \* handleBulkAutoApproveKYC has read this user from the replica
  kwallet  \* whether the wallet is there, and whether a creation is under way

kycVars == <<kyc, docs, files, lostFiles, kwork, subs, bulk, kwallet>>

KycInit ==
  /\ kyc = [status |-> "none", shahkar |-> FALSE, face |-> FALSE, card |-> FALSE, auto |-> FALSE]
  /\ docs = [d \in Submissions |-> "none"]
  /\ files = {}
  /\ lostFiles = {}
  /\ kwork = [w \in KycWorkers |-> KycIdle]
  /\ subs = 0
  /\ bulk = FALSE
  /\ kwallet = [there |-> FALSE, job |-> FALSE]

KycGoes(w, op, d) == kwork' = [kwork EXCEPT ![w] = [op |-> op, d |-> d]]

\* handleKYCVerifyPhone: Jibit matched the phone with the national code.
VerifyPhone ==
  /\ kyc' = [kyc EXCEPT !.shahkar = TRUE,
                        !.status = IF @ \in {"none", "rejected"} THEN "pending" ELSE @]
  /\ UNCHANGED <<docs, files, lostFiles, kwork, subs, bulk, kwallet>>

\* handleKYCVerifyFace and handleKYCVerifyCard read the row before they call Jibit ...
BeginVerifyFace(w) ==
  /\ kwork[w] = KycIdle /\ kyc.shahkar
  /\ KycGoes(w, "face", 0)
  /\ UNCHANGED <<kyc, docs, files, lostFiles, subs, bulk, kwallet>>

BeginVerifyCard(w) ==
  /\ kwork[w] = KycIdle /\ kyc.shahkar /\ kyc.face
  /\ KycGoes(w, "card", 0)
  /\ UNCHANGED <<kyc, docs, files, lostFiles, subs, bulk, kwallet>>

\* ... and write the outcome into whatever row is there afterwards; an error writes nothing.
VerifyFace(w) ==
  /\ kwork[w].op = "face"
  /\ KycGoes(w, "idle", 0)
  /\ \/ \E live \in BOOLEAN : kyc' = [kyc EXCEPT !.face = live]
     \/ UNCHANGED kyc
  /\ UNCHANGED <<docs, files, lostFiles, subs, bulk, kwallet>>

VerifyCard(w) ==
  /\ kwork[w].op = "card"
  /\ KycGoes(w, "idle", 0)
  /\ \/ kyc' = [kyc EXCEPT !.card = TRUE, !.status = "verified", !.auto = TRUE]
     \/ UNCHANGED kyc
  /\ UNCHANGED <<docs, files, lostFiles, subs, bulk, kwallet>>

\* handleKYCSubmit counts the submissions of the day and reads the status ...
BeginSubmit(w) ==
  /\ kwork[w] = KycIdle /\ subs < MaxSubmissions
  /\ Cardinality({d \in Submissions : docs[d] # "none"}) < MaxPerDay
  /\ kyc.status \notin InReview
  /\ subs' = subs + 1
  /\ KycGoes(w, "upload", subs + 1)
  /\ UNCHANGED <<kyc, docs, files, lostFiles, bulk, kwallet>>

\* ... uploads the images (a failed upload deletes the earlier ones) ...
UploadImages(w) ==
  /\ kwork[w].op = "upload"
  /\ \/ files' = files \cup {kwork[w].d} /\ KycGoes(w, "commit", kwork[w].d) /\ UNCHANGED lostFiles
     \/ KycGoes(w, "idle", 0) /\ UNCHANGED <<files, lostFiles>>
     \/ /\ KycGoes(w, "idle", 0)
        /\ files' = files \cup {kwork[w].d}
        /\ lostFiles' = lostFiles \cup {kwork[w].d}
  /\ UNCHANGED <<kyc, docs, subs, bulk, kwallet>>

\* An upsert that leaves a verified row as it is.
SubmitKeepsVerified(w) ==
  /\ kwork[w].op = "commit"
  /\ KycGoes(w, "idle", 0)
  /\ docs' = [docs EXCEPT ![kwork[w].d] = "pending"]
  /\ kyc' = [kyc EXCEPT !.status = IF @ = "verified" THEN @ ELSE "pending"]
  /\ UNCHANGED <<files, lostFiles, subs, bulk, kwallet>>

\* ... and writes the row, the document and the audit entry in one transaction,
\* whatever the row's status has become.
SubmitKYC(w) ==
  /\ kwork[w].op = "commit"
  /\ KycGoes(w, "idle", 0)
  /\ docs' = [docs EXCEPT ![kwork[w].d] = "pending"]
  /\ kyc' = [kyc EXCEPT !.status = "pending", !.auto = FALSE]
  /\ UNCHANGED <<files, lostFiles, subs, bulk, kwallet>>

\* A transaction that fails: the deferred cleanup deletes the images, or fails too.
SubmitFails(w) ==
  /\ kwork[w].op = "commit"
  /\ KycGoes(w, "idle", 0)
  /\ \/ files' = files \ {kwork[w].d} /\ UNCHANGED lostFiles
     \/ lostFiles' = lostFiles \cup {kwork[w].d} /\ UNCHANGED files
  /\ UNCHANGED <<kyc, docs, subs, bulk, kwallet>>

Decided(to) == [d \in Submissions |-> IF docs[d] \in InReview THEN to ELSE docs[d]]

\* handleApproveKYC; a goroutine then creates the wallet.
ApproveKYC ==
  /\ kyc.status \in InReview
  /\ kyc' = [kyc EXCEPT !.status = "verified", !.auto = FALSE]
  /\ docs' = Decided("verified")
  /\ kwallet' = [kwallet EXCEPT !.job = TRUE]
  /\ UNCHANGED <<files, lostFiles, kwork, subs, bulk>>

RejectKYC ==
  /\ kyc.status \in InReview
  /\ kyc' = [kyc EXCEPT !.status = "rejected"]
  /\ docs' = Decided("rejected")
  /\ UNCHANGED <<files, lostFiles, kwork, subs, bulk, kwallet>>

RequestKYCInfo ==
  /\ kyc.status = "pending"
  /\ kyc' = [kyc EXCEPT !.status = "under_review"]
  /\ UNCHANGED <<docs, files, lostFiles, kwork, subs, bulk, kwallet>>

\* handleBulkAutoApproveKYC selects users on a replica by their three steps, ...
BulkSelect ==
  /\ ~bulk
  /\ kyc.status \in InReview /\ kyc.shahkar /\ kyc.face /\ kyc.card
  /\ bulk' = TRUE
  /\ UNCHANGED <<kyc, docs, files, lostFiles, kwork, subs, kwallet>>

\* ... and approves each under its lock, when its status still is in review.
BulkAutoApprove ==
  /\ bulk
  /\ bulk' = FALSE
  /\ IF kyc.status \in InReview
     THEN /\ kyc' = [kyc EXCEPT !.status = "verified", !.auto = FALSE]
          /\ docs' = Decided("verified")
          /\ kwallet' = [kwallet EXCEPT !.job = TRUE]
     ELSE UNCHANGED <<kyc, docs, kwallet>>
  /\ UNCHANGED <<files, lostFiles, kwork, subs>>

\* The goroutine kyc-ensure-wallet, which may fail.
EnsureWallet ==
  /\ kwallet.job
  /\ kwallet' \in {[there |-> TRUE, job |-> FALSE], [kwallet EXCEPT !.job = FALSE]}
  /\ UNCHANGED <<kyc, docs, files, lostFiles, kwork, subs, bulk>>

KycNext ==
  \/ VerifyPhone \/ ApproveKYC \/ RejectKYC \/ RequestKYCInfo \/ BulkSelect \/ BulkAutoApprove
  \/ EnsureWallet
  \/ \E w \in KycWorkers : \/ BeginVerifyFace(w) \/ VerifyFace(w) \/ BeginVerifyCard(w) \/ VerifyCard(w)
                           \/ BeginSubmit(w) \/ UploadImages(w) \/ SubmitKYC(w) \/ SubmitFails(w)

\* A document nobody has decided on belongs to a row that is in review (or that
\* the three Jibit steps approved over the document): a submission that was
\* uploading while an admin decided reopens the row.
OpenDocsInReview ==
  (\E d \in Submissions : docs[d] \in InReview) => kyc.status \in InReview \/ kyc.auto

\* Every document has its images, and every stored image has its document, a
\* request in flight, or a deletion that failed.
DocumentsHaveFiles ==
  /\ \A d \in Submissions : docs[d] # "none" => d \in files
  /\ \A d \in files : \/ docs[d] # "none" \/ d \in lostFiles
                      \/ \E w \in KycWorkers : kwork[w] = [op |-> "commit", d |-> d]
=============================================================================
