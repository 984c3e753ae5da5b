--------------------------- MODULE ServicesProofs ---------------------------
(***************************************************************************)
(* Proofs about the services around the contests: accounts, the admin      *)
(* panel, support tickets, identity checks, operational alerts, one-time   *)
(* codes, the alerts and reminders of the notifications, and what guards   *)
(* dependencies: breakers, limiters, the read pool.  Each promise gets an  *)
(* invariant that every step of its part keeps; PlatformProofs puts them   *)
(* under the specification that runs the parts.                            *)
(***************************************************************************)
EXTENDS Accounts, AdminAccess, Tickets, Kyc, Alerting, SecurityCodes, Notifications, Resilience,
        ReadPool, SumTheorems

-----------------------------------------------------------------------------
(* Support tickets. *)

\* Every message in flight has a number of its own, neither committed nor
\* stray, and a reply is to a ticket that exists.
TicketsFlow ==
  /\ begun \in Nat
  /\ ticket \in [status : TicketStatuses \cup {"none"}, closedAt : BOOLEAN, admin : Admins \cup {"none"}]
  /\ rwait \in [Repliers -> [op : {"idle", "create", "reply"}, m : 0 .. begun,
                             who : Admins \cup {"user", "none"}]]
  /\ messages \subseteq 1 .. begun /\ strayed \subseteq 1 .. begun
  /\ seenStatus # "none" => ticket.status # "none"
  /\ \A w \in Repliers :
       /\ rwait[w].op = "reply" => ticket.status # "none"
       /\ rwait[w].op # "idle" => rwait[w].m \in (1 .. begun) \ (messages \cup strayed)
       /\ \A v \in Repliers : v # w /\ rwait[w].op # "idle" /\ rwait[v].op # "idle"
                                => rwait[v].m # rwait[w].m

TicketsInv == TicketsFlow /\ LastWordAwaitsSupport

\* At first there is no ticket.
LEMMA TicketsStart == TicketInit => TicketsInv
BY DEF TicketInit, TicketsInv, TicketsFlow, LastWordAwaitsSupport, ReplyIdle

\* What the last word says of the ticket survives every step.
LEMMA LastWordStep ==
  ASSUME TicketsInv, [TicketNext]_ticketVars
  PROVE  /\ (latest = "user" => ticket.status \in {"open", "user_replied"})'
         /\ (latest = "admin" => ticket.status = "answered" /\ ticket.admin \in Admins)'
BY DEF TicketsInv, TicketsFlow, LastWordAwaitsSupport, TicketNext, ticketVars, CreateTicket,
       BeginReply, CommitTicket, UserReply, AdminReply, ReplyFails, CloseTicket, AdminUpdateStatus,
       AdminAssignTicket, ReplicaCatchesUp

\* Every step keeps the messages in flight apart.
LEMMA TicketsFlowStep ==
  ASSUME TicketsInv, [TicketNext]_ticketVars
  PROVE  TicketsFlow' /\ (messages \cap strayed = {})'
<1>1. ASSUME NEW w \in Repliers, CreateTicket(w)
      PROVE  TicketsFlow' /\ (messages \cap strayed = {})'
  BY <1>1 DEF TicketsInv, TicketsFlow, LastWordAwaitsSupport, CreateTicket, Replies, ReplyIdle
<1>2. ASSUME NEW w \in Repliers, NEW who \in Admins \cup {"user"}, BeginReply(w, who)
      PROVE  TicketsFlow' /\ (messages \cap strayed = {})'
  BY <1>2 DEF TicketsInv, TicketsFlow, LastWordAwaitsSupport, BeginReply, Replies, ReplyIdle
<1>3. ASSUME NEW w \in Repliers, CommitTicket(w) \/ UserReply(w) \/ AdminReply(w)
      PROVE  TicketsFlow' /\ (messages \cap strayed = {})'
  <2>1. /\ rwait[w].op # "idle" /\ rwait' = [rwait EXCEPT ![w] = ReplyIdle]
        /\ messages' = messages \cup {rwait[w].m} /\ UNCHANGED <<seenStatus, strayed, begun>>
    BY <1>3 DEF CommitTicket, UserReply, AdminReply, Replies, ReplyIdle
  <2>2. /\ ticket' \in [status : TicketStatuses \cup {"none"}, closedAt : BOOLEAN,
                        admin : Admins \cup {"none"}]
        /\ ticket'.status # "none"
    BY <1>3 DEF CommitTicket, UserReply, AdminReply, TicketsInv, TicketsFlow, TicketStatuses
  <2>3. rwait[w].m \in 1 .. begun'
    BY <2>1 DEF TicketsInv, TicketsFlow
  <2>4. \A v \in Repliers : rwait'[v] = IF v = w THEN ReplyIdle ELSE rwait[v]
    BY <2>1 DEF TicketsInv, TicketsFlow
  <2>5. ReplyIdle.op = "idle" /\ rwait[w].m \notin strayed
    BY <2>1 DEF ReplyIdle, TicketsInv, TicketsFlow
  <2>6. rwait' \in [Repliers -> [op : {"idle", "create", "reply"}, m : 0 .. begun',
                                who : Admins \cup {"user", "none"}]]
    BY <2>1 DEF ReplyIdle, TicketsInv, TicketsFlow
  <2>7. \A v \in Repliers :
          /\ rwait'[v].op = "reply" => ticket'.status # "none"
          /\ rwait'[v].op # "idle" => rwait'[v].m \in (1 .. begun') \ (messages' \cup strayed')
    BY <2>1, <2>2, <2>4, <2>5 DEF TicketsInv, TicketsFlow
  <2>8. \A v, x \in Repliers : x # v /\ rwait'[v].op # "idle" /\ rwait'[x].op # "idle"
                                 => rwait'[x].m # rwait'[v].m
    BY <2>4, <2>5 DEF TicketsInv, TicketsFlow
  <2>9. (messages \cap strayed = {})'
    BY <2>1, <2>5 DEF TicketsInv, LastWordAwaitsSupport
  <2>10. begun' \in Nat /\ messages' \subseteq 1 .. begun' /\ strayed' \subseteq 1 .. begun'
    BY <2>1, <2>3 DEF TicketsInv, TicketsFlow
  <2> QED BY <2>2, <2>6, <2>7, <2>8, <2>9, <2>10 DEF TicketsFlow
<1>4. ASSUME NEW w \in Repliers, ReplyFails(w)
      PROVE  TicketsFlow' /\ (messages \cap strayed = {})'
  <2>1. /\ rwait[w].op # "idle" /\ rwait' = [rwait EXCEPT ![w] = ReplyIdle]
        /\ strayed \subseteq strayed' /\ strayed' \subseteq strayed \cup {rwait[w].m}
        /\ UNCHANGED <<ticket, messages, seenStatus, begun>>
    BY <1>4 DEF ReplyFails, Replies, ReplyIdle
  <2>2. rwait[w].m \in 1 .. begun
    BY <2>1 DEF TicketsInv, TicketsFlow
  <2> QED BY <2>1, <2>2 DEF TicketsInv, TicketsFlow, LastWordAwaitsSupport, ReplyIdle
<1>5. CASE CloseTicket \/ ReplicaCatchesUp \/ (\E s \in TicketStatuses : AdminUpdateStatus(s))
           \/ (\E a \in Admins : AdminAssignTicket(a))
  <2>1. UNCHANGED <<messages, strayed, rwait, begun>>
    BY <1>5 DEF CloseTicket, ReplicaCatchesUp, AdminUpdateStatus, AdminAssignTicket
  <2>2. ticket \in [status : TicketStatuses \cup {"none"}, closedAt : BOOLEAN, admin : Admins \cup {"none"}]
    BY DEF TicketsInv, TicketsFlow
  <2>3. /\ ticket' \in [status : TicketStatuses \cup {"none"}, closedAt : BOOLEAN,
                        admin : Admins \cup {"none"}]
        /\ ticket.status # "none" => ticket'.status # "none"
        /\ seenStatus' # "none" => seenStatus # "none" \/ ticket.status # "none"
    <3>1. CASE ReplicaCatchesUp
      BY <2>2, <3>1 DEF ReplicaCatchesUp
    <3>2. CASE CloseTicket
      BY <2>2, <3>2 DEF CloseTicket, TicketStatuses, TicketEnds
    <3>3. ASSUME NEW s \in TicketStatuses, AdminUpdateStatus(s)
          PROVE  /\ ticket' \in [status : TicketStatuses \cup {"none"}, closedAt : BOOLEAN,
                                 admin : Admins \cup {"none"}]
                 /\ ticket'.status # "none" /\ seenStatus' = seenStatus
      <4> DEFINE ended == s \in TicketEnds
      <4>1. ended \in BOOLEAN
        OBVIOUS
      <4>2. ticket' = [ticket EXCEPT !.status = s, !.closedAt = ended] /\ seenStatus' = seenStatus
        BY <3>3 DEF AdminUpdateStatus
      <4> HIDE DEF ended
      <4> QED BY <2>2, <4>1, <4>2 DEF TicketStatuses
    <3>4. ASSUME NEW a \in Admins, AdminAssignTicket(a)
          PROVE  /\ ticket' \in [status : TicketStatuses \cup {"none"}, closedAt : BOOLEAN,
                                 admin : Admins \cup {"none"}]
                 /\ ticket'.status = ticket.status /\ seenStatus' = seenStatus
      BY <2>2, <3>4 DEF AdminAssignTicket
    <3> QED BY <1>5, <3>1, <3>2, <3>3, <3>4
  <2> QED BY <2>1, <2>3 DEF TicketsInv, TicketsFlow, LastWordAwaitsSupport
<1>6. CASE UNCHANGED ticketVars
  BY <1>6 DEF TicketsInv, TicketsFlow, LastWordAwaitsSupport, ticketVars
<1> QED BY <1>1, <1>2, <1>3, <1>4, <1>5, <1>6 DEF TicketNext

\* Every step of the tickets keeps the invariant.
LEMMA TicketsStep == TicketsInv /\ [TicketNext]_ticketVars => TicketsInv'
BY LastWordStep, TicketsFlowStep DEF TicketsInv, LastWordAwaitsSupport

-----------------------------------------------------------------------------
(* Identity checks. *)

Uploading == {"upload", "commit"}
KycRows == [status : {"none", "pending", "under_review", "verified", "rejected"},
            shahkar : BOOLEAN, face : BOOLEAN, card : BOOLEAN, auto : BOOLEAN]

\* Every submission in flight has a number of its own, no document yet, and its
\* images are stored only once they are ready to commit.
SubmissionsFlow ==
  /\ subs \in 0 .. MaxSubmissions
  /\ docs \in [Submissions -> {"none", "pending", "under_review", "verified", "rejected"}]
  /\ kwork \in [KycWorkers -> [op : {"idle", "face", "card"} \cup Uploading, d : 0 .. subs]]
  /\ files \subseteq 1 .. subs /\ lostFiles \subseteq 1 .. subs
  /\ \A d \in Submissions : d > subs => docs[d] = "none"
  /\ \A w \in KycWorkers : kwork[w].op \in Uploading =>
       /\ kwork[w].d # 0 /\ docs[kwork[w].d] = "none" /\ kwork[w].d \notin lostFiles
       /\ kwork[w].op = "commit" <=> kwork[w].d \in files
       /\ \A v \in KycWorkers : v # w /\ kwork[v].op \in Uploading => kwork[v].d # kwork[w].d

KycInv == kyc \in KycRows /\ SubmissionsFlow /\ OpenDocsInReview /\ DocumentsHaveFiles

\* At first nothing was submitted.
LEMMA KycStart == KycInit => KycInv
BY KycBounds DEF KycInit, KycInv, KycRows, SubmissionsFlow, OpenDocsInReview, DocumentsHaveFiles,
                 InReview, Submissions, KycIdle, Uploading

\* A document nobody decided on keeps its row in review.
LEMMA ReviewStep ==
  ASSUME KycInv, [KycNext]_kycVars
  PROVE  (kyc \in KycRows)' /\ OpenDocsInReview'
<1>0. /\ kyc \in KycRows
      /\ docs \in [Submissions -> {"none", "pending", "under_review", "verified", "rejected"}]
      /\ OpenDocsInReview
  BY DEF KycInv, SubmissionsFlow
<1>1. CASE VerifyPhone
  BY <1>0, <1>1 DEF VerifyPhone, KycRows, OpenDocsInReview, InReview
<1>2. CASE RejectKYC
  <2>1. \A d \in Submissions : docs'[d] \notin InReview
    BY <1>0, <1>2 DEF RejectKYC, Decided, InReview
  <2> QED BY <1>0, <1>2, <2>1 DEF RejectKYC, KycRows, OpenDocsInReview
<1>3. CASE ApproveKYC \/ BulkAutoApprove
  <2>1. CASE kyc.status \in InReview
    <3>1. \A d \in Submissions : docs'[d] \notin InReview
      BY <1>0, <1>3, <2>1 DEF ApproveKYC, BulkAutoApprove, Decided, InReview
    <3>2. kyc' = [kyc EXCEPT !.status = "verified", !.auto = FALSE]
      BY <1>3, <2>1 DEF ApproveKYC, BulkAutoApprove
    <3> QED BY <1>0, <3>1, <3>2 DEF KycRows, OpenDocsInReview
  <2>2. CASE kyc.status \notin InReview
    BY <1>0, <1>3, <2>2 DEF ApproveKYC, BulkAutoApprove, OpenDocsInReview
  <2> QED BY <2>1, <2>2
<1>4. CASE RequestKYCInfo
  BY <1>0, <1>4 DEF RequestKYCInfo, KycRows, OpenDocsInReview, InReview
<1>5. ASSUME NEW w \in KycWorkers, VerifyFace(w) PROVE (kyc \in KycRows)' /\ OpenDocsInReview'
  BY <1>0, <1>5 DEF VerifyFace, KycRows, OpenDocsInReview, InReview
<1>6. ASSUME NEW w \in KycWorkers, VerifyCard(w) PROVE (kyc \in KycRows)' /\ OpenDocsInReview'
  BY <1>0, <1>6 DEF VerifyCard, KycRows, OpenDocsInReview, InReview
<1>7. ASSUME NEW w \in KycWorkers, SubmitKYC(w) PROVE (kyc \in KycRows)' /\ OpenDocsInReview'
  BY <1>0, <1>7 DEF SubmitKYC, KycRows, OpenDocsInReview, InReview
<1>8. ASSUME UNCHANGED <<kyc, docs>> PROVE (kyc \in KycRows)' /\ OpenDocsInReview'
  BY <1>0, <1>8 DEF OpenDocsInReview
<1> QED
  BY <1>1, <1>2, <1>3, <1>4, <1>5, <1>6, <1>7, <1>8
     DEF KycNext, kycVars, BulkSelect, EnsureWallet, BeginVerifyFace, BeginVerifyCard, BeginSubmit,
         UploadImages, SubmitFails

\* What concerns no submission keeps the documents, the images and the requests.
LEMMA FlowQuiet ==
  ASSUME SubmissionsFlow, DocumentsHaveFiles, UNCHANGED <<files, lostFiles, subs>>,
         docs' = docs \/ (\E to \in {"verified", "rejected"} : docs' = Decided(to)),
         \/ kwork' = kwork
         \/ \E w \in KycWorkers, op \in {"idle", "face", "card"} :
              kwork[w].op \in {"idle", "face", "card"} /\ KycGoes(w, op, 0)
  PROVE  SubmissionsFlow' /\ DocumentsHaveFiles'
<1>1. \A d \in Submissions : docs'[d] = "none" <=> docs[d] = "none"
  BY DEF SubmissionsFlow, Decided, InReview
<1>2. docs' \in [Submissions -> {"none", "pending", "under_review", "verified", "rejected"}]
  BY DEF SubmissionsFlow, Decided, InReview
<1>3. kwork' \in [KycWorkers -> [op : {"idle", "face", "card"} \cup Uploading, d : 0 .. subs]]
  BY DEF SubmissionsFlow, KycGoes
<1>4. \A w \in KycWorkers : \/ kwork'[w] = kwork[w]
                            \/ kwork'[w].op \notin Uploading /\ kwork[w].op \notin Uploading
  BY DEF SubmissionsFlow, KycGoes, Uploading
<1>5. \A w \in KycWorkers : kwork[w].op \in Uploading <=> kwork'[w].op \in Uploading
  BY <1>4
<1>6. \A w \in KycWorkers : kwork[w].op \in Uploading => kwork'[w] = kwork[w]
                                                         /\ kwork[w].d \in Submissions
  BY <1>4, KycBounds DEF SubmissionsFlow, Submissions
<1>7. SubmissionsFlow'
  BY <1>1, <1>2, <1>3, <1>5, <1>6 DEF SubmissionsFlow
<1>8. \A w \in KycWorkers, d \in files : kwork[w] = [op |-> "commit", d |-> d]
                                      => kwork'[w] = kwork[w]
  BY <1>6 DEF Uploading
<1>9. files \subseteq Submissions
  BY KycBounds DEF SubmissionsFlow, Submissions
<1> QED BY <1>1, <1>7, <1>8, <1>9 DEF DocumentsHaveFiles

\* A submission begins.
LEMMA SubmissionBegins ==
  ASSUME SubmissionsFlow, DocumentsHaveFiles, NEW w \in KycWorkers, BeginSubmit(w)
  PROVE  SubmissionsFlow' /\ DocumentsHaveFiles'
<1> DEFINE g == [op |-> "upload", d |-> subs + 1]
<1>1. /\ subs \in Nat /\ subs + 1 \in Submissions /\ subs' = subs + 1 /\ subs + 1 <= MaxSubmissions
      /\ UNCHANGED <<docs, files, lostFiles>>
  BY KycBounds DEF BeginSubmit, SubmissionsFlow, Submissions
<1>2. \A v \in KycWorkers : kwork'[v] = IF v = w THEN g ELSE kwork[v]
  BY DEF BeginSubmit, KycGoes, SubmissionsFlow
<1>3. kwork' \in [KycWorkers -> [op : {"idle", "face", "card"} \cup Uploading, d : 0 .. subs']]
  BY <1>1 DEF BeginSubmit, KycGoes, SubmissionsFlow, Uploading
<1>4. docs[subs + 1] = "none" /\ subs + 1 \notin files \cup lostFiles
  BY <1>1 DEF SubmissionsFlow
<1>5. \A v \in KycWorkers : v # w /\ kwork[v].op \in Uploading => kwork[v].d # subs + 1
  BY <1>1 DEF SubmissionsFlow
<1>6. g.op = "upload" /\ g.d = subs + 1 /\ kwork[w].op \notin Uploading
  BY DEF BeginSubmit, KycIdle, Uploading
<1> HIDE DEF g
<1>7. \A v \in KycWorkers : kwork'[v].op \in Uploading =>
        /\ kwork'[v].d # 0 /\ docs[kwork'[v].d] = "none" /\ kwork'[v].d \notin lostFiles
        /\ kwork'[v].op = "commit" <=> kwork'[v].d \in files
  BY <1>1, <1>2, <1>4, <1>6 DEF SubmissionsFlow
<1>8. \A v, x \in KycWorkers :
        v # x /\ kwork'[v].op \in Uploading /\ kwork'[x].op \in Uploading => kwork'[v].d # kwork'[x].d
  BY <1>2, <1>5, <1>6 DEF SubmissionsFlow
<1>9. SubmissionsFlow'
  <2>1. subs' \in 0 .. MaxSubmissions /\ files' \subseteq 1 .. subs' /\ lostFiles' \subseteq 1 .. subs'
    BY <1>1, KycBounds DEF SubmissionsFlow
  <2>2. \A d \in Submissions : d > subs' => docs'[d] = "none"
    BY <1>1 DEF SubmissionsFlow, Submissions
  <2>3. docs' \in [Submissions -> {"none", "pending", "under_review", "verified", "rejected"}]
    BY <1>1 DEF SubmissionsFlow
  <2> QED BY <1>1, <1>3, <1>7, <1>8, <2>1, <2>2, <2>3 DEF SubmissionsFlow
<1>10. \A v \in KycWorkers, d \in files : kwork[v] = [op |-> "commit", d |-> d] => kwork'[v] = kwork[v]
  BY <1>2, <1>6 DEF Uploading
<1> QED BY <1>1, <1>9, <1>10 DEF DocumentsHaveFiles

\* A submission goes on or ends: it leaves its images, or the record of an image
\* that could not be deleted, or its document.
LEMMA SubmissionGoesOn ==
  ASSUME SubmissionsFlow, DocumentsHaveFiles, NEW w \in KycWorkers,
         UploadImages(w) \/ SubmitKYC(w) \/ SubmitFails(w)
  PROVE  SubmissionsFlow' /\ DocumentsHaveFiles'
<1> DEFINE e == kwork[w].d
<1>1. /\ kwork[w].op \in Uploading /\ e \in 1 .. subs /\ subs \in 0 .. MaxSubmissions /\ subs' = subs
      /\ e \in Submissions /\ docs[e] = "none" /\ e \notin lostFiles
      /\ kwork[w].op = "commit" <=> e \in files
  <2>1. kwork[w].op \in Uploading /\ subs' = subs
    BY DEF UploadImages, SubmitKYC, SubmitFails, Uploading
  <2>2. e \in 0 .. subs /\ e # 0 /\ subs \in 0 .. MaxSubmissions
    BY <2>1 DEF SubmissionsFlow
  <2>3. e \in 1 .. subs /\ e \in Submissions
    BY <2>2, KycBounds DEF Submissions
  <2> QED BY <2>1, <2>2, <2>3 DEF SubmissionsFlow
<1>2. PICK g \in {[op |-> "idle", d |-> 0], [op |-> "commit", d |-> e]} :
        /\ kwork' = [kwork EXCEPT ![w] = g]
        /\ \A d \in Submissions : docs'[d] # docs[d] => d = e
        /\ files' \ {e} = files \ {e} /\ lostFiles' \ {e} = lostFiles \ {e}
        /\ docs' \in [Submissions -> {"none", "pending", "under_review", "verified", "rejected"}]
        /\ docs'[e] # "none" => e \in files'
        /\ g.op = "commit" => e \in files' \ lostFiles' /\ docs'[e] = "none"
        /\ e \in files' => docs'[e] # "none" \/ e \in lostFiles' \/ g.op = "commit"
  <2>1. docs \in [Submissions -> {"none", "pending", "under_review", "verified", "rejected"}]
    BY DEF SubmissionsFlow
  <2>2. CASE UploadImages(w)
    BY <1>1, <2>1, <2>2 DEF UploadImages, KycGoes
  <2>3. CASE SubmitKYC(w)
    BY <1>1, <2>1, <2>3 DEF SubmitKYC, KycGoes
  <2>4. CASE SubmitFails(w)
    BY <1>1, <2>1, <2>4 DEF SubmitFails, KycGoes
  <2> QED BY <2>2, <2>3, <2>4
<1>3. \A v \in KycWorkers : kwork'[v] = IF v = w THEN g ELSE kwork[v]
  BY <1>2 DEF SubmissionsFlow
<1>4. /\ g \in [op : {"idle", "face", "card"} \cup Uploading, d : 0 .. subs]
      /\ g.op \in Uploading => g.op = "commit" /\ g.d = e /\ g = [op |-> "commit", d |-> e]
  BY <1>1 DEF Uploading
<1>5. \A v \in KycWorkers : v # w /\ kwork[v].op \in Uploading => kwork[v].d # e /\ kwork[v].d \in Submissions
  BY <1>1, KycBounds DEF SubmissionsFlow, Submissions
<1> HIDE DEF e
<1>6. \A v \in KycWorkers : kwork'[v].op \in Uploading =>
        /\ kwork'[v].d # 0 /\ docs'[kwork'[v].d] = "none" /\ kwork'[v].d \notin lostFiles'
        /\ kwork'[v].op = "commit" <=> kwork'[v].d \in files'
  <2> SUFFICES ASSUME NEW v \in KycWorkers, kwork'[v].op \in Uploading
               PROVE  /\ kwork'[v].d # 0 /\ docs'[kwork'[v].d] = "none" /\ kwork'[v].d \notin lostFiles'
                      /\ kwork'[v].op = "commit" <=> kwork'[v].d \in files'
    OBVIOUS
  <2>1. CASE v = w
    BY <1>1, <1>2, <1>3, <1>4, <2>1
  <2>2. CASE v # w
    <3>1. kwork'[v] = kwork[v] /\ kwork[v].d # e /\ kwork[v].d \in Submissions
      BY <1>3, <1>5, <2>2
    <3>2. /\ docs'[kwork[v].d] = docs[kwork[v].d]
          /\ kwork[v].d \in files' <=> kwork[v].d \in files
          /\ kwork[v].d \in lostFiles' <=> kwork[v].d \in lostFiles
      BY <1>2, <3>1
    <3> QED BY <3>1, <3>2 DEF SubmissionsFlow
  <2> QED BY <2>1, <2>2
<1>7. \A v, x \in KycWorkers :
        v # x /\ kwork'[v].op \in Uploading /\ kwork'[x].op \in Uploading => kwork'[v].d # kwork'[x].d
  BY <1>3, <1>4, <1>5 DEF SubmissionsFlow
<1>8. SubmissionsFlow'
  <2>1. files' \subseteq 1 .. subs /\ lostFiles' \subseteq 1 .. subs
    BY <1>1, <1>2 DEF SubmissionsFlow
  <2>2. kwork' \in [KycWorkers -> [op : {"idle", "face", "card"} \cup Uploading, d : 0 .. subs]]
    BY <1>2, <1>4 DEF SubmissionsFlow
  <2>3. \A d \in Submissions : d > subs => docs'[d] = "none"
    BY <1>1, <1>2 DEF SubmissionsFlow
  <2> QED BY <1>1, <1>2, <1>6, <1>7, <2>1, <2>2, <2>3 DEF SubmissionsFlow
<1>9. \A d \in Submissions : docs'[d] # "none" => d \in files'
  BY <1>2 DEF DocumentsHaveFiles
<1>10. ASSUME NEW d \in files', d # e
       PROVE  \/ docs'[d] # "none" \/ d \in lostFiles'
              \/ \E v \in KycWorkers : kwork'[v] = [op |-> "commit", d |-> d]
  <2>1. /\ d \in files /\ d \in Submissions /\ docs'[d] = docs[d]
        /\ d \in lostFiles => d \in lostFiles'
    <3>1. d \in files' \ {e}
      BY <1>10
    <3>2. d \in files /\ (d \in lostFiles => d \in lostFiles')
      BY <1>2, <3>1
    <3>3. d \in Submissions
      BY <3>2, KycBounds DEF SubmissionsFlow, Submissions
    <3> QED BY <1>2, <1>10, <3>2, <3>3
  <2>2. \A v \in KycWorkers : kwork[v] = [op |-> "commit", d |-> d] => kwork'[v] = kwork[v]
    BY <1>3, <1>10 DEF e
  <2> QED BY <2>1, <2>2 DEF DocumentsHaveFiles
<1>11. e \in files' => \/ docs'[e] # "none" \/ e \in lostFiles'
                       \/ \E v \in KycWorkers : kwork'[v] = [op |-> "commit", d |-> e]
  BY <1>2, <1>3, <1>4 DEF Uploading
<1> QED BY <1>8, <1>9, <1>10, <1>11 DEF DocumentsHaveFiles

\* Every step of the identity checks keeps the invariant.
LEMMA KycStep == KycInv /\ [KycNext]_kycVars => KycInv'
<1> SUFFICES ASSUME KycInv, [KycNext]_kycVars PROVE SubmissionsFlow' /\ DocumentsHaveFiles'
  BY ReviewStep DEF KycInv
<1>0. SubmissionsFlow /\ DocumentsHaveFiles
  BY DEF KycInv
<1>1. CASE VerifyPhone \/ ApproveKYC \/ RejectKYC \/ RequestKYCInfo \/ BulkSelect \/ BulkAutoApprove
           \/ EnsureWallet \/ UNCHANGED kycVars
  <2>1. UNCHANGED <<files, lostFiles, subs, kwork>>
    BY <1>1 DEF VerifyPhone, ApproveKYC, RejectKYC, RequestKYCInfo, BulkSelect, BulkAutoApprove,
                EnsureWallet, kycVars
  <2>2. docs' = docs \/ (\E to \in {"verified", "rejected"} : docs' = Decided(to))
    BY <1>1 DEF VerifyPhone, ApproveKYC, RejectKYC, RequestKYCInfo, BulkSelect, BulkAutoApprove,
                EnsureWallet, kycVars
  <2> QED BY <1>0, <2>1, <2>2, FlowQuiet
<1>2. ASSUME NEW w \in KycWorkers,
             BeginVerifyFace(w) \/ VerifyFace(w) \/ BeginVerifyCard(w) \/ VerifyCard(w)
      PROVE  SubmissionsFlow' /\ DocumentsHaveFiles'
  <2>1. /\ UNCHANGED <<files, lostFiles, subs, docs>>
        /\ kwork[w].op \in {"idle", "face", "card"}
        /\ \E op \in {"idle", "face", "card"} : KycGoes(w, op, 0)
    BY <1>2 DEF BeginVerifyFace, VerifyFace, BeginVerifyCard, VerifyCard, KycIdle
  <2> QED BY <1>0, <2>1, FlowQuiet
<1> QED BY <1>0, <1>1, <1>2, SubmissionBegins, SubmissionGoesOn DEF KycNext

-----------------------------------------------------------------------------
(* Operational alerts. *)

\* While the key was not reset, the last alert is the one its entry remembers,
\* and without an entry there has been none; an entry is seen no earlier than
\* it was sent.
AlertsTyped ==
  /\ atime \in Nat /\ raised \in Nat /\ told \in Nat /\ lastAlert \in Int
  /\ hurried \in BOOLEAN /\ hadReset \in BOOLEAN
  /\ agg \in [here : BOOLEAN, count : Nat, sent : Int, seen : Int]

WindowsKept ==
  /\ agg.here => agg.sent <= agg.seen /\ agg.seen <= atime
  /\ agg.here /\ ~hadReset => lastAlert = agg.sent
  /\ ~agg.here /\ ~hadReset => lastAlert = 0 - AlertWindow
  /\ agg.here => Aggregated
  /\ ~agg.here => agg = NoKey

AlertingInv == AlertsTyped /\ WindowsKept /\ OccurrencesTold

\* At first no key is there.
LEMMA AlertingStart == AggregatorInit => AlertingInv
<1> SUFFICES ASSUME AggregatorInit PROVE AlertingInv
  OBVIOUS
<1>1. agg = NoKey /\ ~NoKey.here /\ NoKey \in [here : BOOLEAN, count : Nat, sent : Int, seen : Int]
  BY DEF AggregatorInit, NoKey
<1>2. /\ atime = 0 /\ raised = 0 /\ told = 0 /\ lastAlert = 0 - AlertWindow
      /\ hurried = FALSE /\ hadReset = FALSE
  BY DEF AggregatorInit
<1>3. AlertWindow \in Nat
  BY AlertingAssumption
<1>4. AlertsTyped
  <2>1. hurried \in BOOLEAN /\ hadReset \in BOOLEAN
    BY <1>2, Zenon
  <2>2. atime \in Nat /\ raised \in Nat /\ told \in Nat /\ lastAlert \in Int
    BY <1>2, <1>3
  <2> QED BY <1>1, <2>1, <2>2 DEF AlertsTyped
<1> QED BY <1>1, <1>2, <1>4 DEF AlertingInv, WindowsKept, OccurrencesTold

\* An occurrence of a key of the aggregator.
LEMMA ShouldSendKeeps ==
  ASSUME AlertingInv, ShouldSend
  PROVE  AlertingInv'
<1> DEFINE first == ~Fresh.here
           due == Fresh.here /\ atime - Fresh.sent >= AlertWindow
           fresh == Fresh
<1>1. /\ fresh \in [here : BOOLEAN, count : Nat, sent : Int, seen : Int]
      /\ first \in BOOLEAN /\ due \in BOOLEAN /\ ~(first /\ due)
      /\ fresh.here => fresh = agg
      /\ ~fresh.here => fresh.count = 0 /\ (~agg.here \/ atime - agg.seen > AlertTTL)
  <2>1. agg \in [here : BOOLEAN, count : Nat, sent : Int, seen : Int]
    BY DEF AlertingInv, AlertsTyped
  <2>2. NoKey \in [here : BOOLEAN, count : Nat, sent : Int, seen : Int] /\ ~NoKey.here
    BY DEF NoKey
  <2>3. \/ fresh = agg
        \/ fresh = NoKey /\ (agg.here => atime - agg.seen > AlertTTL)
    <3>1. CASE sender.svc = "router" /\ agg.here /\ atime - agg.seen > AlertTTL
      BY <3>1, Zenon DEF Fresh
    <3>2. CASE ~(sender.svc = "router" /\ agg.here /\ atime - agg.seen > AlertTTL)
      BY <3>2, Zenon DEF Fresh
    <3> QED BY <3>1, <3>2
  <2>4. fresh \in [here : BOOLEAN, count : Nat, sent : Int, seen : Int]
    BY <2>1, <2>2, <2>3
  <2>5. first \in BOOLEAN /\ due \in BOOLEAN /\ ~(first /\ due)
    OBVIOUS
  <2>6. fresh.here => fresh = agg
    BY <2>2, <2>3
  <2>7. ~fresh.here => \/ ~agg.here
                       \/ atime - agg.seen > AlertTTL
    BY <2>3
  <2>8. ~fresh.here => fresh.count = 0
    BY <2>3 DEF AlertingInv, WindowsKept, NoKey
  <2> QED BY <2>4, <2>5, <2>6, <2>7, <2>8
<1>2. /\ agg' = [here |-> TRUE, count |-> IF due THEN 0 ELSE fresh.count + 1,
                 sent |-> IF first \/ due THEN atime ELSE fresh.sent, seen |-> atime]
      /\ raised' = IF first THEN 1 ELSE raised + 1
      /\ told' = IF first THEN 1 ELSE IF due THEN told + fresh.count + 1 ELSE told
      /\ lastAlert' = IF first \/ due THEN atime ELSE lastAlert
      /\ hurried' <=> (hurried \/ ((first \/ due) /\ ~hadReset /\ atime - lastAlert < AlertWindow))
      /\ hadReset' <=> (hadReset /\ ~(first \/ due))
      /\ UNCHANGED <<sender, atime>> /\ Aggregated
  BY DEF ShouldSend, Occurs
<1>3. /\ first <=> ~fresh.here
      /\ due <=> (fresh.here /\ atime - fresh.sent >= AlertWindow)
  OBVIOUS
<1>4. AlertsTyped /\ WindowsKept /\ OccurrencesTold /\ ~hurried
  BY DEF AlertingInv, OccurrencesTold
<1> HIDE DEF first, due, fresh
<1>5. (first \/ due) /\ ~hadReset => atime - lastAlert >= AlertWindow
  <2>1. CASE due
    BY <1>1, <1>3, <1>4, <2>1 DEF AlertsTyped, WindowsKept
  <2>2. CASE first /\ ~agg.here
    BY <1>4, <2>2, AlertingAssumption DEF AlertsTyped, WindowsKept
  <2>3. CASE first /\ agg.here
    BY <1>1, <1>3, <1>4, <2>3, AlertingAssumption DEF AlertsTyped, WindowsKept
  <2> QED BY <2>1, <2>2, <2>3
<1>6. AlertsTyped'
  <2>1. hurried' \in BOOLEAN /\ hadReset' \in BOOLEAN
    BY Zenon DEF ShouldSend, Occurs
  <2>2. atime' \in Nat /\ raised' \in Nat /\ told' \in Nat /\ lastAlert' \in Int
    BY <1>1, <1>2, <1>4 DEF AlertsTyped
  <2>3. agg' \in [here : BOOLEAN, count : Nat, sent : Int, seen : Int]
    BY <1>1, <1>2, <1>4 DEF AlertsTyped
  <2> QED BY <2>1, <2>2, <2>3 DEF AlertsTyped
<1>7. agg'.here /\ agg'.count = (IF due THEN 0 ELSE fresh.count + 1)
      /\ agg'.sent = (IF first \/ due THEN atime ELSE fresh.sent) /\ agg'.seen = atime
  BY <1>2
<1>8. ~hurried'
  <2>1. atime \in Int /\ lastAlert \in Int /\ AlertWindow \in Int
    BY <1>4, AlertingAssumption DEF AlertsTyped
  <2>2. ~((first \/ due) /\ ~hadReset /\ atime - lastAlert < AlertWindow)
    BY <1>5, <2>1
  <2> QED BY <1>2, <1>4, <2>2
<1>9. told' + agg'.count = raised' + 1
  <2>1. CASE first
    BY <1>1, <1>2, <1>3, <1>7, <2>1
  <2>2. CASE due
    BY <1>1, <1>2, <1>3, <1>4, <1>7, <2>2 DEF AlertsTyped, OccurrencesTold
  <2>3. CASE ~first /\ ~due
    BY <1>1, <1>2, <1>3, <1>4, <1>7, <2>3 DEF AlertsTyped, OccurrencesTold
  <2> QED BY <2>1, <2>2, <2>3
<1>10. Aggregated'
  BY <1>2 DEF Aggregated
<1>11. WindowsKept'
  <2>1. agg'.sent <= atime
    BY <1>1, <1>3, <1>4, <1>7 DEF AlertsTyped, WindowsKept
  <2>2. ~hadReset' => lastAlert' = agg'.sent
    BY <1>1, <1>2, <1>3, <1>4, <1>7 DEF AlertsTyped, WindowsKept
  <2> QED BY <1>2, <1>4, <1>7, <1>10, <2>1, <2>2 DEF WindowsKept, AlertsTyped
<1> QED BY <1>6, <1>8, <1>9, <1>10, <1>11 DEF AlertingInv, OccurrencesTold

\* Every step of the aggregator keeps the invariant.
LEMMA AlertingStep == AlertingInv /\ [AggregatorNext]_aggregatorVars => AlertingInv'
<1> SUFFICES ASSUME AlertingInv, [AggregatorNext]_aggregatorVars PROVE AlertingInv'
  OBVIOUS
<1>1. CASE AlertTick
  BY <1>1 DEF AlertTick, AlertingInv, AlertsTyped, WindowsKept, OccurrencesTold, Aggregated
<1>2. CASE SendDirect
  BY <1>2 DEF SendDirect, AlertingInv, AlertsTyped, WindowsKept, OccurrencesTold, Aggregated
<1>3. CASE Reset \/ Cleanup
  <2>1. agg' = NoKey /\ ~NoKey.here /\ NoKey \in [here : BOOLEAN, count : Nat, sent : Int, seen : Int]
    BY <1>3 DEF Reset, Cleanup, NoKey
  <2>2. /\ raised' = 0 /\ told' = 0 /\ hadReset' = TRUE /\ UNCHANGED <<sender, atime, lastAlert, hurried>>
    BY <1>3 DEF Reset, Cleanup
  <2>3. AlertsTyped'
    BY <2>1, <2>2 DEF AlertingInv, AlertsTyped
  <2> QED BY <2>1, <2>2, <2>3 DEF AlertingInv, WindowsKept, OccurrencesTold
<1>4. CASE UNCHANGED aggregatorVars
  BY <1>4 DEF aggregatorVars, AlertingInv, AlertsTyped, WindowsKept, OccurrencesTold, Aggregated
<1> QED BY <1>1, <1>2, <1>3, <1>4, ShouldSendKeeps DEF AggregatorNext

-----------------------------------------------------------------------------
(* One-time codes. *)

\* What the three kinds of codes have in common: codes beyond the last issue are
\* untouched, and no code meets more than its guesses or is accepted twice.
CodesTyped(ops) ==
  /\ made \in 0 .. MaxCodes
  /\ flow \in [Clients -> [op : {"idle"} \cup ops, code : 0 .. made, seen : SUBSET Codes]]
  /\ accepted \in [Codes -> 0 .. 1] /\ wrong \in [Codes -> 0 .. MaxGuesses]
  /\ \A c \in Codes : c > made => accepted[c] = 0 /\ wrong[c] = 0

\* A code that is to be activated belongs to one request and nobody guessed it.
Undelivered(ops) ==
  \A w \in Clients : flow[w].op \in ops =>
    /\ flow[w].code # 0 /\ accepted[flow[w].code] = 0 /\ wrong[flow[w].code] = 0
    /\ \A v \in Clients : v # w /\ flow[v].op \in ops => flow[v].code # flow[w].code

\* Where no password is being set the third promise is idle.
NoResets == tokens = {} /\ flags \in [sets : {0}, verified : BOOLEAN]

OTPInv ==
  /\ CodesTyped({"otpSend", "otpWrong", "otpRight"})
  /\ Undelivered({"otpSend"})
  /\ otp \in [code : 0 .. made, attempts : 0 .. MaxGuesses - 1, cooldown : BOOLEAN, pending : 0 .. made]
  /\ otp.code # 0 =>
       /\ accepted[otp.code] = 0 /\ wrong[otp.code] = otp.attempts
       /\ \A w \in Clients : flow[w].op = "otpSend" => flow[w].code # otp.code
  /\ NoResets

\* At first no password was sent.
LEMMA OTPStart == CodesInit => OTPInv
BY CodesAssumption DEF CodesInit, OTPInv, CodesTyped, Undelivered, NoResets, Quiet, Codes

\* A request ends, or goes on with a code it does not send.
LEMMA FlowEnds ==
  ASSUME NEW ops, NEW sends \in SUBSET ops, CodesTyped(ops), Undelivered(sends), NEW w \in Clients,
         NEW g \in [op : {"idle"} \cup ops, code : 0 .. made, seen : SUBSET Codes],
         flow' = [flow EXCEPT ![w] = g], g.op \notin sends, made' = made,
         accepted' \in [Codes -> 0 .. 1], wrong' \in [Codes -> 0 .. MaxGuesses],
         \A c \in Codes : accepted'[c] # accepted[c] \/ wrong'[c] # wrong[c] =>
           c <= made /\ \A v \in Clients : v # w /\ flow[v].op \in sends => flow[v].code # c
  PROVE  CodesTyped(ops)' /\ Undelivered(sends)'
<1>1. \A v \in Clients : flow'[v] = IF v = w THEN g ELSE flow[v]
  BY DEF CodesTyped
<1>2. CodesTyped(ops)'
  <2>1. flow' \in [Clients -> [op : {"idle"} \cup ops, code : 0 .. made, seen : SUBSET Codes]]
    BY DEF CodesTyped
  <2>2. \A c \in Codes : c > made => accepted'[c] = 0 /\ wrong'[c] = 0
    BY CodesAssumption DEF CodesTyped, Codes
  <2>3. made' \in 0 .. MaxCodes
    BY DEF CodesTyped
  <2> QED BY <2>1, <2>2, <2>3 DEF CodesTyped
<1>3. \A v \in Clients : v # w /\ flow[v].op \in sends
        => flow[v].code \in Codes /\ accepted'[flow[v].code] = 0 /\ wrong'[flow[v].code] = 0
  BY CodesAssumption DEF CodesTyped, Undelivered, Codes
<1> QED BY <1>1, <1>2, <1>3 DEF Undelivered

\* A new code is issued to a request that had none.
LEMMA CodeIssued ==
  ASSUME NEW ops, NEW sends \in SUBSET ops, "idle" \notin sends, CodesTyped(ops), Undelivered(sends),
         NEW w \in Clients, NEW op \in sends, made < MaxCodes,
         Step(w, op, made + 1), made' = made + 1, UNCHANGED <<accepted, wrong>>
  PROVE  CodesTyped(ops)' /\ Undelivered(sends)'
<1> DEFINE g == [op |-> op, code |-> made + 1, seen |-> {}]
<1>1. \A v \in Clients : flow'[v] = IF v = w THEN g ELSE flow[v]
  BY DEF CodesTyped, Step
<1>2. made \in Nat /\ made' \in 0 .. MaxCodes /\ made + 1 \in Codes /\ made' = made + 1
  BY CodesAssumption DEF CodesTyped, Codes
<1>3. g \in [op : {"idle"} \cup ops, code : 0 .. made', seen : SUBSET Codes]
  BY <1>2
<1>4. g.code = made + 1 /\ g.op \in sends
  OBVIOUS
<1>5. flow' \in [Clients -> [op : {"idle"} \cup ops, code : 0 .. made', seen : SUBSET Codes]]
  <2>1. \A v \in Clients : flow[v] \in [op : {"idle"} \cup ops, code : 0 .. made', seen : SUBSET Codes]
    BY <1>2 DEF CodesTyped
  <2> QED BY <1>3, <2>1 DEF CodesTyped, Step
<1>6. CodesTyped(ops)'
  BY <1>2, <1>5 DEF CodesTyped, Codes
<1> HIDE DEF g
<1>7. \A v \in Clients : v # w => flow[v].code # made + 1
  BY <1>2 DEF CodesTyped
<1>8. accepted[made + 1] = 0 /\ wrong[made + 1] = 0
  BY <1>2 DEF CodesTyped
<1> QED BY <1>1, <1>2, <1>4, <1>6, <1>7, <1>8 DEF Undelivered

\* The records of a phone's keys stay of their type.
LEMMA OTPRecords ==
  ASSUME NEW C, NEW A, NEW otps \in [code : C, attempts : A, cooldown : BOOLEAN, pending : C],
         0 \in A, 0 \in C
  PROVE  /\ [otps EXCEPT !.cooldown = TRUE, !.pending = 0]
              \in [code : C, attempts : A, cooldown : BOOLEAN, pending : C]
         /\ [otps EXCEPT !.cooldown = TRUE, !.pending = 0].code = otps.code
         /\ [otps EXCEPT !.cooldown = TRUE, !.pending = 0].attempts = otps.attempts
         /\ [otps EXCEPT !.code = 0, !.attempts = 0, !.cooldown = FALSE]
              \in [code : C, attempts : A, cooldown : BOOLEAN, pending : C]
         /\ [otps EXCEPT !.code = 0, !.attempts = 0, !.cooldown = FALSE].code = 0
<1>1. \A b \in BOOLEAN : [otps EXCEPT !.cooldown = b, !.pending = 0]
                           \in [code : C, attempts : A, cooldown : BOOLEAN, pending : C]
  OBVIOUS
<1>2. \A b \in BOOLEAN : [otps EXCEPT !.code = 0, !.attempts = 0, !.cooldown = b]
                           \in [code : C, attempts : A, cooldown : BOOLEAN, pending : C]
  OBVIOUS
<1>3. TRUE \in BOOLEAN /\ FALSE \in BOOLEAN
  OBVIOUS
<1>4. /\ [otps EXCEPT !.cooldown = TRUE, !.pending = 0]
              \in [code : C, attempts : A, cooldown : BOOLEAN, pending : C]
      /\ [otps EXCEPT !.code = 0, !.attempts = 0, !.cooldown = FALSE]
              \in [code : C, attempts : A, cooldown : BOOLEAN, pending : C]
  BY <1>1, <1>2, <1>3, Zenon
<1> QED BY <1>4

\* Every step of the phone passwords keeps the invariant.
LEMMA OTPStep == OTPInv /\ [OTPNext]_codeVars => OTPInv'
<1> SUFFICES ASSUME OTPInv, [OTPNext]_codeVars PROVE OTPInv'
  OBVIOUS
<1> DEFINE Ops == {"otpSend", "otpWrong", "otpRight"}
           Otps == [code : 0 .. made, attempts : 0 .. MaxGuesses - 1, cooldown : BOOLEAN, pending : 0 .. made]
<1>0. /\ CodesTyped(Ops) /\ Undelivered({"otpSend"}) /\ {"otpSend"} \in SUBSET Ops
      /\ otp \in Otps /\ made \in Nat /\ 0 \in 0 .. MaxGuesses - 1 /\ 0 \in 0 .. made
      /\ flow \in [Clients -> [op : {"idle"} \cup Ops, code : 0 .. made, seen : SUBSET Codes]]
      /\ accepted \in [Codes -> 0 .. 1] /\ wrong \in [Codes -> 0 .. MaxGuesses]
      /\ Quiet \in [op : {"idle"} \cup Ops, code : 0 .. made, seen : SUBSET Codes]
      /\ Quiet.op = "idle" /\ 0 .. made \subseteq {0} \cup Codes
  BY CodesAssumption DEF OTPInv, CodesTyped, Quiet, Codes
<1>1. CASE UNCHANGED codeVars
  BY <1>1 DEF codeVars, OTPInv, CodesTyped, Undelivered, NoResets
<1>2. ASSUME NEW w \in Clients, ReserveOTP(w) PROVE OTPInv'
  <2>1. /\ made < MaxCodes /\ made' = made + 1 /\ otp' = [otp EXCEPT !.pending = made + 1]
        /\ Step(w, "otpSend", made + 1) /\ UNCHANGED <<tokens, wrong, accepted, flags>>
    BY <1>2 DEF ReserveOTP
  <2>2. CodesTyped(Ops)' /\ Undelivered({"otpSend"})'
    BY <1>0, <2>1, CodeIssued
  <2>3. /\ otp' \in [code : 0 .. made', attempts : 0 .. MaxGuesses - 1, cooldown : BOOLEAN, pending : 0 .. made']
        /\ otp'.code = otp.code /\ otp'.attempts = otp.attempts
    BY <1>0, <2>1
  <2>4. \A v \in Clients : flow'[v] = IF v = w THEN [op |-> "otpSend", code |-> made + 1, seen |-> {}]
                                               ELSE flow[v]
    BY <1>0, <2>1 DEF Step
  <2>5. otp.code # made + 1
    BY <1>0
  <2>6. otp'.code # 0 => \A v \in Clients : flow'[v].op = "otpSend" => flow'[v].code # otp'.code
    BY <2>3, <2>4, <2>5 DEF OTPInv
  <2> QED BY <2>1, <2>2, <2>3, <2>6 DEF OTPInv, NoResets
<1>3. CASE OTPKeyExpires
  <2>1. UNCHANGED <<tokens, flow, made, wrong, accepted, flags>>
    BY <1>3 DEF OTPKeyExpires
  <2>2. otp' \in Otps /\ (otp'.code # 0 => otp'.code = otp.code /\ otp'.attempts = otp.attempts)
    <3>1. CASE otp' = [otp EXCEPT !.pending = 0]
      BY <1>0, <3>1
    <3>2. CASE otp' = [otp EXCEPT !.cooldown = FALSE]
      BY <1>0, <3>2
    <3>3. CASE otp' = [otp EXCEPT !.code = 0]
      BY <1>0, <3>3
    <3> QED BY <1>3, <3>1, <3>2, <3>3 DEF OTPKeyExpires
  <2> QED BY <2>1, <2>2 DEF OTPInv, CodesTyped, Undelivered, NoResets
\* A request about the phone's code ends or begins, and issues nothing.
<1>4. ASSUME NEW w \in Clients, NEW g \in [op : {"idle"} \cup Ops, code : 0 .. made, seen : SUBSET Codes],
             flow' = [flow EXCEPT ![w] = g], g.op # "otpSend", otp' \in Otps,
             UNCHANGED <<made, tokens, flags>>,
             accepted' \in [Codes -> 0 .. 1], wrong' \in [Codes -> 0 .. MaxGuesses],
             \A c \in Codes : accepted'[c] # accepted[c] \/ wrong'[c] # wrong[c] => c = otp.code,
             otp'.code # 0 =>
                /\ accepted'[otp'.code] = 0 /\ wrong'[otp'.code] = otp'.attempts
                /\ \A v \in Clients : v # w /\ flow[v].op = "otpSend" => flow[v].code # otp'.code
      PROVE  OTPInv'
  <2>1. \A c \in Codes : accepted'[c] # accepted[c] \/ wrong'[c] # wrong[c] =>
          c <= made /\ \A v \in Clients : v # w /\ flow[v].op \in {"otpSend"} => flow[v].code # c
    BY <1>0, <1>4 DEF OTPInv, Codes
  <2>2. CodesTyped(Ops)' /\ Undelivered({"otpSend"})'
    BY <1>0, <1>4, <2>1, FlowEnds
  <2>3. \A v \in Clients : flow'[v] = IF v = w THEN g ELSE flow[v]
    BY <1>0, <1>4
  <2>4. otp'.code # 0 => \A v \in Clients : flow'[v].op = "otpSend" => flow'[v].code # otp'.code
    BY <1>4, <2>3
  <2> QED BY <1>4, <2>2, <2>4 DEF OTPInv, NoResets
<1>5. ASSUME NEW w \in Clients, ActivateOTP(w) \/ CancelOTP(w) PROVE OTPInv'
  <2>1. /\ flow[w].op = "otpSend" /\ flow' = [flow EXCEPT ![w] = Quiet]
        /\ UNCHANGED <<made, tokens, flags, accepted, wrong>>
    BY <1>5 DEF ActivateOTP, CancelOTP, Finish
  <2>2. CASE otp' = [code |-> flow[w].code, attempts |-> 0, cooldown |-> TRUE, pending |-> 0]
    <3>1. otp' \in Otps /\ otp'.code = flow[w].code /\ otp'.attempts = 0
      BY <1>0, <2>2
    <3>2. /\ accepted[flow[w].code] = 0 /\ wrong[flow[w].code] = 0
          /\ \A v \in Clients : v # w /\ flow[v].op = "otpSend" => flow[v].code # flow[w].code
      BY <1>0, <2>1 DEF Undelivered
    <3> QED BY <1>0, <1>4, <2>1, <3>1, <3>2
  <2>3. CASE otp' = [otp EXCEPT !.cooldown = TRUE, !.pending = 0] \/ otp' = otp
    <3>1. otp' \in Otps /\ otp'.code = otp.code /\ otp'.attempts = otp.attempts
      <4>1. CASE otp' = otp
        BY <1>0, <4>1
      <4>2. CASE otp' = [otp EXCEPT !.cooldown = TRUE, !.pending = 0]
        <5>1. /\ [otp EXCEPT !.cooldown = TRUE, !.pending = 0] \in Otps
              /\ [otp EXCEPT !.cooldown = TRUE, !.pending = 0].code = otp.code
              /\ [otp EXCEPT !.cooldown = TRUE, !.pending = 0].attempts = otp.attempts
          BY <1>0, OTPRecords, Zenon
        <5> QED BY <4>2, <5>1, Zenon
      <4> QED BY <2>3, <4>1, <4>2
    <3>2. otp.code # 0 =>
            /\ accepted[otp.code] = 0 /\ wrong[otp.code] = otp.attempts
            /\ \A v \in Clients : flow[v].op = "otpSend" => flow[v].code # otp.code
      BY DEF OTPInv
    <3> QED BY <1>0, <1>4, <2>1, <3>1, <3>2
  <2> QED BY <1>5, <2>2, <2>3 DEF ActivateOTP, CancelOTP
<1>6. ASSUME NEW w \in Clients, LoadOTP(w) PROVE OTPInv'
  <2>1. PICK op \in {"otpWrong", "otpRight"} : Step(w, op, otp.code)
    BY <1>6 DEF LoadOTP
  <2> DEFINE g == [op |-> op, code |-> otp.code, seen |-> {}]
  <2>2. g \in [op : {"idle"} \cup Ops, code : 0 .. made, seen : SUBSET Codes] /\ g.op = op
    BY <1>0
  <2>3. flow' = [flow EXCEPT ![w] = g] /\ UNCHANGED <<otp, made, tokens, flags, accepted, wrong>>
    BY <1>6, <2>1 DEF Step, LoadOTP
  <2>4. otp.code # 0 =>
          /\ accepted[otp.code] = 0 /\ wrong[otp.code] = otp.attempts
          /\ \A v \in Clients : flow[v].op = "otpSend" => flow[v].code # otp.code
    BY DEF OTPInv
  <2> HIDE DEF g
  <2> QED BY <1>0, <1>4, <2>2, <2>3, <2>4
<1>7. ASSUME NEW w \in Clients, RecordOTPFailure(w) \/ ConsumeOTP(w) PROVE OTPInv'
  <2>1. flow' = [flow EXCEPT ![w] = Quiet] /\ UNCHANGED <<made, tokens, flags>>
    BY <1>7 DEF RecordOTPFailure, ConsumeOTP, Finish
  <2>2. CASE UNCHANGED <<otp, wrong, accepted>>
    <3>1. otp.code # 0 =>
            /\ accepted[otp.code] = 0 /\ wrong[otp.code] = otp.attempts
            /\ \A v \in Clients : flow[v].op = "otpSend" => flow[v].code # otp.code
      BY DEF OTPInv
    <3> QED BY <1>0, <1>4, <2>1, <2>2, <3>1
  <2>3. CASE ~UNCHANGED <<otp, wrong, accepted>>
    <3> DEFINE c == otp.code
               n == otp.attempts + 1
    <3>1. \/ /\ c = flow[w].code /\ wrong' = [wrong EXCEPT ![c] = @ + 1] /\ accepted' = accepted
             /\ otp' = IF n >= MaxGuesses
                       THEN [otp EXCEPT !.code = 0, !.attempts = 0, !.cooldown = FALSE]
                       ELSE [otp EXCEPT !.attempts = n]
          \/ /\ c = flow[w].code /\ accepted' = [accepted EXCEPT ![c] = @ + 1] /\ wrong' = wrong
             /\ otp' = [otp EXCEPT !.code = 0, !.attempts = 0, !.cooldown = FALSE]
      BY <1>7, <2>3 DEF RecordOTPFailure, ConsumeOTP
    <3>2. n \in 1 .. MaxGuesses
      BY <1>0, CodesAssumption
    <3>3. \/ otp' \in Otps /\ otp'.code = 0
          \/ /\ otp' \in Otps /\ otp'.code = c /\ otp'.attempts = n /\ accepted' = accepted
             /\ wrong' = [wrong EXCEPT ![c] = @ + 1]
      <4>1. CASE otp' = [otp EXCEPT !.code = 0, !.attempts = 0, !.cooldown = FALSE]
        <5>1. otp' \in Otps /\ otp'.code = 0
          <6>1. /\ [otp EXCEPT !.code = 0, !.attempts = 0, !.cooldown = FALSE] \in Otps
                /\ [otp EXCEPT !.code = 0, !.attempts = 0, !.cooldown = FALSE].code = 0
            BY <1>0, OTPRecords, Zenon
          <6> QED BY <4>1, <6>1, Zenon
        <5> QED BY <5>1
      <4>2. CASE otp' = [otp EXCEPT !.attempts = n] /\ n < MaxGuesses
        <5>1. otp' \in Otps /\ otp'.code = c /\ otp'.attempts = n
          BY <1>0, <3>2, <4>2, CodesAssumption
        <5>2. otp'.attempts # 0
          BY <3>2, <5>1
        <5> QED BY <3>1, <5>1, <5>2
      <4> QED BY <3>1, <3>2, <4>1, <4>2, CodesAssumption
    <3>4. c \in Codes => accepted[c] = 0 /\ wrong[c] = otp.attempts
      BY DEF OTPInv, Codes
    <3>5. accepted' \in [Codes -> 0 .. 1] /\ wrong' \in [Codes -> 0 .. MaxGuesses]
      BY <1>0, <3>1, <3>2, <3>4
    <3>6. \A d \in Codes : accepted'[d] # accepted[d] \/ wrong'[d] # wrong[d] => d = c
      BY <1>0, <3>1
    <3>7. otp'.code # 0 =>
            /\ accepted'[otp'.code] = 0 /\ wrong'[otp'.code] = otp'.attempts
            /\ \A v \in Clients : flow[v].op = "otpSend" => flow[v].code # otp'.code
      <4>1. otp'.code # 0 => c \in Codes /\ otp'.code = c
        BY <1>0, <3>3
      <4> QED BY <1>0, <3>3, <3>4, <4>1 DEF OTPInv
    <3>8. otp' \in Otps
      BY <3>3
    <3> QED BY <1>0, <1>4, <2>1, <3>5, <3>6, <3>7, <3>8
  <2> QED BY <2>2, <2>3
<1> QED BY <1>1, <1>2, <1>3, <1>5, <1>6, <1>7 DEF OTPNext

\* The code of a forgotten password.
ResetOps == {"resetSend", "exchange", "setPassword"}
Paying == {w \in Clients : flow[w].op \in {"exchange", "setPassword"}}

\* A row is what the guesses against its code were, until it is spent.
ResetRows ==
  /\ reset \in [Codes -> [state : {"none", "inactive", "active", "used", "expired"}, attempts : Nat]]
  /\ \A c \in Codes :
       /\ c > made => reset[c].state = "none"
       /\ reset[c].state \in {"none", "inactive", "active"} => accepted[c] = 0
       /\ reset[c].state \in {"none", "inactive"} => wrong[c] = 0
       /\ reset[c].state = "active" => wrong[c] = reset[c].attempts /\ wrong[c] < MaxGuesses
  /\ \A w \in Clients : flow[w].op = "resetSend" => reset[flow[w].code].state \in {"inactive", "used"}

\* What is exchanged for a token is a code that was issued.
TokensIssued ==
  /\ tokens \subseteq 1 .. made
  /\ \A w \in Clients : flow[w].op = "exchange" => flow[w].code # 0

ResetInv ==
  /\ CodesTyped(ResetOps) /\ Undelivered({"resetSend"}) /\ ResetRows
  /\ TokensIssued /\ flags \in [sets : Nat, verified : BOOLEAN]
  /\ ResetsBacked

\* The three sets that pay for each other are finite.
LEMMA PaidByFinite ==
  ASSUME ResetInv
  PROVE  /\ IsFiniteSet(tokens) /\ IsFiniteSet(Paying) /\ IsFiniteSet({c \in Codes : accepted[c] = 1})
         /\ flags.sets \in Nat /\ Cardinality(tokens) \in Nat /\ Cardinality(Paying) \in Nat
         /\ Cardinality({c \in Codes : accepted[c] = 1}) \in Nat
         /\ flags.sets + Cardinality(tokens) + Cardinality(Paying)
              <= Cardinality({c \in Codes : accepted[c] = 1})
<1>1. IsFiniteSet(Codes)
  BY CodesAssumption, FS_Interval DEF Codes
<1>2. /\ IsFiniteSet(tokens) /\ IsFiniteSet(Paying) /\ IsFiniteSet({c \in Codes : accepted[c] = 1})
  <2>1. tokens \subseteq Codes
    BY CodesAssumption DEF ResetInv, TokensIssued, CodesTyped, Codes
  <2> QED BY <1>1, <2>1, CodesAssumption, FS_Subset DEF Paying
<1> QED BY <1>2, FS_CardinalityType DEF ResetInv, ResetsBacked, Paying

\* At first no code was asked for.
LEMMA ResetStart == CodesInit => ResetInv
<1> SUFFICES ASSUME CodesInit PROVE ResetInv
  OBVIOUS
<1>1. CodesTyped(ResetOps) /\ Undelivered({"resetSend"}) /\ ResetRows
      /\ TokensIssued /\ flags \in [sets : Nat, verified : BOOLEAN]
  BY CodesAssumption DEF CodesInit, CodesTyped, Undelivered, ResetRows, TokensIssued, Quiet, Codes
<1>2. flags.sets = 0 /\ tokens = {}
      /\ {w \in Clients : flow[w].op \in {"exchange", "setPassword"}} = {}
  BY DEF CodesInit, Quiet
<1>3. IsFiniteSet({c \in Codes : accepted[c] = 1})
  BY CodesAssumption, FS_Interval, FS_Subset DEF Codes
<1>4. Cardinality({c \in Codes : accepted[c] = 1}) \in Nat
  BY <1>3, FS_CardinalityType
<1>5. Cardinality({}) = 0
  BY FS_EmptySet
<1>6. flags.sets + Cardinality(tokens) + Cardinality({w \in Clients : flow[w].op \in {"exchange", "setPassword"}})
        <= Cardinality({c \in Codes : accepted[c] = 1})
  BY <1>2, <1>4, <1>5
<1> QED BY <1>1, <1>6 DEF ResetInv, ResetsBacked

\* A guess that changes neither the requests nor what was issued.
LEMMA FlowStays ==
  ASSUME NEW ops, NEW sends \in SUBSET ops, CodesTyped(ops), Undelivered(sends),
         UNCHANGED <<flow, made>>,
         accepted' \in [Codes -> 0 .. 1], wrong' \in [Codes -> 0 .. MaxGuesses],
         \A c \in Codes : accepted'[c] # accepted[c] \/ wrong'[c] # wrong[c] =>
           c <= made /\ \A v \in Clients : flow[v].op \in sends => flow[v].code # c
  PROVE  CodesTyped(ops)' /\ Undelivered(sends)'
<1>1. \A c \in Codes : c > made => accepted'[c] = 0 /\ wrong'[c] = 0
  BY CodesAssumption DEF CodesTyped, Codes
<1>2. \A v \in Clients : flow[v].op \in sends
        => flow[v].code \in Codes /\ accepted'[flow[v].code] = 0 /\ wrong'[flow[v].code] = 0
  BY CodesAssumption DEF CodesTyped, Undelivered, Codes
<1> QED BY <1>1, <1>2 DEF CodesTyped, Undelivered

\* The books of the resets: what each step adds on the right pays for what it
\* adds on the left.
LEMMA ResetPaid ==
  ASSUME ResetInv, [ResetNext]_codeVars
  PROVE  ResetsBacked'
<1> DEFINE A == {c \in Codes : accepted[c] = 1}
<1>0. /\ IsFiniteSet(tokens) /\ IsFiniteSet(Paying) /\ IsFiniteSet(A)
      /\ flags.sets \in Nat /\ Cardinality(tokens) \in Nat /\ Cardinality(Paying) \in Nat
      /\ Cardinality(A) \in Nat /\ flags.sets + Cardinality(tokens) + Cardinality(Paying) <= Cardinality(A)
      /\ flow \in [Clients -> [op : {"idle"} \cup ResetOps, code : 0 .. made, seen : SUBSET Codes]]
      /\ flags \in [sets : Nat, verified : BOOLEAN] /\ accepted \in [Codes -> 0 .. 1]
  BY PaidByFinite DEF ResetInv, CodesTyped
\* It is enough to know what each of the four becomes.
<1>1. ASSUME flags'.sets + Cardinality(tokens') + Cardinality(Paying') <= Cardinality(A') PROVE ResetsBacked'
  BY <1>1 DEF ResetsBacked, Paying
<1>2. ASSUME NEW w \in Clients, RequestReset(w) \/ ResetNotDelivered(w) \/ ActivateReset(w)
      PROVE  ResetsBacked'
  <2>1. Paying' = Paying
    BY <1>0, <1>2 DEF RequestReset, ResetNotDelivered, ActivateReset, Step, Finish, Quiet, Paying
  <2> QED BY <1>0, <1>1, <1>2, <2>1 DEF RequestReset, ResetNotDelivered, ActivateReset
<1>3. ASSUME NEW w \in Clients, NEW c \in Codes, VerifyReset(w, c) PROVE ResetsBacked'
  <2>1. Paying' = Paying \cup {w} /\ w \notin Paying
    BY <1>0, <1>3 DEF VerifyReset, Step, Quiet, Paying
  <2>2. accepted[c] = 0
    BY <1>3 DEF VerifyReset, ResetInv, ResetRows
  <2>3. A' = A \cup {c} /\ c \notin A
    BY <1>0, <1>3, <2>2 DEF VerifyReset
  <2>4. Cardinality(Paying') = Cardinality(Paying) + 1 /\ Cardinality(A') = Cardinality(A) + 1
    BY <1>0, <2>1, <2>3, FS_AddElement
  <2> QED BY <1>0, <1>1, <1>3, <2>4 DEF VerifyReset
<1>4. ASSUME NEW w \in Clients, ExchangeSession(w) PROVE ResetsBacked'
  <2>1. Paying' = Paying \ {w} /\ w \in Paying
    BY <1>0, <1>4 DEF ExchangeSession, Finish, Quiet, Paying
  <2>2. Cardinality(Paying') = Cardinality(Paying) - 1
    BY <1>0, <2>1, FS_RemoveElement
  <2>3. Cardinality(tokens') \in {Cardinality(tokens), Cardinality(tokens) + 1}
    BY <1>0, <1>4, FS_AddElement DEF ExchangeSession
  <2> QED BY <1>0, <1>1, <1>4, <2>2, <2>3 DEF ExchangeSession
<1>5. ASSUME NEW w \in Clients, NEW c \in Codes, ConsumeSetToken(w, c) PROVE ResetsBacked'
  <2>1. Cardinality(tokens') = Cardinality(tokens) - 1
    BY <1>0, <1>5, FS_RemoveElement DEF ConsumeSetToken
  <2>2. Paying' \in {Paying, Paying \cup {w}}
    BY <1>0, <1>5 DEF ConsumeSetToken, Step, Paying
  <2>3. Cardinality(Paying') \in {Cardinality(Paying), Cardinality(Paying) + 1}
    BY <1>0, <2>2, FS_AddElement
  <2> QED BY <1>0, <1>1, <1>5, <2>1, <2>3 DEF ConsumeSetToken
<1>6. ASSUME NEW w \in Clients, SetPassword(w) PROVE ResetsBacked'
  <2>1. Paying' = Paying \ {w} /\ w \in Paying
    BY <1>0, <1>6 DEF SetPassword, Finish, Quiet, Paying
  <2>2. Cardinality(Paying') = Cardinality(Paying) - 1
    BY <1>0, <2>1, FS_RemoveElement
  <2>3. flags'.sets = flags.sets + 1
    BY <1>0, <1>6 DEF SetPassword
  <2> QED BY <1>0, <1>1, <1>6, <2>2, <2>3 DEF SetPassword
<1>7. CASE UNCHANGED codeVars \/ \E c \in Codes : WrongReset(c) \/ ResetExpires(c)
  <2>1. UNCHANGED <<tokens, flow, accepted, flags>>
    BY <1>7 DEF codeVars, WrongReset, ResetExpires
  <2> QED BY <1>0, <1>1, <2>1 DEF Paying
<1> QED BY <1>2, <1>3, <1>4, <1>5, <1>6, <1>7 DEF ResetNext

\* Every step of a forgotten password keeps the invariant.
LEMMA ResetStep == ResetInv /\ [ResetNext]_codeVars => ResetInv'
<1> SUFFICES ASSUME ResetInv, [ResetNext]_codeVars PROVE ResetInv'
  OBVIOUS
<1> DEFINE Flows == [op : {"idle"} \cup ResetOps, code : 0 .. made, seen : SUBSET Codes]
           Rows == [state : {"none", "inactive", "active", "used", "expired"}, attempts : Nat]
<1>0. /\ CodesTyped(ResetOps) /\ Undelivered({"resetSend"}) /\ {"resetSend"} \in SUBSET ResetOps
      /\ reset \in [Codes -> Rows] /\ made \in Nat /\ made <= MaxCodes
      /\ flow \in [Clients -> Flows] /\ Quiet \in Flows /\ Quiet.op = "idle"
      /\ accepted \in [Codes -> 0 .. 1] /\ wrong \in [Codes -> 0 .. MaxGuesses]
      /\ tokens \subseteq 1 .. made /\ flags \in [sets : Nat, verified : BOOLEAN]
      /\ \A w \in Clients : flow[w].op = "exchange" => flow[w].code # 0
      /\ \A w \in Clients : flow[w].op = "resetSend" =>
           flow[w].code \in Codes /\ reset[flow[w].code].state \in {"inactive", "used"}
      /\ \A c \in Codes :
           /\ c > made => reset[c].state = "none"
           /\ reset[c].state \in {"none", "inactive", "active"} => accepted[c] = 0
           /\ reset[c].state \in {"none", "inactive"} => wrong[c] = 0
           /\ reset[c].state = "active" => wrong[c] = reset[c].attempts /\ wrong[c] < MaxGuesses
  <2>1. CodesTyped(ResetOps) /\ Undelivered({"resetSend"}) /\ ResetRows /\ TokensIssued
        /\ flags \in [sets : Nat, verified : BOOLEAN]
    BY DEF ResetInv
  <2>2. {"resetSend"} \in SUBSET ResetOps
    BY DEF ResetOps
  <2>3. /\ made \in 0 .. MaxCodes /\ flow \in [Clients -> Flows]
        /\ accepted \in [Codes -> 0 .. 1] /\ wrong \in [Codes -> 0 .. MaxGuesses]
    BY <2>1 DEF CodesTyped
  <2>4. made \in Nat /\ made <= MaxCodes
    BY <2>3, CodesAssumption
  <2>5. Quiet \in Flows /\ Quiet.op = "idle"
    BY <2>4 DEF Quiet
  <2>6. ASSUME NEW w \in Clients, flow[w].op = "resetSend"
        PROVE  flow[w].code \in Codes /\ reset[flow[w].code].state \in {"inactive", "used"}
    <3>1. flow[w].code # 0 /\ flow[w].code \in 0 .. made
      BY <2>1, <2>3, <2>6 DEF Undelivered
    <3>2. flow[w].code \in Codes
      BY <2>4, <3>1, CodesAssumption DEF Codes
    <3> QED BY <2>1, <2>6, <3>2 DEF ResetRows
  <2> QED BY <2>1, <2>2, <2>3, <2>4, <2>5, <2>6 DEF TokensIssued, ResetRows
<1>1. ResetsBacked'
  BY ResetPaid
\* The parts a step changes, put together.
<1>2. ASSUME CodesTyped(ResetOps)', Undelivered({"resetSend"})', ResetRows',
             tokens' \subseteq 1 .. made', flags' \in [sets : Nat, verified : BOOLEAN],
             \A w \in Clients : flow'[w].op = "exchange" => flow'[w].code # 0
      PROVE  ResetInv'
  BY <1>1, <1>2 DEF ResetInv, TokensIssued
\* A request ends with its rows spent, or left as they were.
<1>3. ASSUME NEW w \in Clients, NEW g \in Flows, flow' = [flow EXCEPT ![w] = g], g.op # "resetSend",
             reset' \in [Codes -> Rows], UNCHANGED <<made, wrong, accepted>>,
             \A c \in Codes : \/ reset'[c] = reset[c]
                              \/ reset[c].state # "none" /\ reset'[c].state = "used"
      PROVE  /\ CodesTyped(ResetOps)' /\ Undelivered({"resetSend"})' /\ ResetRows'
             /\ g.op # "exchange" => \A v \in Clients : flow'[v].op = "exchange" => flow'[v].code # 0
  <2>1. CodesTyped(ResetOps)' /\ Undelivered({"resetSend"})'
    BY <1>0, <1>3, FlowEnds
  <2>2. \A v \in Clients : flow'[v] = IF v = w THEN g ELSE flow[v]
    BY <1>0, <1>3
  <2>3. \A v \in Clients : flow'[v].op = "resetSend" => reset'[flow'[v].code].state \in {"inactive", "used"}
    BY <1>0, <1>3, <2>2
  <2>4. \A c \in Codes :
          /\ c > made' => reset'[c].state = "none"
          /\ reset'[c].state \in {"none", "inactive", "active"} => accepted'[c] = 0
          /\ reset'[c].state \in {"none", "inactive"} => wrong'[c] = 0
          /\ reset'[c].state = "active" => wrong'[c] = reset'[c].attempts /\ wrong'[c] < MaxGuesses
    BY <1>0, <1>3
  <2>5. g.op # "exchange" => \A v \in Clients : flow'[v].op = "exchange" => flow'[v].code # 0
    BY <1>0, <2>2
  <2> QED BY <1>3, <2>1, <2>3, <2>4, <2>5 DEF ResetRows
<1>4. ASSUME NEW w \in Clients, RequestReset(w) PROVE ResetInv'
  <2>1. /\ made < MaxCodes /\ made' = made + 1 /\ Step(w, "resetSend", made + 1)
        /\ reset' = [reset EXCEPT ![made + 1].state = "inactive"]
        /\ UNCHANGED <<tokens, wrong, accepted, flags>>
    BY <1>4 DEF RequestReset
  <2>2. CodesTyped(ResetOps)' /\ Undelivered({"resetSend"})'
    BY <1>0, <2>1, CodeIssued DEF ResetOps
  <2>3. made + 1 \in Codes /\ accepted[made + 1] = 0 /\ wrong[made + 1] = 0
    BY <1>0, <2>1, CodesAssumption DEF CodesTyped, Codes
  <2>4. /\ reset' \in [Codes -> Rows] /\ reset'[made + 1].state = "inactive"
        /\ \A c \in Codes : c # made + 1 => reset'[c] = reset[c]
    BY <1>0, <2>1, <2>3
  <2>5. \A v \in Clients : flow'[v] = IF v = w THEN [op |-> "resetSend", code |-> made + 1, seen |-> {}]
                                               ELSE flow[v]
    BY <1>0, <2>1 DEF Step
  <2>6. \A v \in Clients : flow'[v].op = "resetSend" => reset'[flow'[v].code].state \in {"inactive", "used"}
    BY <1>0, <2>4, <2>5
  <2>7. \A c \in Codes :
          /\ c > made' => reset'[c].state = "none"
          /\ reset'[c].state \in {"none", "inactive", "active"} => accepted'[c] = 0
          /\ reset'[c].state \in {"none", "inactive"} => wrong'[c] = 0
          /\ reset'[c].state = "active" => wrong'[c] = reset'[c].attempts /\ wrong'[c] < MaxGuesses
    BY <1>0, <2>1, <2>3, <2>4 DEF Codes
  <2>8. ResetRows'
    BY <2>4, <2>6, <2>7 DEF ResetRows
  <2>9. \A v \in Clients : flow'[v].op = "exchange" => flow'[v].code # 0
    BY <1>0, <2>5
  <2> QED BY <1>0, <1>2, <2>1, <2>2, <2>8, <2>9
<1>5. ASSUME NEW w \in Clients, ResetNotDelivered(w) PROVE ResetInv'
  <2>1. /\ flow[w].op = "resetSend" /\ flow' = [flow EXCEPT ![w] = Quiet]
        /\ reset' = [reset EXCEPT ![flow[w].code].state = "used"]
        /\ UNCHANGED <<tokens, made, wrong, accepted, flags>>
    BY <1>5 DEF ResetNotDelivered, Finish
  <2>2. /\ reset' \in [Codes -> Rows]
        /\ \A c \in Codes : \/ reset'[c] = reset[c]
                            \/ reset[c].state # "none" /\ reset'[c].state = "used"
    BY <1>0, <2>1
  <2> QED BY <1>0, <1>2, <1>3, <2>1, <2>2
<1>6. ASSUME NEW w \in Clients, ActivateReset(w) PROVE ResetInv'
  <2> DEFINE c == flow[w].code
  <2>1. /\ flow[w].op = "resetSend" /\ flow' = [flow EXCEPT ![w] = Quiet]
        /\ UNCHANGED <<tokens, made, wrong, accepted, flags>>
    BY <1>6 DEF ActivateReset, Finish
  <2>2. CASE reset' = reset
    BY <1>0, <1>2, <1>3, <2>1, <2>2
  <2>3. CASE /\ reset[c].state # "used"
             /\ reset' = [d \in Codes |->
                        IF d = c THEN [state |-> "active", attempts |-> 0]
                        ELSE IF reset[d].state \in {"inactive", "active"}
                             THEN [reset[d] EXCEPT !.state = "used"] ELSE reset[d]]
    <3>1. c \in Codes /\ accepted[c] = 0 /\ wrong[c] = 0 /\ c <= made
      BY <1>0, <2>1 DEF Undelivered
    <3>2. CodesTyped(ResetOps)' /\ Undelivered({"resetSend"})'
      BY <1>0, <2>1, FlowEnds
    <3>3. /\ reset' \in [Codes -> Rows]
          /\ reset'[c].state = "active" /\ reset'[c].attempts = 0
      BY <1>0, <2>3, <3>1
    <3>4. \A d \in Codes : \/ d = c
                           \/ reset'[d] = reset[d]
                           \/ reset[d].state \in {"inactive", "active"} /\ reset'[d].state = "used"
      BY <1>0, <2>3
    <3>5. \A v \in Clients : flow'[v] = IF v = w THEN Quiet ELSE flow[v]
      BY <1>0, <2>1
    <3>6. \A v \in Clients : v # w /\ flow[v].op = "resetSend" => flow[v].code # c
      BY <1>0, <2>1 DEF Undelivered
    <3>7. \A v \in Clients : flow'[v].op = "resetSend" => reset'[flow'[v].code].state \in {"inactive", "used"}
      BY <1>0, <3>4, <3>5, <3>6
    <3>8. \A d \in Codes :
            /\ d > made' => reset'[d].state = "none"
            /\ reset'[d].state \in {"none", "inactive", "active"} => accepted'[d] = 0
            /\ reset'[d].state \in {"none", "inactive"} => wrong'[d] = 0
            /\ reset'[d].state = "active" => wrong'[d] = reset'[d].attempts /\ wrong'[d] < MaxGuesses
      BY <1>0, <2>1, <3>1, <3>3, <3>4, CodesAssumption
    <3>9. ResetRows'
      BY <3>3, <3>7, <3>8 DEF ResetRows
    <3>10. \A v \in Clients : flow'[v].op = "exchange" => flow'[v].code # 0
      BY <1>0, <3>5
    <3> QED BY <1>0, <1>2, <2>1, <3>2, <3>9, <3>10
  <2> QED BY <1>6, <2>2, <2>3 DEF ActivateReset
<1>7. ASSUME NEW c \in Codes, WrongReset(c) PROVE ResetInv'
  <2>1. /\ reset[c].state = "active" /\ wrong' = [wrong EXCEPT ![c] = @ + 1]
        /\ reset' = [reset EXCEPT ![c].attempts = @ + 1,
                            ![c].state = IF reset[c].attempts + 1 >= MaxGuesses THEN "used" ELSE @]
        /\ UNCHANGED <<tokens, flow, made, accepted, flags>>
    BY <1>7 DEF WrongReset
  <2>2. /\ reset' \in [Codes -> Rows] /\ reset'[c].attempts = reset[c].attempts + 1
        /\ reset'[c].state = (IF reset[c].attempts + 1 >= MaxGuesses THEN "used" ELSE "active")
        /\ \A d \in Codes : d # c => reset'[d] = reset[d]
    <3> DEFINE n == reset[c].attempts + 1
               end == IF n >= MaxGuesses THEN "used" ELSE "active"
               more == [state |-> end, attempts |-> n]
    <3>1. /\ reset[c] \in Rows /\ n \in Nat /\ reset[c].state = "active"
      BY <1>0, <2>1
    <3>2. end \in {"used", "active"} /\ end = (IF n >= MaxGuesses THEN "used" ELSE reset[c].state)
      BY <3>1
    <3>3. reset' = [reset EXCEPT ![c] = more]
      <4>0. /\ reset[c] \in [state : {"none", "inactive", "active", "used", "expired"}, attempts : Nat]
            /\ end \in {"none", "inactive", "active", "used", "expired"} /\ n \in Nat
        BY <3>1, <3>2
      <4>1. [reset[c] EXCEPT !.attempts = n, !.state = end] = more
        <5> DEFINE q == [reset[c] EXCEPT !.attempts = n, !.state = end]
        <5> HIDE DEF n, end
        <5>1. /\ q \in [state : {"none", "inactive", "active", "used", "expired"}, attempts : Nat]
              /\ q.state = end /\ q.attempts = n
          BY <4>0
        <5> HIDE DEF q
        <5>2. q = [state |-> end, attempts |-> n]
          BY <5>1
        <5> QED BY <5>2 DEF q
      <4>2. reset' = [reset EXCEPT ![c] = [@ EXCEPT !.attempts = n, !.state = end]]
        BY <1>0, <2>1, <3>2
      <4> QED BY <1>0, <3>2, <4>1, <4>2, Zenon
    <3>4. more \in Rows /\ more.attempts = n /\ more.state = end
      BY <3>1, <3>2
    <3> HIDE DEF more
    <3> QED BY <1>0, <3>3, <3>4
  <2>3. wrong' \in [Codes -> 0 .. MaxGuesses] /\ wrong'[c] = wrong[c] + 1
        /\ \A d \in Codes : d # c => wrong'[d] = wrong[d]
    BY <1>0, <2>1, CodesAssumption
  <2>4. c <= made /\ \A v \in Clients : flow[v].op = "resetSend" => flow[v].code # c
    <3>1. reset[c].state = "active" /\ made \in Nat /\ c \in Nat
      BY <1>0, <2>1, CodesAssumption DEF Codes
    <3>2. ~(c > made)
      BY <1>0, <3>1
    <3>3. \A v \in Clients : flow[v].op = "resetSend" => flow[v].code # c
      BY <1>0, <3>1
    <3> QED BY <3>1, <3>2, <3>3
  <2>5. CodesTyped(ResetOps)' /\ Undelivered({"resetSend"})'
    BY <1>0, <2>1, <2>3, <2>4, FlowStays
  <2>6. \A v \in Clients : flow'[v].op = "resetSend" => reset'[flow'[v].code].state \in {"inactive", "used"}
    BY <1>0, <2>1, <2>2, <2>4
  <2>7. \A d \in Codes :
          /\ d > made' => reset'[d].state = "none"
          /\ reset'[d].state \in {"none", "inactive", "active"} => accepted'[d] = 0
          /\ reset'[d].state \in {"none", "inactive"} => wrong'[d] = 0
          /\ reset'[d].state = "active" => wrong'[d] = reset'[d].attempts /\ wrong'[d] < MaxGuesses
    BY <1>0, <2>1, <2>2, <2>3, <2>4, CodesAssumption
  <2>8. ResetRows'
    BY <2>2, <2>6, <2>7 DEF ResetRows
  <2> QED BY <1>0, <1>2, <2>1, <2>5, <2>8
<1>8. ASSUME NEW w \in Clients, NEW c \in Codes, VerifyReset(w, c) PROVE ResetInv'
  <2> DEFINE g == [op |-> "exchange", code |-> c, seen |-> {}]
  <2>1. /\ reset[c].state = "active" /\ flow' = [flow EXCEPT ![w] = g]
        /\ reset' = [reset EXCEPT ![c].state = "used"] /\ accepted' = [accepted EXCEPT ![c] = @ + 1]
        /\ UNCHANGED <<tokens, made, wrong, flags>>
    BY <1>8 DEF VerifyReset, Step
  <2>2. c <= made /\ accepted[c] = 0 /\ \A v \in Clients : flow[v].op = "resetSend" => flow[v].code # c
    BY <1>0, <2>1 DEF Codes
  <2>3. g \in Flows /\ g.op = "exchange"
    BY <1>0, <2>2, CodesAssumption DEF Codes, ResetOps
  <2> HIDE DEF g
  <2>4. /\ reset' \in [Codes -> Rows] /\ reset'[c].state = "used"
        /\ \A d \in Codes : d # c => reset'[d] = reset[d] /\ accepted'[d] = accepted[d]
        /\ accepted' \in [Codes -> 0 .. 1]
    BY <1>0, <2>1, <2>2
  <2>5. CodesTyped(ResetOps)' /\ Undelivered({"resetSend"})'
    <3>1. \A d \in Codes : accepted'[d] # accepted[d] \/ wrong'[d] # wrong[d] =>
            d <= made /\ \A v \in Clients : v # w /\ flow[v].op \in {"resetSend"} => flow[v].code # d
      BY <2>1, <2>2, <2>4
    <3>2. g.op \notin {"resetSend"} /\ wrong' \in [Codes -> 0 .. MaxGuesses]
      BY <1>0, <2>1, <2>3
    <3>3. /\ CodesTyped(ResetOps) /\ Undelivered({"resetSend"}) /\ {"resetSend"} \in SUBSET ResetOps
          /\ flow' = [flow EXCEPT ![w] = g] /\ made' = made /\ accepted' \in [Codes -> 0 .. 1]
          /\ g \in [op : {"idle"} \cup ResetOps, code : 0 .. made, seen : SUBSET Codes]
      BY <1>0, <2>1, <2>3, <2>4
    <3> QED BY <3>1, <3>2, <3>3, FlowEnds
  <2>6. \A v \in Clients : flow'[v] = IF v = w THEN g ELSE flow[v]
    BY <1>0, <2>1
  <2>7. \A v \in Clients : flow'[v].op = "resetSend" => reset'[flow'[v].code].state \in {"inactive", "used"}
    BY <1>0, <2>2, <2>3, <2>4, <2>6
  <2>8. \A d \in Codes :
          /\ d > made' => reset'[d].state = "none"
          /\ reset'[d].state \in {"none", "inactive", "active"} => accepted'[d] = 0
          /\ reset'[d].state \in {"none", "inactive"} => wrong'[d] = 0
          /\ reset'[d].state = "active" => wrong'[d] = reset'[d].attempts /\ wrong'[d] < MaxGuesses
    BY <1>0, <2>1, <2>2, <2>4
  <2>9. ResetRows'
    BY <2>4, <2>7, <2>8 DEF ResetRows
  <2>10. c # 0 /\ \A v \in Clients : flow'[v].op = "exchange" => flow'[v].code # 0
    BY <1>0, <2>6 DEF Codes, g
  <2> QED BY <1>0, <1>2, <2>1, <2>5, <2>9, <2>10
<1>9. ASSUME NEW w \in Clients, ExchangeSession(w) PROVE ResetInv'
  <2>1. /\ flow[w].op = "exchange" /\ flow' = [flow EXCEPT ![w] = Quiet]
        /\ tokens' \in {tokens, tokens \cup {flow[w].code}}
        /\ UNCHANGED <<reset, made, wrong, accepted, flags>>
    BY <1>9 DEF ExchangeSession, Finish
  <2>2. flow[w].code \in 1 .. made
    <3>1. flow[w].code \in 0 .. made /\ flow[w].code # 0
      BY <1>0, <2>1
    <3> QED BY <1>0, <3>1
  <2>3. tokens' \subseteq 1 .. made'
    BY <1>0, <2>1, <2>2
  <2> QED BY <1>0, <1>2, <1>3, <2>1, <2>3
<1>10. ASSUME NEW w \in Clients, NEW c \in Codes, ConsumeSetToken(w, c) PROVE ResetInv'
  <2>1. tokens' = tokens \ {c} /\ UNCHANGED <<reset, made, wrong, accepted, flags>> /\ c \in tokens
    BY <1>10 DEF ConsumeSetToken
  <2>2. CASE UNCHANGED flow
    BY <1>0, <1>2, <2>1, <2>2 DEF ResetInv, TokensIssued, CodesTyped, Undelivered, ResetRows
  <2>3. CASE Step(w, "setPassword", c)
    <3> DEFINE g == [op |-> "setPassword", code |-> c, seen |-> {}]
    <3>1. flow' = [flow EXCEPT ![w] = g] /\ g.op = "setPassword"
      BY <2>3 DEF Step
    <3>2. g \in Flows
      BY <1>0, <2>1 DEF ResetOps
    <3> HIDE DEF g
    <3> QED BY <1>0, <1>2, <1>3, <2>1, <3>1, <3>2
  <2> QED BY <1>10, <2>2, <2>3 DEF ConsumeSetToken
<1>11. ASSUME NEW w \in Clients, SetPassword(w) PROVE ResetInv'
  <2>1. /\ flow' = [flow EXCEPT ![w] = Quiet] /\ flags' = [flags EXCEPT !.sets = @ + 1]
        /\ reset' = [d \in Codes |-> IF reset[d].state \in {"inactive", "active"}
                               THEN [reset[d] EXCEPT !.state = "used"] ELSE reset[d]]
        /\ UNCHANGED <<tokens, made, wrong, accepted>>
    BY <1>11 DEF SetPassword, Finish
  <2>2. /\ reset' \in [Codes -> Rows] /\ flags' \in [sets : Nat, verified : BOOLEAN]
        /\ \A c \in Codes : \/ reset'[c] = reset[c]
                            \/ reset[c].state # "none" /\ reset'[c].state = "used"
    BY <1>0, <2>1
  <2> QED BY <1>0, <1>2, <1>3, <2>1, <2>2
<1>12. ASSUME NEW c \in Codes, ResetExpires(c) PROVE ResetInv'
  <2>1. /\ reset[c].state = "active" /\ reset' = [reset EXCEPT ![c].state = "expired"]
        /\ UNCHANGED <<tokens, flow, made, wrong, accepted, flags>>
    BY <1>12 DEF ResetExpires
  <2>2. /\ reset' \in [Codes -> Rows] /\ reset'[c].state = "expired"
        /\ \A d \in Codes : d # c => reset'[d] = reset[d]
    BY <1>0, <2>1
  <2>3. ResetRows'
    BY <1>0, <2>1, <2>2 DEF ResetRows
  <2> QED BY <1>0, <1>2, <2>1, <2>3 DEF CodesTyped, Undelivered
<1>13. CASE UNCHANGED codeVars
  BY <1>0, <1>2, <1>13 DEF ResetInv, codeVars, CodesTyped, Undelivered, ResetRows
<1> QED BY <1>4, <1>5, <1>6, <1>7, <1>8, <1>9, <1>10, <1>11, <1>12, <1>13 DEF ResetNext

\* The code that verifies an address.
VerifOps == {"verifSend", "verifActivate"}

\* A row is what the guesses against its code were; a code being activated is
\* still as it was issued, and what its transaction locked was valid.
VerifRows ==
  /\ verif \in [Codes -> [state : {"none", "inactive", "active", "expired", "verified"}, attempts : Nat]]
  /\ \A c \in Codes :
       /\ c > made => verif[c].state = "none"
       /\ verif[c].state \in {"none", "inactive", "active", "expired"} => accepted[c] = 0
       /\ verif[c].state \in {"none", "inactive"} => wrong[c] = 0
       /\ verif[c].state = "active" => wrong[c] = verif[c].attempts /\ wrong[c] < MaxGuesses
  /\ \A w \in Clients :
       /\ flow[w].op \in VerifOps => verif[flow[w].code].state = "inactive"
       /\ \A d \in flow[w].seen : verif[d].state \in {"active", "expired"}

VerifInv ==
  CodesTyped(VerifOps) /\ Undelivered(VerifOps) /\ VerifRows /\ NoResets

\* At first no address was to be verified.
LEMMA VerifStart == CodesInit => VerifInv
BY CodesAssumption DEF CodesInit, VerifInv, CodesTyped, Undelivered, VerifRows, NoResets, VerifOps, Quiet, Codes

\* Every step of the verification of an address keeps the invariant.
LEMMA VerifStep == VerifInv /\ [VerificationNext]_codeVars => VerifInv'
<1> SUFFICES ASSUME VerifInv, [VerificationNext]_codeVars PROVE VerifInv'
  OBVIOUS
<1> DEFINE Flows == [op : {"idle"} \cup VerifOps, code : 0 .. made, seen : SUBSET Codes]
           States == {"none", "inactive", "active", "expired", "verified"}
           Rows == [state : States, attempts : Nat]
           RowOf(c) ==
             /\ c > made => verif[c].state = "none"
             /\ verif[c].state \in {"none", "inactive", "active", "expired"} => accepted[c] = 0
             /\ verif[c].state \in {"none", "inactive"} => wrong[c] = 0
             /\ verif[c].state = "active" => wrong[c] = verif[c].attempts /\ wrong[c] < MaxGuesses
           FlowOf(w) ==
             /\ flow[w].op \in VerifOps => verif[flow[w].code].state = "inactive"
             /\ \A d \in flow[w].seen : verif[d].state \in {"active", "expired"}
<1>0. /\ CodesTyped(VerifOps) /\ Undelivered(VerifOps) /\ VerifOps \in SUBSET VerifOps
      /\ verif \in [Codes -> Rows] /\ made \in Nat /\ made <= MaxCodes
      /\ flow \in [Clients -> Flows] /\ Quiet \in Flows /\ Quiet.op = "idle" /\ Quiet.seen = {}
      /\ accepted \in [Codes -> 0 .. 1] /\ wrong \in [Codes -> 0 .. MaxGuesses] /\ "idle" \notin VerifOps
      /\ tokens = {} /\ flags \in [sets : {0}, verified : BOOLEAN]
      /\ \A w \in Clients : flow[w].op \in VerifOps => flow[w].code \in Codes
  BY CodesAssumption DEF VerifInv, NoResets, CodesTyped, VerifRows, VerifOps, Quiet, Codes, Undelivered
<1>R. (\A c \in Codes : RowOf(c)) /\ (\A w \in Clients : FlowOf(w))
  BY DEF VerifInv, VerifRows
\* The parts a step changes, put together.
<1>1. ASSUME CodesTyped(VerifOps)', Undelivered(VerifOps)', verif' \in [Codes -> Rows],
             \A c \in Codes : RowOf(c)', \A w \in Clients : FlowOf(w)',
             tokens' = tokens, flags' \in [sets : {0}, verified : BOOLEAN]
      PROVE  VerifInv'
  BY <1>1 DEF VerifInv, VerifRows, NoResets
\* One row changes, and it belongs to no request.
<1>2. ASSUME NEW c \in Codes, NEW e \in Rows, verif' = [verif EXCEPT ![c] = e],
             UNCHANGED <<flow, made, tokens>>, flags' \in [sets : {0}, verified : BOOLEAN], verif[c].state = "active",
             e.state \in {"active", "expired", "verified"},
             \A w \in Clients : e.state = "verified" => c \notin flow[w].seen,
             accepted' \in [Codes -> 0 .. 1], wrong' \in [Codes -> 0 .. MaxGuesses],
             \A d \in Codes : d # c => accepted'[d] = accepted[d] /\ wrong'[d] = wrong[d],
             e.state \in {"active", "expired"} => accepted'[c] = 0,
             e.state = "active" => wrong'[c] = e.attempts /\ wrong'[c] < MaxGuesses
      PROVE  VerifInv'
  <2>1. c <= made /\ \A w \in Clients : flow[w].op \in VerifOps => flow[w].code # c
    <3>1. made \in Nat /\ c \in Nat /\ ~(c > made)
      BY <1>0, <1>R, <1>2, CodesAssumption DEF Codes
    <3>2. \A w \in Clients : flow[w].op \in VerifOps => flow[w].code # c
      BY <1>R, <1>2
    <3> QED BY <3>1, <3>2
  <2>2. CodesTyped(VerifOps)' /\ Undelivered(VerifOps)'
    BY <1>0, <1>2, <2>1, FlowStays
  <2>3. verif' \in [Codes -> Rows] /\ verif'[c] = e /\ \A d \in Codes : d # c => verif'[d] = verif[d]
    BY <1>0, <1>2
  <2>4. ASSUME NEW d \in Codes PROVE RowOf(d)'
    BY <1>0, <1>R, <1>2, <2>1, <2>3
  <2>5. ASSUME NEW w \in Clients PROVE FlowOf(w)'
    <3>1. flow[w].seen \subseteq Codes
      BY <1>0
    <3> QED BY <1>0, <1>R, <1>2, <2>1, <2>3, <3>1
  <2> QED BY <1>1, <1>2, <2>2, <2>3, <2>4, <2>5
<1>3. ASSUME NEW w \in Clients, IssueVerification(w) PROVE VerifInv'
  <2>1. /\ made < MaxCodes /\ made' = made + 1 /\ Step(w, "verifSend", made + 1)
        /\ verif' = [verif EXCEPT ![made + 1].state = "inactive"]
        /\ UNCHANGED <<tokens, wrong, accepted, flags>>
    BY <1>3 DEF IssueVerification
  <2>2. CodesTyped(VerifOps)' /\ Undelivered(VerifOps)'
    BY <1>0, <2>1, CodeIssued DEF VerifOps
  <2>3. made + 1 \in Codes /\ accepted[made + 1] = 0 /\ wrong[made + 1] = 0
    BY <1>0, <2>1, CodesAssumption DEF CodesTyped, Codes
  <2>4. /\ verif' \in [Codes -> Rows] /\ verif'[made + 1].state = "inactive"
        /\ \A c \in Codes : c # made + 1 => verif'[c] = verif[c]
    BY <1>0, <2>1, <2>3
  <2>5. \A v \in Clients : flow'[v] = IF v = w THEN [op |-> "verifSend", code |-> made + 1, seen |-> {}]
                                               ELSE flow[v]
    BY <1>0, <2>1 DEF Step
  <2>6. verif[made + 1].state = "none"
    BY <1>0, <1>R, <2>3
  <2>7. ASSUME NEW v \in Clients PROVE FlowOf(v)'
    <3>1. flow[v].seen \subseteq Codes /\ FlowOf(v)
      BY <1>0, <1>R
    <3>2. CASE v = w
      BY <2>4, <2>5, <3>2
    <3>3. CASE v # w
      <4>1. flow'[v] = flow[v]
        BY <2>5, <3>3
      <4>2. ASSUME flow[v].op \in VerifOps PROVE verif'[flow[v].code].state = "inactive"
        BY <1>0, <2>4, <2>6, <3>1, <4>2
      <4>3. ASSUME NEW d \in flow[v].seen PROVE verif'[d].state \in {"active", "expired"}
        BY <2>4, <2>6, <3>1
      <4> QED BY <4>1, <4>2, <4>3
    <3> QED BY <3>2, <3>3
  <2>8. ASSUME NEW c \in Codes PROVE RowOf(c)'
    <3>1. RowOf(c) /\ c \in Nat
      BY <1>R, CodesAssumption DEF Codes
    <3> QED BY <1>0, <2>1, <2>3, <2>4, <3>1
  <2> QED BY <1>0, <1>1, <2>1, <2>2, <2>4, <2>7, <2>8
\* A request ends, or goes on to activate its code.
<1>4. ASSUME NEW w \in Clients, NEW g \in Flows, flow' = [flow EXCEPT ![w] = g], g.op \notin VerifOps, g.seen = {},
             flow[w].op \in VerifOps,
             NEW e \in Rows, e.state = "verified" \/ e = [state |-> "active", attempts |-> 0],
             verif' \in [Codes -> Rows], UNCHANGED <<made, wrong, accepted, tokens, flags>>,
             verif'[flow[w].code] = e,
             \A c \in Codes : \/ c = flow[w].code
                              \/ verif'[c] = verif[c]
                              \/ verif[c].state \in {"active", "expired"} /\ verif'[c].state = "expired"
      PROVE  VerifInv'
  <2>1. CodesTyped(VerifOps)' /\ Undelivered(VerifOps)'
    BY <1>0, <1>4, FlowEnds
  <2>2. \A v \in Clients : flow'[v] = IF v = w THEN g ELSE flow[v]
    BY <1>0, <1>4
  <2>3. /\ flow[w].code \in Codes /\ verif[flow[w].code].state = "inactive" /\ flow[w].code <= made
        /\ accepted[flow[w].code] = 0 /\ wrong[flow[w].code] = 0
        /\ \A v \in Clients : v # w /\ flow[v].op \in VerifOps => flow[v].code # flow[w].code
    BY <1>0, <1>4, <1>R DEF Undelivered
  <2>4. ASSUME NEW v \in Clients PROVE FlowOf(v)'
    <3>1. flow[v].seen \subseteq Codes /\ FlowOf(v)
      BY <1>0, <1>R
    <3>2. CASE v = w
      BY <1>4, <2>2, <3>2
    <3>3. CASE v # w
      <4>1. flow'[v] = flow[v]
        BY <2>2, <3>3
      <4>2. ASSUME flow[v].op \in VerifOps PROVE verif'[flow[v].code].state = "inactive"
        BY <1>0, <1>4, <2>3, <3>1, <3>3, <4>2
      <4>3. ASSUME NEW d \in flow[v].seen PROVE verif'[d].state \in {"active", "expired"}
        BY <1>4, <2>3, <3>1
      <4> QED BY <4>1, <4>2, <4>3
    <3> QED BY <3>2, <3>3
  <2>5. ASSUME NEW c \in Codes PROVE RowOf(c)'
    <3>1. RowOf(c) /\ c \in Nat /\ MaxGuesses \in Nat \ {0}
      BY <1>R, CodesAssumption DEF Codes
    <3>2. CASE c = flow[w].code
      BY <1>0, <1>4, <2>3, <3>1, <3>2
    <3>3. CASE c # flow[w].code
      BY <1>0, <1>4, <3>1, <3>3
    <3> QED BY <3>2, <3>3
  <2> QED BY <1>0, <1>1, <1>4, <2>1, <2>4, <2>5
<1>5. ASSUME NEW w \in Clients, VerificationNotDelivered(w) PROVE VerifInv'
  <2> DEFINE c == flow[w].code
             e == [verif[c] EXCEPT !.state = "verified"]
  <2>1. /\ flow[w].op \in VerifOps /\ flow' = [flow EXCEPT ![w] = Quiet]
        /\ verif' = [verif EXCEPT ![c] = e]
        /\ UNCHANGED <<tokens, made, wrong, accepted, flags>>
    BY <1>5 DEF VerificationNotDelivered, Finish, VerifOps
  <2>2. c \in Codes /\ e \in Rows /\ e.state = "verified"
    BY <1>0, <2>1
  <2> HIDE DEF e
  <2>3. verif' \in [Codes -> Rows] /\ verif'[c] = e /\ \A d \in Codes : d # c => verif'[d] = verif[d]
    BY <1>0, <2>1, <2>2
  <2>4. \A d \in Codes : \/ d = flow[w].code
                         \/ verif'[d] = verif[d]
                         \/ verif[d].state \in {"active", "expired"} /\ verif'[d].state = "expired"
    BY <2>3
  <2>5. /\ Quiet \in Flows /\ Quiet.op \notin VerifOps /\ Quiet.seen = {} /\ e \in Rows
        /\ UNCHANGED <<made, wrong, accepted, tokens, flags>> /\ verif'[flow[w].code] = e
        /\ verif' \in [Codes -> Rows] /\ flow[w].op \in VerifOps /\ flow' = [flow EXCEPT ![w] = Quiet]
    BY <1>0, <2>1, <2>2, <2>3
  <2> QED BY <1>4, <2>2, <2>4, <2>5
<1>6. ASSUME NEW w \in Clients, ActivateVerification(w) PROVE VerifInv'
  <2> DEFINE c == flow[w].code
             e == [state |-> "active", attempts |-> 0]
  <2>1. /\ flow[w].op \in VerifOps /\ flow' = [flow EXCEPT ![w] = Quiet]
        /\ verif' = [d \in Codes |->
                 IF d = c THEN e
                 ELSE IF d \in flow[w].seen THEN [verif[d] EXCEPT !.state = "expired"] ELSE verif[d]]
        /\ UNCHANGED <<tokens, made, wrong, accepted, flags>>
    BY <1>6 DEF ActivateVerification, Finish, VerifOps
  <2>2. c \in Codes /\ e \in Rows
    BY <1>0, <2>1
  <2>3. /\ verif' \in [Codes -> Rows] /\ verif'[c] = e
        /\ \A d \in Codes : d # c => verif'[d] = IF d \in flow[w].seen THEN [verif[d] EXCEPT !.state = "expired"]
                                                                      ELSE verif[d]
    BY <1>0, <2>1, <2>2
  <2>4. \A d \in Codes : \/ d = c
                         \/ verif'[d] = verif[d]
                         \/ verif[d].state \in {"active", "expired"} /\ verif'[d].state = "expired"
    BY <1>0, <1>R, <2>3
  <2> QED BY <1>0, <1>4, <2>1, <2>2, <2>3, <2>4
<1>7. ASSUME NEW w \in Clients, ExpireOthers(w) PROVE VerifInv'
  <2> DEFINE g == [op |-> "verifActivate", code |-> flow[w].code, seen |-> {d \in Codes : verif[d].state = "active"}]
  <2>1. /\ flow[w].op = "verifSend" /\ flow' = [flow EXCEPT ![w] = g]
        /\ UNCHANGED <<verif, tokens, made, wrong, accepted, flags>>
    BY <1>7 DEF ExpireOthers
  <2>2. g \in Flows /\ g.op \in VerifOps /\ g.code = flow[w].code
        /\ \A d \in g.seen : verif[d].state \in {"active", "expired"}
    BY <1>0 DEF VerifOps
  <2> HIDE DEF g
  <2>3. \A v \in Clients : flow'[v] = IF v = w THEN g ELSE flow[v]
    BY <1>0, <2>1
  <2>4. CodesTyped(VerifOps)'
    BY <1>0, <2>1, <2>2 DEF CodesTyped
  <2>5. flow[w].op \in VerifOps
    BY <2>1 DEF VerifOps
  <2>6. Undelivered(VerifOps)'
    BY <1>0, <2>1, <2>2, <2>3, <2>5 DEF Undelivered
  <2>7. ASSUME NEW v \in Clients PROVE FlowOf(v)'
    BY <1>R, <2>1, <2>2, <2>3, <2>5
  <2> QED BY <1>0, <1>1, <1>R, <2>1, <2>4, <2>6, <2>7
<1>8. ASSUME NEW c \in Codes, WrongVerification(c) PROVE VerifInv'
  <2> DEFINE n == verif[c].attempts + 1
             end == IF n >= MaxGuesses THEN "expired" ELSE "active"
             e == [state |-> end, attempts |-> n]
  <2>1. /\ verif[c].state = "active" /\ wrong' = [wrong EXCEPT ![c] = @ + 1]
        /\ verif' = [verif EXCEPT ![c].attempts = @ + 1,
                            ![c].state = IF verif[c].attempts + 1 >= MaxGuesses THEN "expired" ELSE @]
        /\ UNCHANGED <<flow, made, tokens, accepted, flags>>
    BY <1>8 DEF WrongVerification, Newest
  <2>2. /\ verif[c] \in Rows /\ n \in Nat /\ wrong[c] = verif[c].attempts /\ wrong[c] < MaxGuesses
        /\ accepted[c] = 0 /\ MaxGuesses \in Nat
    BY <1>0, <1>R, <2>1, CodesAssumption
  <2>3. end \in {"expired", "active"} /\ end = (IF n >= MaxGuesses THEN "expired" ELSE verif[c].state)
    BY <2>1
  <2>4. verif' = [verif EXCEPT ![c] = e]
    <3>0. verif[c] \in [state : States, attempts : Nat] /\ end \in States /\ n \in Nat
      BY <2>2, <2>3
    <3>1. [verif[c] EXCEPT !.attempts = n, !.state = end] = e
      <4> DEFINE q == [verif[c] EXCEPT !.attempts = n, !.state = end]
      <4> HIDE DEF n, end
      <4>1. q \in [state : States, attempts : Nat] /\ q.state = end /\ q.attempts = n
        BY <3>0
      <4> HIDE DEF q
      <4>2. q = [state |-> end, attempts |-> n]
        BY <4>1
      <4> QED BY <4>2 DEF q
    <3>2. verif' = [verif EXCEPT ![c] = [@ EXCEPT !.attempts = n, !.state = end]]
      BY <1>0, <2>1, <2>3
    <3> QED BY <1>0, <3>1, <3>2, Zenon
  <2>5. e \in Rows /\ e.state = end /\ e.attempts = n
    BY <2>2, <2>3
  <2>6. /\ wrong' \in [Codes -> 0 .. MaxGuesses] /\ wrong'[c] = n
        /\ \A d \in Codes : d # c => wrong'[d] = wrong[d]
    BY <1>0, <2>1, <2>2
  <2>7. end = "active" => n < MaxGuesses
    BY <2>2
  <2> HIDE DEF e, n, end
  <2>8. /\ e.state \in {"active", "expired", "verified"}
        /\ \A w \in Clients : e.state = "verified" => c \notin flow[w].seen
        /\ e.state \in {"active", "expired"} => accepted'[c] = 0
        /\ e.state = "active" => wrong'[c] = e.attempts /\ wrong'[c] < MaxGuesses
    BY <2>1, <2>2, <2>3, <2>5, <2>6, <2>7
  <2>9. /\ UNCHANGED <<flow, made, tokens>> /\ flags' \in [sets : {0}, verified : BOOLEAN]
        /\ verif[c].state = "active" /\ e \in Rows /\ accepted' \in [Codes -> 0 .. 1]
        /\ \A d \in Codes : d # c => accepted'[d] = accepted[d] /\ wrong'[d] = wrong[d]
    BY <1>0, <2>1, <2>5, <2>6
  <2> QED BY <1>2, <2>4, <2>6, <2>8, <2>9
<1>9. ASSUME NEW c \in Codes, VerifyCode(c) PROVE VerifInv'
  <2> DEFINE e == [verif[c] EXCEPT !.state = "verified"]
  <2>1. /\ verif[c].state = "active" /\ verif' = [verif EXCEPT ![c] = e]
        /\ accepted' = [accepted EXCEPT ![c] = @ + 1]
        /\ \A w \in Clients : c \notin flow[w].seen
        /\ UNCHANGED <<flow, made, tokens, wrong>>
    BY <1>9 DEF VerifyCode, Newest
  <2>2. flags' \in [sets : {0}, verified : BOOLEAN]
    BY <1>0, <1>9 DEF VerifyCode
  <2>3. e \in Rows /\ e.state = "verified" /\ accepted[c] = 0
    BY <1>0, <1>R, <2>1
  <2> HIDE DEF e
  <2>4. accepted' \in [Codes -> 0 .. 1] /\ \A d \in Codes : d # c => accepted'[d] = accepted[d]
    BY <1>0, <2>1, <2>3
  <2> QED BY <1>0, <1>2, <2>1, <2>2, <2>3, <2>4
<1>10. CASE UNCHANGED codeVars
  BY <1>0, <1>R, <1>1, <1>10 DEF codeVars, CodesTyped, Undelivered
<1> QED BY <1>3, <1>5, <1>6, <1>7, <1>8, <1>9, <1>10 DEF VerificationNext

\* The two promises follow from each part's invariant.
LEMMA CodesFollow ==
  ASSUME OTPInv \/ ResetInv \/ VerifInv
  PROVE  CodeAcceptedOnce /\ ResetsBacked
<1>1. CodeAcceptedOnce
  BY CodesAssumption DEF OTPInv, ResetInv, VerifInv, CodesTyped, CodeAcceptedOnce
<1>2. CASE ResetInv
  BY <1>1, <1>2 DEF ResetInv
<1>3. CASE OTPInv \/ VerifInv
  <2>1. {w \in Clients : flow[w].op \in {"exchange", "setPassword"}} = {}
    BY <1>3 DEF OTPInv, VerifInv, CodesTyped, VerifOps
  <2>2. tokens = {} /\ flags.sets = 0
    BY <1>3 DEF OTPInv, VerifInv, NoResets
  <2>3. Cardinality({}) = 0
    BY FS_EmptySet
  <2>4. IsFiniteSet({c \in Codes : accepted[c] = 1})
    BY CodesAssumption, FS_Interval, FS_Subset DEF Codes
  <2>5. Cardinality({c \in Codes : accepted[c] = 1}) \in Nat
    BY <2>4, FS_CardinalityType
  <2>6. flags.sets + Cardinality(tokens) + Cardinality({w \in Clients : flow[w].op \in {"exchange", "setPassword"}})
          <= Cardinality({c \in Codes : accepted[c] = 1})
    <3>1. flags.sets + Cardinality(tokens) + Cardinality({w \in Clients : flow[w].op \in {"exchange", "setPassword"}}) = 0
      BY <2>1, <2>2, <2>3
    <3> QED BY <2>5, <3>1
  <2> QED BY <1>1, <2>6 DEF ResetsBacked
<1> QED BY <1>2, <1>3

-----------------------------------------------------------------------------
(* Alerts handed to workers. *)

\* The channel holds each queued alert once and nothing else, and an alert was
\* handed to its channels exactly when it is sent.
AlertsInv ==
  /\ alerts \in [Alerts -> {"new", "checked", "refused", "queued", "dropped", "sent"}]
  /\ attempts \in [Alerts -> 0 .. 1] /\ \A a \in Alerts : attempts[a] = 1 => alerts[a] = "sent"
  /\ aqueue \in Seq(Alerts)
  /\ \A k \in 1 .. Len(aqueue) : alerts[aqueue[k]] = "queued"
  /\ \A k, l \in 1 .. Len(aqueue) : aqueue[k] = aqueue[l] => k = l
  /\ \A a \in Alerts : alerts[a] = "queued" => \E k \in 1 .. Len(aqueue) : aqueue[k] = a
  /\ svc \in {"running", "stopping", "closed", "drained", "gaveUp", "panicked"}
  /\ svc = "drained" => aqueue = <<>>

\* At first no alert was raised.
LEMMA AlertsStart == NotifyInit => AlertsInv
<1> SUFFICES ASSUME NotifyInit PROVE AlertsInv
  OBVIOUS
<1>1. aqueue = <<>> /\ aqueue \in Seq(Alerts) /\ Len(aqueue) = 0
  BY DEF NotifyInit
<1> QED BY <1>1 DEF NotifyInit, AlertsInv

\* Every step of the service keeps the invariant.
LEMMA AlertsStep == AlertsInv /\ [AlertNext]_alertVars => AlertsInv'
<1> SUFFICES ASSUME AlertsInv, [AlertNext]_alertVars PROVE AlertsInv'
  OBVIOUS
<1> USE DEF AlertsInv
<1>1. ASSUME NEW a \in Alerts, CheckShutdown(a) PROVE AlertsInv'
  BY <1>1 DEF CheckShutdown
<1>2. ASSUME NEW a \in Alerts, NEW critical \in BOOLEAN, QueueAlert(a, critical) PROVE AlertsInv'
  <2>1. CASE svc' = "panicked" /\ UNCHANGED <<aqueue, alerts, attempts>>
    BY <2>1
  <2>2. CASE /\ svc \in {"running", "stopping"} /\ aqueue' = Append(aqueue, a)
             /\ alerts' = [alerts EXCEPT ![a] = "queued"] /\ UNCHANGED <<attempts, svc>>
    <3>1. /\ aqueue' \in Seq(Alerts) /\ Len(aqueue') = Len(aqueue) + 1 /\ aqueue'[Len(aqueue) + 1] = a
          /\ \A k \in 1 .. Len(aqueue) : aqueue'[k] = aqueue[k]
          /\ Len(aqueue) \in Nat
      BY <2>2
    <3>2. alerts[a] = "checked" /\ alerts'[a] = "queued" /\ \A b \in Alerts : b # a => alerts'[b] = alerts[b]
      BY <1>2, <2>2 DEF QueueAlert
    <3>3. \A k \in 1 .. Len(aqueue) : aqueue[k] \in Alerts /\ aqueue[k] # a
      BY <3>2
    <3>4. \A k \in 1 .. Len(aqueue') : k \in 1 .. Len(aqueue) \/ k = Len(aqueue) + 1
      BY <3>1
    <3>5. \A k \in 1 .. Len(aqueue') : alerts'[aqueue'[k]] = "queued"
      BY <3>1, <3>2, <3>3, <3>4
    <3>6. \A k, l \in 1 .. Len(aqueue') : aqueue'[k] = aqueue'[l] => k = l
      BY <3>1, <3>3, <3>4
    <3>7. ASSUME NEW b \in Alerts, alerts'[b] = "queued" PROVE \E k \in 1 .. Len(aqueue') : aqueue'[k] = b
      <4>1. CASE b = a
        BY <3>1, <4>1
      <4>2. CASE b # a
        <5>1. PICK k \in 1 .. Len(aqueue) : aqueue[k] = b
          BY <3>2, <3>7, <4>2
        <5>2. k \in 1 .. Len(aqueue') /\ aqueue'[k] = b
          BY <3>1, <5>1
        <5> QED BY <5>2
      <4> QED BY <4>1, <4>2
    <3>8. /\ alerts' \in [Alerts -> {"new", "checked", "refused", "queued", "dropped", "sent"}]
          /\ \A b \in Alerts : attempts'[b] = 1 => alerts'[b] = "sent"
      BY <2>2, <3>2
    <3> QED BY <2>2, <3>1, <3>5, <3>6, <3>7, <3>8
  <2>3. CASE /\ alerts' = [alerts EXCEPT ![a] = IF critical THEN "sent" ELSE "dropped"]
             /\ attempts' = [attempts EXCEPT ![a] = IF critical THEN @ + 1 ELSE @]
             /\ UNCHANGED <<aqueue, svc>>
    <3>1. alerts[a] = "checked" /\ attempts[a] = 0
      BY <1>2 DEF QueueAlert
    <3>2. \A k \in 1 .. Len(aqueue) : aqueue[k] \in Alerts /\ aqueue[k] # a
      BY <3>1
    <3>3. CASE critical
      BY <2>3, <3>1, <3>2, <3>3
    <3>4. CASE ~critical
      BY <2>3, <3>1, <3>2, <3>4
    <3> QED BY <3>3, <3>4
  <2> QED BY <1>2, <2>1, <2>2, <2>3 DEF QueueAlert
<1>3. CASE Worker
  <2> DEFINE a == Head(aqueue)
  <2>1. /\ aqueue # <<>> /\ aqueue' = Tail(aqueue) /\ svc' = svc /\ svc # "drained"
        /\ alerts' = [alerts EXCEPT ![a] = "sent"] /\ attempts' = [attempts EXCEPT ![a] = @ + 1]
    BY <1>3 DEF Worker, Sent
  <2>2. /\ a \in Alerts /\ a = aqueue[1] /\ Len(aqueue) \in Nat \ {0}
        /\ aqueue' \in Seq(Alerts) /\ Len(aqueue') = Len(aqueue) - 1
        /\ \A k \in 1 .. Len(aqueue') : aqueue'[k] = aqueue[k + 1] /\ k + 1 \in 1 .. Len(aqueue)
    BY <2>1
  <2> HIDE DEF a
  <2>3. alerts[a] = "queued" /\ attempts[a] = 0
    BY <2>2
  <2>4. /\ alerts' \in [Alerts -> {"new", "checked", "refused", "queued", "dropped", "sent"}]
        /\ attempts' \in [Alerts -> 0 .. 1] /\ \A b \in Alerts : attempts'[b] = 1 => alerts'[b] = "sent"
        /\ alerts'[a] = "sent" /\ \A b \in Alerts : b # a => alerts'[b] = alerts[b]
    BY <2>1, <2>2, <2>3
  <2>5. \A k \in 1 .. Len(aqueue') : alerts'[aqueue'[k]] = "queued"
    <3> SUFFICES ASSUME NEW k \in 1 .. Len(aqueue') PROVE alerts'[aqueue'[k]] = "queued"
      OBVIOUS
    <3>1. aqueue'[k] = aqueue[k + 1] /\ k + 1 \in 1 .. Len(aqueue) /\ k + 1 # 1 /\ 1 \in 1 .. Len(aqueue)
      BY <2>2
    <3>2. aqueue[k + 1] # a /\ aqueue[k + 1] \in Alerts /\ alerts[aqueue[k + 1]] = "queued"
      BY <2>2, <3>1
    <3> QED BY <2>4, <3>1, <3>2
  <2>6. \A k, l \in 1 .. Len(aqueue') : aqueue'[k] = aqueue'[l] => k = l
    <3> SUFFICES ASSUME NEW k \in 1 .. Len(aqueue'), NEW l \in 1 .. Len(aqueue'), aqueue'[k] = aqueue'[l] PROVE k = l
      OBVIOUS
    <3>1. aqueue[k + 1] = aqueue[l + 1] /\ k + 1 \in 1 .. Len(aqueue) /\ l + 1 \in 1 .. Len(aqueue)
      BY <2>2
    <3>2. k + 1 = l + 1
      BY <3>1
    <3> QED BY <2>2, <3>2
  <2>7. ASSUME NEW b \in Alerts, alerts'[b] = "queued" PROVE \E k \in 1 .. Len(aqueue') : aqueue'[k] = b
    <3>1. b # a /\ alerts[b] = "queued"
      BY <2>4, <2>7
    <3>2. PICK k \in 1 .. Len(aqueue) : aqueue[k] = b
      BY <3>1
    <3>3. k # 1
      BY <2>2, <3>1, <3>2
    <3>4. k - 1 \in 1 .. Len(aqueue') /\ (k - 1) + 1 = k
      BY <2>2, <3>3
    <3> QED BY <2>2, <3>2, <3>4
  <2> QED BY <2>1, <2>2, <2>4, <2>5, <2>6, <2>7
<1>4. CASE DrainQueue
  <2> DEFINE left == {aqueue[k] : k \in 1 .. Len(aqueue)}
  <2>1. /\ svc' = "drained" /\ aqueue' = <<>>
        /\ alerts' = [a \in Alerts |-> IF a \in left THEN "sent" ELSE alerts[a]]
        /\ attempts' = [a \in Alerts |-> IF a \in left THEN attempts[a] + 1 ELSE attempts[a]]
    BY <1>4 DEF DrainQueue
  <2>2. \A a \in Alerts : a \in left <=> alerts[a] = "queued"
    OBVIOUS
  <2>3. \A a \in left : a \in Alerts /\ attempts[a] = 0
    OBVIOUS
  <2> HIDE DEF left
  <2>4. aqueue' \in Seq(Alerts) /\ Len(aqueue') = 0
    BY <2>1
  <2>5. /\ alerts' \in [Alerts -> {"new", "checked", "refused", "queued", "dropped", "sent"}]
        /\ attempts' \in [Alerts -> 0 .. 1] /\ \A b \in Alerts : attempts'[b] = 1 => alerts'[b] = "sent"
        /\ \A a \in Alerts : alerts'[a] # "queued"
    BY <2>1, <2>2, <2>3
  <2> QED BY <2>1, <2>4, <2>5
<1>5. CASE Shutdown \/ CloseQueue \/ ShutdownGivesUp
  BY <1>5 DEF Shutdown, CloseQueue, ShutdownGivesUp
<1>6. CASE UNCHANGED alertVars
  BY <1>6 DEF alertVars
<1> QED BY <1>1, <1>2, <1>3, <1>4, <1>5, <1>6 DEF AlertNext

\* No alert is sent twice, and a shutdown that ended left none.
LEMMA AlertsFollow == AlertsInv => AcceptedAlertsSent
<1> SUFFICES ASSUME AlertsInv PROVE AcceptedAlertsSent
  OBVIOUS
<1>1. svc = "drained" => Len(aqueue) = 0
  BY DEF AlertsInv
<1> QED BY <1>1 DEF AlertsInv, AcceptedAlertsSent

-----------------------------------------------------------------------------
(* Contest reminders. *)

\* The passes about a tier: all of them, those that may still write its notices,
\* and those that may still mail a recipient.
PassesOf(t) == {i \in Notifiers : remind[i].pc # "idle" /\ remind[i].tier = t}
Unnoted(t) == {i \in Notifiers : remind[i].pc \in {"send", "notices"} /\ remind[i].tier = t}
Mailing1(r, t) == {i \in Notifiers : remind[i].pc = "send" /\ remind[i].tier = t /\ r \in remind[i].todo}

RemindersTyped ==
  /\ remind \in [Notifiers -> [pc : {"idle", "send", "notices", "mark"}, tier : ReminderTypes,
                               todo : SUBSET Recipients, tries : Nat]]
  /\ mails \in [ReminderTypes -> [Recipients -> Nat]]
  /\ finds \in [ReminderTypes -> Nat] /\ noted \in [ReminderTypes -> Nat] /\ doubts \in Nat

\* What a pass has still to do is counted with what it has done, and a tier not
\* yet marked was found once for each pass about it and each doubt.
RemindersInv ==
  /\ RemindersTyped
  /\ \A r \in Recipients, t \in ReminderTypes :
       mails[t][r] + Cardinality(Mailing1(r, t)) <= finds[t] + doubts
  /\ \A t \in ReminderTypes :
       /\ noted[t] + Cardinality(Unnoted(t)) <= finds[t]
       /\ finds[t] <= Cardinality(Notifiers) + doubts
       /\ t \notin marked => finds[t] <= Cardinality(PassesOf(t)) + doubts

\* The sets that are counted are finite.
LEMMA PassesCounted ==
  ASSUME NEW S \in SUBSET Notifiers
  PROVE  IsFiniteSet(S) /\ Cardinality(S) \in Nat /\ Cardinality(S) <= Cardinality(Notifiers)
BY NotifiersFinite, FS_Subset, FS_CardinalityType

\* One more pass, one less, or fewer.
LEMMA PassCounts ==
  ASSUME NEW S \in SUBSET Notifiers, NEW T \in SUBSET Notifiers, NEW i \in Notifiers
  PROVE  /\ T \subseteq S => Cardinality(T) <= Cardinality(S)
         /\ T \subseteq S \cup {i} => Cardinality(T) <= Cardinality(S) + 1
         /\ S \cup {i} \subseteq T /\ i \notin S => Cardinality(S) + 1 <= Cardinality(T)
         /\ T \subseteq S \ {i} /\ i \in S => Cardinality(T) + 1 <= Cardinality(S)
<1>1. /\ IsFiniteSet(S) /\ Cardinality(S) \in Nat /\ IsFiniteSet(T) /\ Cardinality(T) \in Nat
  BY PassesCounted
<1>2. T \subseteq S => Cardinality(T) <= Cardinality(S)
  BY <1>1, FS_Subset
<1>3. /\ IsFiniteSet(S \cup {i}) /\ Cardinality(S \cup {i}) <= Cardinality(S) + 1
      /\ i \notin S => Cardinality(S \cup {i}) = Cardinality(S) + 1
  <2>1. IsFiniteSet(S \cup {i})
    BY <1>1, FS_AddElement
  <2>2. CASE i \in S
    <3>1. S \cup {i} = S
      BY <2>2
    <3>2. Cardinality(S \cup {i}) = Cardinality(S)
      BY <3>1
    <3> QED BY <1>1, <2>1, <2>2, <3>2
  <2>3. CASE i \notin S
    <3>1. Cardinality(S \cup {i}) = Cardinality(S) + 1
      BY <1>1, <2>3, FS_AddElement
    <3> QED BY <1>1, <2>1, <3>1
  <2> QED BY <2>2, <2>3
<1>4. T \subseteq S \cup {i} => Cardinality(T) <= Cardinality(S \cup {i})
  BY <1>3, FS_Subset
<1>5. Cardinality(S \cup {i}) \in Nat
  BY <1>3, FS_CardinalityType
<1>6. S \cup {i} \subseteq T => Cardinality(S \cup {i}) <= Cardinality(T)
  BY <1>1, FS_Subset
<1>7. IsFiniteSet(S \ {i}) /\ (i \in S => Cardinality(S \ {i}) = Cardinality(S) - 1)
  BY <1>1, FS_RemoveElement
<1>8. T \subseteq S \ {i} => Cardinality(T) <= Cardinality(S \ {i})
  BY <1>7, FS_Subset
<1> QED BY <1>1, <1>2, <1>3, <1>4, <1>5, <1>6, <1>7, <1>8

\* At first no pass was made.
LEMMA RemindersStart == NotifyInit => RemindersInv
<1> SUFFICES ASSUME NotifyInit PROVE RemindersInv
  OBVIOUS
<1>1. RemindersTyped
  BY DEF NotifyInit, RemindersTyped, Resting, ReminderTypes, EndTier
<1>2. \A r \in Recipients, t \in ReminderTypes : Mailing1(r, t) = {}
  BY DEF NotifyInit, Mailing1, Resting
<1>3. \A t \in ReminderTypes : Unnoted(t) = {} /\ PassesOf(t) = {}
  BY DEF NotifyInit, Unnoted, PassesOf, Resting
<1>4. \A t \in ReminderTypes : finds[t] = 0 /\ noted[t] = 0 /\ \A r \in Recipients : mails[t][r] = 0
  BY DEF NotifyInit
<1>5. doubts = 0 /\ Cardinality({}) = 0 /\ Cardinality(Notifiers) \in Nat
  BY FS_EmptySet, NotifiersFinite, FS_CardinalityType DEF NotifyInit
<1>6. \A r \in Recipients, t \in ReminderTypes :
        mails[t][r] + Cardinality(Mailing1(r, t)) <= finds[t] + doubts
  BY <1>2, <1>4, <1>5
<1>7. \A t \in ReminderTypes :
       /\ noted[t] + Cardinality(Unnoted(t)) <= finds[t]
       /\ finds[t] <= Cardinality(Notifiers) + doubts
       /\ t \notin marked => finds[t] <= Cardinality(PassesOf(t)) + doubts
  BY <1>3, <1>4, <1>5
<1> QED BY <1>1, <1>6, <1>7 DEF RemindersInv

\* A pass finds its tier unmarked.
LEMMA PassBegins ==
  ASSUME RemindersInv, NEW i \in Notifiers, NEW t \in ReminderTypes, NEW S \in SUBSET Recipients,
         remind[i] = Resting, t \notin marked, finds' = [finds EXCEPT ![t] = @ + 1],
         remind' = [remind EXCEPT ![i] = [pc |-> "send", tier |-> t, todo |-> S, tries |-> 0]],
         UNCHANGED <<marked, mails, doubts, noted>>
  PROVE  RemindersInv'
<1> DEFINE g == [pc |-> "send", tier |-> t, todo |-> S, tries |-> 0]
<1>1. /\ g \in [pc : {"idle", "send", "notices", "mark"}, tier : ReminderTypes,
                todo : SUBSET Recipients, tries : Nat]
      /\ g.pc = "send" /\ g.tier = t
  OBVIOUS
<1>2. remind[i].pc = "idle"
  BY DEF Resting
<1>3. \A j \in Notifiers : remind'[j] = IF j = i THEN g ELSE remind[j]
  BY DEF RemindersInv, RemindersTyped
<1>4. RemindersTyped'
  BY <1>1 DEF RemindersInv, RemindersTyped
<1> HIDE DEF g
<1>5. /\ finds'[t] = finds[t] + 1 /\ \A u \in ReminderTypes : finds'[u] \in Nat /\ (u # t => finds'[u] = finds[u])
      /\ \A u \in ReminderTypes : finds[u] \in Nat /\ noted[u] \in Nat /\ \A r \in Recipients : mails[u][r] \in Nat
      /\ doubts \in Nat
  BY DEF RemindersInv, RemindersTyped
<1>6. ASSUME NEW r \in Recipients, NEW u \in ReminderTypes
      PROVE  mails'[u][r] + Cardinality(Mailing1(r, u)') <= finds'[u] + doubts'
  <2>1. /\ Mailing1(r, u)' \subseteq Mailing1(r, u) \cup {i}
        /\ u # t => Mailing1(r, u)' \subseteq Mailing1(r, u)
    BY <1>1, <1>3 DEF Mailing1
  <2>2. Mailing1(r, u) \in SUBSET Notifiers /\ Mailing1(r, u)' \in SUBSET Notifiers
    BY DEF Mailing1
  <2>3. /\ Cardinality(Mailing1(r, u)) \in Nat /\ Cardinality(Mailing1(r, u)') \in Nat
        /\ Cardinality(Mailing1(r, u)') <= Cardinality(Mailing1(r, u)) + 1
        /\ u # t => Cardinality(Mailing1(r, u)') <= Cardinality(Mailing1(r, u))
    BY <2>1, <2>2, PassCounts, PassesCounted
  <2>4. mails[u][r] + Cardinality(Mailing1(r, u)) <= finds[u] + doubts
    BY DEF RemindersInv
  <2> QED BY <1>5, <2>3, <2>4
<1>7. ASSUME NEW u \in ReminderTypes
      PROVE  /\ noted'[u] + Cardinality(Unnoted(u)') <= finds'[u]
             /\ finds'[u] <= Cardinality(Notifiers) + doubts'
             /\ u \notin marked' => finds'[u] <= Cardinality(PassesOf(u)') + doubts'
  <2>1. /\ Unnoted(u)' \subseteq Unnoted(u) \cup {i}
        /\ u # t => Unnoted(u)' \subseteq Unnoted(u) /\ PassesOf(u) \subseteq PassesOf(u)'
        /\ u = t => PassesOf(u) \cup {i} \subseteq PassesOf(u)' /\ i \notin PassesOf(u)
    BY <1>1, <1>2, <1>3 DEF Unnoted, PassesOf
  <2>2. /\ Unnoted(u) \in SUBSET Notifiers /\ Unnoted(u)' \in SUBSET Notifiers
        /\ PassesOf(u) \in SUBSET Notifiers /\ PassesOf(u)' \in SUBSET Notifiers
    BY DEF Unnoted, PassesOf
  <2>3. /\ Cardinality(Unnoted(u)) \in Nat /\ Cardinality(Unnoted(u)') \in Nat
        /\ Cardinality(Unnoted(u)') <= Cardinality(Unnoted(u)) + 1
        /\ u # t => Cardinality(Unnoted(u)') <= Cardinality(Unnoted(u))
    BY <2>1, <2>2, PassCounts, PassesCounted
  <2>4. /\ Cardinality(PassesOf(u)) \in Nat /\ Cardinality(PassesOf(u)') \in Nat
        /\ Cardinality(PassesOf(u)') <= Cardinality(Notifiers)
        /\ u = t => Cardinality(PassesOf(u)) + 1 <= Cardinality(PassesOf(u)')
        /\ u # t => Cardinality(PassesOf(u)) <= Cardinality(PassesOf(u)')
    BY <2>1, <2>2, PassCounts, PassesCounted
  <2>5. /\ noted[u] + Cardinality(Unnoted(u)) <= finds[u]
        /\ finds[u] <= Cardinality(Notifiers) + doubts
        /\ u \notin marked => finds[u] <= Cardinality(PassesOf(u)) + doubts
    BY DEF RemindersInv
  <2>6. Cardinality(Notifiers) \in Nat
    BY NotifiersFinite, FS_CardinalityType
  <2> QED BY <1>5, <2>3, <2>4, <2>5, <2>6
<1> QED BY <1>4, <1>6, <1>7 DEF RemindersInv

\* A pass goes on or ends: it leaves no set that it was not in, and where it
\* leaves the passes of an unmarked tier a doubt is counted.
LEMMA PassGoesOn ==
  ASSUME RemindersInv, NEW i \in Notifiers, RemindersTyped',
         NEW g, remind' = [remind EXCEPT ![i] = g], UNCHANGED finds, doubts' >= doubts,
         marked \subseteq marked',
         g.pc # "idle" => remind[i].pc # "idle" /\ g.tier = remind[i].tier,
         g.pc = "idle" /\ remind[i].pc # "idle" /\ remind[i].tier \notin marked' => doubts' >= doubts + 1,
         \A u \in ReminderTypes :
            noted'[u] + (IF i \in Unnoted(u)' THEN 1 ELSE 0) <= noted[u] + (IF i \in Unnoted(u) THEN 1 ELSE 0),
         \A r \in Recipients, u \in ReminderTypes :
            mails'[u][r] + (IF i \in Mailing1(r, u)' THEN 1 ELSE 0) + doubts
              <= mails[u][r] + (IF i \in Mailing1(r, u) THEN 1 ELSE 0) + doubts'
  PROVE  RemindersInv'
<1>1. \A j \in Notifiers : remind'[j] = IF j = i THEN g ELSE remind[j]
  BY DEF RemindersInv, RemindersTyped
<1>2. /\ \A u \in ReminderTypes :
           /\ finds[u] \in Nat /\ noted[u] \in Nat /\ noted'[u] \in Nat /\ finds'[u] = finds[u]
           /\ \A r \in Recipients : mails[u][r] \in Nat /\ mails'[u][r] \in Nat
      /\ doubts \in Nat /\ doubts' \in Nat
  BY DEF RemindersInv, RemindersTyped
\* A set loses or gains i alone.
<1>3. ASSUME NEW S \in SUBSET Notifiers, NEW T \in SUBSET Notifiers, \A j \in Notifiers \ {i} : j \in T <=> j \in S
      PROVE  /\ Cardinality(S) \in Nat /\ Cardinality(T) \in Nat
             /\ Cardinality(T) + (IF i \in S THEN 1 ELSE 0) = Cardinality(S) + (IF i \in T THEN 1 ELSE 0)
  <2>1. /\ Cardinality(S) \in Nat /\ Cardinality(T) \in Nat
    BY PassesCounted
  <2>2. CASE (i \in S) <=> (i \in T)
    <3>1. S = T
      BY <1>3, <2>2
    <3> QED BY <2>1, <3>1
  <2>3. CASE i \in S /\ i \notin T
    <3>1. T \subseteq S \ {i} /\ S \subseteq T \cup {i}
      BY <1>3, <2>3
    <3>2. Cardinality(T) + 1 <= Cardinality(S) /\ Cardinality(S) <= Cardinality(T) + 1
      BY <2>3, <3>1, PassCounts
    <3> QED BY <2>1, <2>3, <3>2
  <2>4. CASE i \notin S /\ i \in T
    <3>1. S \subseteq T \ {i} /\ T \subseteq S \cup {i}
      BY <1>3, <2>4
    <3>2. Cardinality(S) + 1 <= Cardinality(T) /\ Cardinality(T) <= Cardinality(S) + 1
      BY <2>4, <3>1, PassCounts
    <3> QED BY <2>1, <2>4, <3>2
  <2> QED BY <2>2, <2>3, <2>4
<1>4. ASSUME NEW r \in Recipients, NEW u \in ReminderTypes
      PROVE  mails'[u][r] + Cardinality(Mailing1(r, u)') <= finds'[u] + doubts'
  <2> DEFINE S == Mailing1(r, u)
             T == Mailing1(r, u)'
  <2>1. S \in SUBSET Notifiers /\ T \in SUBSET Notifiers /\ \A j \in Notifiers \ {i} : j \in T <=> j \in S
    BY <1>1 DEF Mailing1
  <2>2. /\ mails[u][r] + Cardinality(S) <= finds[u] + doubts
        /\ mails'[u][r] + (IF i \in T THEN 1 ELSE 0) + doubts <= mails[u][r] + (IF i \in S THEN 1 ELSE 0) + doubts'
    BY DEF RemindersInv
  <2> HIDE DEF S, T
  <2>3. /\ Cardinality(S) \in Nat /\ Cardinality(T) \in Nat
        /\ Cardinality(T) + (IF i \in S THEN 1 ELSE 0) = Cardinality(S) + (IF i \in T THEN 1 ELSE 0)
    BY <1>3, <2>1
  <2>4. mails'[u][r] + Cardinality(T) <= finds'[u] + doubts'
    BY <1>2, <2>2, <2>3
  <2> QED BY <2>4 DEF T
<1>5. ASSUME NEW u \in ReminderTypes
      PROVE  noted'[u] + Cardinality(Unnoted(u)') <= finds'[u]
  <2> DEFINE S == Unnoted(u)
             T == Unnoted(u)'
  <2>1. S \in SUBSET Notifiers /\ T \in SUBSET Notifiers /\ \A j \in Notifiers \ {i} : j \in T <=> j \in S
    BY <1>1 DEF Unnoted
  <2>2. /\ noted[u] + Cardinality(S) <= finds[u]
        /\ noted'[u] + (IF i \in T THEN 1 ELSE 0) <= noted[u] + (IF i \in S THEN 1 ELSE 0)
    BY DEF RemindersInv
  <2> HIDE DEF S, T
  <2>3. /\ Cardinality(S) \in Nat /\ Cardinality(T) \in Nat
        /\ Cardinality(T) + (IF i \in S THEN 1 ELSE 0) = Cardinality(S) + (IF i \in T THEN 1 ELSE 0)
    BY <1>3, <2>1
  <2>4. noted'[u] + Cardinality(T) <= finds'[u]
    BY <1>2, <2>2, <2>3
  <2> QED BY <2>4 DEF T
<1>6. ASSUME NEW u \in ReminderTypes
      PROVE  /\ finds'[u] <= Cardinality(Notifiers) + doubts'
             /\ u \notin marked' => finds'[u] <= Cardinality(PassesOf(u)') + doubts'
  <2> DEFINE S == PassesOf(u)
             T == PassesOf(u)'
  <2>1. S \in SUBSET Notifiers /\ T \in SUBSET Notifiers /\ \A j \in Notifiers \ {i} : j \in T <=> j \in S
    BY <1>1 DEF PassesOf
  <2>2. /\ finds[u] <= Cardinality(Notifiers) + doubts
        /\ u \notin marked => finds[u] <= Cardinality(S) + doubts
    BY DEF RemindersInv
  <2>3. i \in T => i \in S
    BY <1>1 DEF PassesOf
  <2>4. u \notin marked' => u \notin marked /\ (i \in S /\ i \notin T => doubts' >= doubts + 1)
    BY <1>1 DEF PassesOf
  <2> HIDE DEF S, T
  <2>5. /\ Cardinality(S) \in Nat /\ Cardinality(T) \in Nat
        /\ Cardinality(T) + (IF i \in S THEN 1 ELSE 0) = Cardinality(S) + (IF i \in T THEN 1 ELSE 0)
    BY <1>3, <2>1
  <2>6. Cardinality(Notifiers) \in Nat
    BY NotifiersFinite, FS_CardinalityType
  <2>7. u \notin marked' => finds'[u] <= Cardinality(T) + doubts'
    BY <1>2, <2>2, <2>3, <2>4, <2>5
  <2> QED BY <1>2, <2>2, <2>6, <2>7 DEF T
<1> QED BY <1>4, <1>5, <1>6 DEF RemindersInv

\* Every step of the reminders keeps the invariant.
LEMMA RemindersStep == RemindersInv /\ [ReminderNext]_reminderVars => RemindersInv'
<1> SUFFICES ASSUME RemindersInv, [ReminderNext]_reminderVars PROVE RemindersInv'
  OBVIOUS
<1> DEFINE Passes == [pc : {"idle", "send", "notices", "mark"}, tier : ReminderTypes,
                      todo : SUBSET Recipients, tries : Nat]
<1>0. /\ remind \in [Notifiers -> Passes] /\ mails \in [ReminderTypes -> [Recipients -> Nat]]
      /\ finds \in [ReminderTypes -> Nat] /\ noted \in [ReminderTypes -> Nat] /\ doubts \in Nat
      /\ Resting \in Passes /\ Resting.pc = "idle"
  BY DEF RemindersInv, RemindersTyped, Resting, ReminderTypes, EndTier
<1>1. CASE UNCHANGED <<marked, remind, mails, finds, doubts, noted>>
  BY <1>1 DEF RemindersInv, RemindersTyped, Mailing1, Unnoted, PassesOf
<1>2. ASSUME NEW i \in Notifiers, NEW t \in Tiers, FindReminders(i, t) PROVE RemindersInv'
  <2>1. Recipients \ optOut \in SUBSET Recipients /\ t \in ReminderTypes
    BY DEF ReminderTypes
  <2> QED BY <1>2, <2>1, PassBegins DEF FindReminders
<1>3. ASSUME NEW i \in Notifiers, FindEndReminders(i) PROVE RemindersInv'
  <2>1. Recipients \ optOut \in SUBSET Recipients /\ EndTier \in ReminderTypes
    BY DEF ReminderTypes
  <2> QED BY <1>3, <2>1, PassBegins DEF FindEndReminders
<1>4. ASSUME NEW i \in Notifiers, SendBatchWithRetry(i) PROVE RemindersInv'
  <2>0. remind[i].pc = "send" /\ remind[i] \in Passes /\ UNCHANGED <<marked, finds, noted>>
    BY <1>0, <1>4 DEF SendBatchWithRetry
  <2>1. PICK failed \in SUBSET remind[i].todo, doubtful \in BOOLEAN :
          /\ LET out == IF doubtful THEN remind[i].todo ELSE remind[i].todo \ failed IN
               mails' = [t \in ReminderTypes |-> [r \in Recipients |->
                 IF t = remind[i].tier /\ r \in out THEN mails[t][r] + 1 ELSE mails[t][r]]]
          /\ doubts' = IF doubtful THEN doubts + 1 ELSE doubts
          /\ \/ /\ failed # {} /\ remind[i].tries < MaxRetries
                /\ remind' = [remind EXCEPT ![i].todo = failed, ![i].tries = @ + 1]
             \/ remind' = [remind EXCEPT ![i].pc = "notices"]
    BY <1>4 DEF SendBatchWithRetry
  <2> DEFINE out == IF doubtful THEN remind[i].todo ELSE remind[i].todo \ failed
  <2>2. PICK g \in Passes :
          /\ remind' = [remind EXCEPT ![i] = g] /\ g.tier = remind[i].tier
          /\ (g.pc = "send" /\ g.todo = failed) \/ g.pc = "notices"
    <3>1. CASE remind' = [remind EXCEPT ![i].todo = failed, ![i].tries = @ + 1]
      <4> DEFINE g == [pc |-> "send", tier |-> remind[i].tier, todo |-> failed, tries |-> remind[i].tries + 1]
      <4>1. g \in Passes /\ g.tier = remind[i].tier /\ g.pc = "send" /\ g.todo = failed
        BY <2>0, <2>1
      <4>2. remind' = [remind EXCEPT ![i] = g]
        <5> DEFINE q == [remind[i] EXCEPT !.todo = failed, !.tries = @ + 1]
        <5>1. remind' = [remind EXCEPT ![i] = q]
          BY <1>0, <3>1
        <5>2. q \in Passes /\ q.pc = "send" /\ q.tier = remind[i].tier /\ q.todo = failed /\ q.tries = remind[i].tries + 1
          <6>1. failed \in SUBSET Recipients /\ remind[i].tries + 1 \in Nat
            BY <2>0, <2>1
          <6> QED BY <2>0, <6>1
        <5> HIDE DEF q
        <5>3. q = g
          BY <5>2
        <5> QED BY <5>1, <5>3
      <4> QED BY <4>1, <4>2
    <3>2. CASE remind' = [remind EXCEPT ![i].pc = "notices"]
      <4> DEFINE g == [remind[i] EXCEPT !.pc = "notices"]
      <4>1. g \in Passes /\ g.tier = remind[i].tier /\ g.pc = "notices"
        BY <2>0
      <4>2. remind' = [remind EXCEPT ![i] = g]
        BY <1>0, <3>2
      <4> HIDE DEF g
      <4> QED BY <4>1, <4>2
    <3> QED BY <2>1, <3>1, <3>2
  <2>3. \A j \in Notifiers : remind'[j] = IF j = i THEN g ELSE remind[j]
    BY <1>0, <2>2
  <2>4. /\ \A t \in ReminderTypes, r \in Recipients :
             mails'[t][r] = IF t = remind[i].tier /\ r \in out THEN mails[t][r] + 1 ELSE mails[t][r]
        /\ mails' \in [ReminderTypes -> [Recipients -> Nat]]
        /\ doubts' = IF doubtful THEN doubts + 1 ELSE doubts
    BY <1>0, <2>1
  <2>5. RemindersTyped'
    BY <1>0, <2>0, <2>2, <2>4 DEF RemindersTyped
  <2>6. ASSUME NEW u \in ReminderTypes
        PROVE  noted'[u] + (IF i \in Unnoted(u)' THEN 1 ELSE 0) <= noted[u] + (IF i \in Unnoted(u) THEN 1 ELSE 0)
    <3>1. noted'[u] = noted[u] /\ noted[u] \in Nat /\ (i \in Unnoted(u)' => i \in Unnoted(u))
      BY <1>0, <2>0, <2>2, <2>3 DEF Unnoted
    <3> QED BY <3>1
  <2>7. ASSUME NEW r \in Recipients, NEW u \in ReminderTypes
        PROVE  mails'[u][r] + (IF i \in Mailing1(r, u)' THEN 1 ELSE 0) + doubts
                 <= mails[u][r] + (IF i \in Mailing1(r, u) THEN 1 ELSE 0) + doubts'
    <3>1. /\ i \in Mailing1(r, u)' <=> u = remind[i].tier /\ g.pc = "send" /\ r \in failed
          /\ i \in Mailing1(r, u) <=> u = remind[i].tier /\ r \in remind[i].todo
      BY <2>0, <2>2, <2>3 DEF Mailing1
    <3>2. failed \subseteq remind[i].todo
      BY <2>1
    <3>3. CASE u = remind[i].tier /\ r \in out
      <4>1. mails'[u][r] = mails[u][r] + 1 /\ mails[u][r] \in Nat
        BY <1>0, <2>4, <3>3
      <4>2. r \in remind[i].todo /\ (~doubtful => r \notin failed)
        BY <3>3
      <4> QED BY <1>0, <2>4, <3>1, <3>2, <3>3, <4>1, <4>2
    <3>4. CASE ~(u = remind[i].tier /\ r \in out)
      <4>1. mails'[u][r] = mails[u][r] /\ mails[u][r] \in Nat
        BY <1>0, <2>4, <3>4
      <4> QED BY <1>0, <2>4, <3>1, <3>2, <4>1
    <3> QED BY <3>3, <3>4
  <2>8. /\ UNCHANGED finds /\ doubts' >= doubts /\ marked \subseteq marked'
        /\ g.pc # "idle" => remind[i].pc # "idle" /\ g.tier = remind[i].tier
        /\ g.pc # "idle"
    BY <1>0, <2>0, <2>2, <2>4
  <2> QED BY <2>2, <2>5, <2>6, <2>7, <2>8, PassGoesOn
<1>5. ASSUME NEW i \in Notifiers, CreateInAppNotifications(i) PROVE RemindersInv'
  <2> DEFINE g == [remind[i] EXCEPT !.pc = "mark"]
  <2>1. /\ remind[i].pc = "notices" /\ remind[i] \in Passes
        /\ noted' \in {noted, [noted EXCEPT ![remind[i].tier] = @ + 1]}
        /\ UNCHANGED <<marked, mails, finds, doubts>> /\ remind' = [remind EXCEPT ![i] = g]
    BY <1>0, <1>5 DEF CreateInAppNotifications
  <2>2. g \in Passes /\ g.pc = "mark" /\ g.tier = remind[i].tier
    BY <2>1
  <2> HIDE DEF g
  <2>3. \A j \in Notifiers : remind'[j] = IF j = i THEN g ELSE remind[j]
    BY <1>0, <2>1
  <2>4. RemindersTyped'
    BY <1>0, <2>1, <2>2 DEF RemindersTyped
  <2>5. ASSUME NEW u \in ReminderTypes
        PROVE  noted'[u] + (IF i \in Unnoted(u)' THEN 1 ELSE 0) <= noted[u] + (IF i \in Unnoted(u) THEN 1 ELSE 0)
    <3>1. /\ i \notin Unnoted(u)' /\ (i \in Unnoted(u) <=> u = remind[i].tier)
          /\ noted[u] \in Nat /\ noted'[u] \in Nat /\ noted'[u] <= noted[u] + (IF u = remind[i].tier THEN 1 ELSE 0)
      BY <1>0, <2>1, <2>2, <2>3 DEF Unnoted
    <3> QED BY <3>1
  <2>6. ASSUME NEW r \in Recipients, NEW u \in ReminderTypes
        PROVE  mails'[u][r] + (IF i \in Mailing1(r, u)' THEN 1 ELSE 0) + doubts
                 <= mails[u][r] + (IF i \in Mailing1(r, u) THEN 1 ELSE 0) + doubts'
    <3>1. i \notin Mailing1(r, u)' /\ i \notin Mailing1(r, u)
      BY <2>1, <2>2, <2>3 DEF Mailing1
    <3> QED BY <1>0, <2>1, <3>1
  <2>7. /\ UNCHANGED finds /\ doubts' >= doubts /\ marked \subseteq marked'
        /\ g.pc # "idle" => remind[i].pc # "idle" /\ g.tier = remind[i].tier
        /\ g.pc # "idle"
    BY <1>0, <2>1, <2>2
  <2> QED BY <2>1, <2>4, <2>5, <2>6, <2>7, PassGoesOn
<1>6. ASSUME NEW i \in Notifiers, MarkReminderSent(i) \/ NotifierCrashes(i) PROVE RemindersInv'
  <2>1. /\ remind' = [remind EXCEPT ![i] = Resting] /\ UNCHANGED <<mails, finds, noted>>
        /\ marked \subseteq marked' /\ doubts' \in {doubts, doubts + 1}
        /\ \/ doubts' = doubts + 1
           \/ remind[i].tier \in marked'
    BY <1>0, <1>6 DEF MarkReminderSent, NotifierCrashes
  <2>2. \A j \in Notifiers : remind'[j] = IF j = i THEN Resting ELSE remind[j]
    BY <1>0, <2>1
  <2>3. RemindersTyped'
    BY <1>0, <2>1 DEF RemindersTyped
  <2>4. ASSUME NEW u \in ReminderTypes
        PROVE  noted'[u] + (IF i \in Unnoted(u)' THEN 1 ELSE 0) <= noted[u] + (IF i \in Unnoted(u) THEN 1 ELSE 0)
    <3>1. i \notin Unnoted(u)'
      BY <1>0, <2>2 DEF Unnoted
    <3> QED BY <1>0, <2>1, <3>1
  <2>5. ASSUME NEW r \in Recipients, NEW u \in ReminderTypes
        PROVE  mails'[u][r] + (IF i \in Mailing1(r, u)' THEN 1 ELSE 0) + doubts
                 <= mails[u][r] + (IF i \in Mailing1(r, u) THEN 1 ELSE 0) + doubts'
    <3>1. i \notin Mailing1(r, u)' /\ mails[u][r] \in Nat
      BY <1>0, <2>2 DEF Mailing1
    <3> QED BY <1>0, <2>1, <3>1
  <2>6. /\ doubts' >= doubts /\ Resting.pc = "idle"
        /\ remind[i].tier \notin marked' => doubts' >= doubts + 1
    BY <1>0, <2>1
  <2> QED BY <2>1, <2>3, <2>4, <2>5, <2>6, PassGoesOn
<1>7. CASE WindowOpens \/ ContestMoves \/ (\E r \in Recipients : SetPreference(r)) \/ UNCHANGED reminderVars
  BY <1>1, <1>7 DEF WindowOpens, ContestMoves, SetPreference, reminderVars
<1> QED BY <1>2, <1>3, <1>4, <1>5, <1>6, <1>7 DEF ReminderNext

\* The bounds follow: what is still to be sent or written only adds to them.
LEMMA RemindersFollow == RemindersInv => RemindersBounded
<1> SUFFICES ASSUME RemindersInv, NEW r \in Recipients, NEW t \in ReminderTypes
             PROVE  /\ mails[t][r] <= finds[t] + doubts /\ noted[t] <= finds[t]
                    /\ finds[t] <= Cardinality(Notifiers) + doubts
  BY DEF RemindersBounded
<1>1. Mailing1(r, t) \in SUBSET Notifiers /\ Unnoted(t) \in SUBSET Notifiers
  BY DEF Mailing1, Unnoted
<1>2. Cardinality(Mailing1(r, t)) \in Nat /\ Cardinality(Unnoted(t)) \in Nat
  BY <1>1, PassesCounted
<1>3. mails[t][r] \in Nat /\ finds[t] \in Nat /\ noted[t] \in Nat /\ doubts \in Nat
  BY DEF RemindersInv, RemindersTyped
<1>4. /\ mails[t][r] + Cardinality(Mailing1(r, t)) <= finds[t] + doubts
      /\ noted[t] + Cardinality(Unnoted(t)) <= finds[t] /\ finds[t] <= Cardinality(Notifiers) + doubts
  BY DEF RemindersInv
<1> QED BY <1>2, <1>3, <1>4

-----------------------------------------------------------------------------
(* The circuit breaker. *)

CallStates == {"idle", "allow", "run", "success", "failure", "close", "clear", "trip"}
SeenStates == {"none", "closed", "open", "half"}

\* A call whose answer the half-open circuit still waits for.
AwaitedCall(k) ==
  \/ k.pc \in {"run", "close", "trip"}
  \/ k.pc \in {"success", "failure"} /\ k.seen = "half"

Awaited == {c \in Callers : AwaitedCall(calling[c])}

\* What the half-open counters may show: every slot that was taken is still
\* awaited, succeeded or was lost to a panic, and the last success needed is
\* followed by a close.
CountersExplained ==
  circuit.state = "half" =>
    /\ circuit.successes <= preset.successes
    /\ circuit.successes = preset.successes => \E c \in Callers : calling[c].pc = "close"
    /\ \/ circuit.calls <= circuit.successes + Cardinality(Awaited) + lostCalls
       \/ preset.calls <= circuit.successes + Cardinality(Awaited) + lostCalls

BreakerTyped ==
  /\ preset \in Circuits
  /\ circuit = [state |-> circuit.state, elapsed |-> circuit.elapsed, failures |-> circuit.failures,
                calls |-> circuit.calls, successes |-> circuit.successes]
  /\ circuit.state \in {"closed", "open", "half"}
  /\ circuit.calls \in Nat /\ circuit.successes \in Nat
  /\ calling \in [Callers -> [pc : CallStates, seen : SeenStates]]
  /\ lostCalls \in Nat

BreakerInv == BreakerTyped /\ CountersExplained

\* Every breaker a service makes needs a success to close, and lets through
\* as many test calls as it needs.
LEMMA CircuitsTestable ==
  \A s \in Circuits : /\ s.calls \in Nat /\ s.successes \in Nat
                      /\ 1 <= s.successes /\ s.successes <= s.calls
<1> DEFINE Good(s) == /\ s.calls \in Nat /\ s.successes \in Nat
                      /\ 1 <= s.successes /\ s.successes <= s.calls
<1>1. /\ Good(DatabasePreset) /\ Good(ReplicaPreset) /\ Good(RedisPreset) /\ Good(KafkaPreset)
      /\ Good(KafkaConsumerPreset) /\ Good(ExternalAPIPreset) /\ Good(ShardRouterPreset)
      /\ Good(LenientPreset) /\ Good(DefaultSetting) /\ Good(Setting(3, 2))
      /\ Good([ExternalAPIPreset EXCEPT !.calls = 2])
  BY DEF DatabasePreset, ReplicaPreset, RedisPreset, KafkaPreset, KafkaConsumerPreset,
         ExternalAPIPreset, ShardRouterPreset, LenientPreset, DefaultSetting, Setting
<1> HIDE DEF Good
<1>2. \A d \in DOMAIN UserCircuits : Good(UserCircuits[d])
  BY <1>1 DEF UserCircuits
<1>3. \A d \in DOMAIN AdminCircuits : Good(AdminCircuits[d])
  BY <1>1 DEF AdminCircuits
<1>4. \A d \in DOMAIN LeaderboardCircuits : Good(LeaderboardCircuits[d])
  BY <1>1 DEF LeaderboardCircuits
<1>5. \A d \in DOMAIN GatewayCircuits : Good(GatewayCircuits[d])
  BY <1>1 DEF GatewayCircuits
<1>6. \A d \in DOMAIN RouterCircuits : Good(RouterCircuits[d])
  BY <1>1 DEF RouterCircuits
<1>7. \A d \in DOMAIN EngineCircuits : Good(EngineCircuits[d])
  BY <1>1 DEF EngineCircuits
<1>8. \A d \in DOMAIN PaymentCircuits : Good(PaymentCircuits[d])
  BY <1>1 DEF PaymentCircuits
<1>9. \A s \in Circuits : Good(s)
  BY <1>2, <1>3, <1>4, <1>5, <1>6, <1>7, <1>8 DEF Circuits
<1> QED BY <1>9 DEF Good

\* At first the circuit is closed.
LEMMA BreakerStart == BreakerInit => BreakerInv
<1> SUFFICES ASSUME BreakerInit PROVE BreakerInv
  OBVIOUS
<1>1. circuit = [state |-> "closed", elapsed |-> FALSE, failures |-> 0, calls |-> 0, successes |-> 0]
  BY DEF BreakerInit, Shut
<1>2. calling \in [Callers -> [pc : CallStates, seen : SeenStates]]
  BY DEF BreakerInit, NoCall, CallStates, SeenStates
<1> QED BY <1>1, <1>2 DEF BreakerInit, BreakerInv, BreakerTyped, CountersExplained

\* How the awaited calls change when one caller goes on.
LEMMA CallerGoesOn ==
  ASSUME BreakerTyped, NEW c \in Callers, NEW k \in [pc : CallStates, seen : SeenStates],
         calling' = [calling EXCEPT ![c] = k]
  PROVE  /\ calling' \in [Callers -> [pc : CallStates, seen : SeenStates]]
         /\ calling'[c] = k /\ \A d \in Callers : d # c => calling'[d] = calling[d]
         /\ Cardinality(Awaited) \in Nat /\ Cardinality(Awaited') \in Nat
         /\ Cardinality(Awaited') >= Cardinality(Awaited) - 1
         /\ AwaitedCall(k) \/ ~AwaitedCall(calling[c])
              => Cardinality(Awaited') >= Cardinality(Awaited)
         /\ AwaitedCall(k) /\ ~AwaitedCall(calling[c])
              => Cardinality(Awaited') >= Cardinality(Awaited) + 1
<1>1. /\ calling' \in [Callers -> [pc : CallStates, seen : SeenStates]]
      /\ calling'[c] = k /\ \A d \in Callers : d # c => calling'[d] = calling[d]
  BY DEF BreakerTyped
<1>2. \A d \in Callers : /\ d \in Awaited <=> AwaitedCall(calling[d])
                         /\ d \in Awaited' <=> AwaitedCall(calling'[d])
  BY DEF Awaited
<1>3. Awaited \subseteq Callers /\ Awaited' \subseteq Callers
  BY DEF Awaited
<1> DEFINE S == Awaited
           T == Awaited'
           B == AwaitedCall(k)
           A == AwaitedCall(calling[c])
<1>4. (c \in S <=> A) /\ (c \in T <=> B) /\ \A d \in Callers : d # c => (d \in T <=> d \in S)
  BY <1>1, <1>2
<1>5. S \subseteq Callers /\ T \subseteq Callers
  BY <1>3
<1> HIDE DEF S, T, A, B
<1>6. /\ Cardinality(S) \in Nat /\ Cardinality(T) \in Nat
      /\ Cardinality(T) >= Cardinality(S) - 1
      /\ (B \/ ~A) => Cardinality(T) >= Cardinality(S)
      /\ (B /\ ~A) => Cardinality(T) >= Cardinality(S) + 1
  <2>1. IsFiniteSet(S) /\ IsFiniteSet(T) /\ IsFiniteSet(S \ {c}) /\ c \in Callers
    BY <1>5, FS_Subset, ResilienceAssumption
  <2>2. Cardinality(S) \in Nat /\ Cardinality(T) \in Nat /\ Cardinality(S \ {c}) \in Nat
    BY <2>1, FS_CardinalityType
  <2>3. CASE A /\ B
    BY <1>4, <1>5, <2>2, <2>3
  <2>4. CASE ~A /\ ~B
    <3>1. S = T
      BY <1>4, <1>5, <2>4
    <3> QED BY <2>2, <2>4, <3>1
  <2>5. CASE A /\ ~B
    <3>1. T = S \ {c} /\ c \in S
      BY <1>4, <1>5, <2>5
    <3>2. Cardinality(S \ {c}) = Cardinality(S) - 1
      BY <2>1, <3>1, FS_RemoveElement
    <3> QED BY <2>2, <2>5, <3>1, <3>2
  <2>6. CASE ~A /\ B
    <3>1. T = S \cup {c} /\ c \notin S
      BY <1>4, <1>5, <2>6
    <3>2. Cardinality(S \cup {c}) = Cardinality(S) + 1
      BY <2>1, <3>1, FS_AddElement
    <3> QED BY <2>2, <2>6, <3>1, <3>2
  <2> QED BY <2>3, <2>4, <2>5, <2>6
<1> QED BY <1>1, <1>6 DEF S, T, A, B

\* The same, for a caller that only changes its step.
LEMMA CallGoesOn ==
  ASSUME BreakerTyped, NEW c \in Callers, NEW pc \in CallStates, CallGoes(c, pc)
  PROVE  \E k \in [pc : CallStates, seen : SeenStates] :
           /\ calling' = [calling EXCEPT ![c] = k] /\ k.pc = pc
           /\ pc # "idle" => k.seen = calling[c].seen
<1>1. calling[c] \in [pc : CallStates, seen : SeenStates]
  BY DEF BreakerTyped
<1>2. CASE pc = "idle"
  <2>1. NoCall \in [pc : CallStates, seen : SeenStates] /\ NoCall.pc = "idle"
    BY DEF NoCall, CallStates, SeenStates
  <2>2. calling' = [calling EXCEPT ![c] = NoCall]
    BY <1>2 DEF CallGoes
  <2> QED BY <1>2, <2>1, <2>2
<1>3. CASE pc # "idle"
  <2> DEFINE k == [pc |-> pc, seen |-> calling[c].seen]
  <2>1. [calling[c] EXCEPT !.pc = pc] = k
    BY <1>1
  <2>2. k \in [pc : CallStates, seen : SeenStates] /\ k.pc = pc /\ k.seen = calling[c].seen
    BY <1>1
  <2>3. calling' = [calling EXCEPT ![c] = k]
    <3>1. calling' = [calling EXCEPT ![c] = [calling[c] EXCEPT !.pc = pc]]
      BY <1>3 DEF CallGoes
    <3> QED BY <2>1, <3>1
  <2> HIDE DEF k
  <2> QED BY <2>2, <2>3
<1> QED BY <1>2, <1>3

\* A step that leaves the half-open counters alone and does not forget an
\* awaited call, or forgets one that it counts as lost, explains them as before.
LEMMA CountersKept ==
  ASSUME BreakerInv, preset' = preset, lostCalls' \in Nat, NEW e, NEW f,
         circuit' = [state |-> circuit.state, elapsed |-> e, failures |-> f,
                     calls |-> circuit.calls, successes |-> circuit.successes],
         NEW c \in Callers, NEW k \in [pc : CallStates, seen : SeenStates],
         calling' = [calling EXCEPT ![c] = k], calling[c].pc # "close",
         \/ lostCalls' = lostCalls
            /\ (circuit.state = "half" => AwaitedCall(k) \/ ~AwaitedCall(calling[c]))
         \/ lostCalls' = lostCalls + 1
  PROVE  BreakerInv'
<1> USE DEF BreakerInv
<1>1. /\ calling' \in [Callers -> [pc : CallStates, seen : SeenStates]]
      /\ calling'[c] = k /\ \A d \in Callers : d # c => calling'[d] = calling[d]
      /\ Cardinality(Awaited) \in Nat /\ Cardinality(Awaited') \in Nat
      /\ Cardinality(Awaited') >= Cardinality(Awaited) - 1
      /\ AwaitedCall(k) \/ ~AwaitedCall(calling[c])
           => Cardinality(Awaited') >= Cardinality(Awaited)
  BY CallerGoesOn
<1>2. BreakerTyped'
  BY <1>1 DEF BreakerTyped
<1>3. preset.calls \in Nat /\ circuit.calls \in Nat /\ circuit.successes \in Nat /\ lostCalls \in Nat
  BY CircuitsTestable DEF BreakerTyped
<1>4. \A d \in Callers : calling[d].pc = "close" => calling'[d].pc = "close"
  BY <1>1
<1>5. circuit.state = "half" =>
        Cardinality(Awaited) + lostCalls <= Cardinality(Awaited') + lostCalls'
  BY <1>1, <1>3
<1>6. CountersExplained'
  <2> DEFINE m == Cardinality(Awaited) + lostCalls
             n == Cardinality(Awaited') + lostCalls'
  <2>1. m \in Nat /\ n \in Nat /\ (circuit.state = "half" => m <= n)
    BY <1>1, <1>3, <1>5
  <2>2. circuit.state = "half" => \/ circuit.calls <= circuit.successes + m
                                  \/ preset.calls <= circuit.successes + m
    BY <1>1, <1>3 DEF CountersExplained
  <2> HIDE DEF m, n
  <2>3. circuit.state = "half" => \/ circuit.calls <= circuit.successes + n
                                  \/ preset.calls <= circuit.successes + n
    BY <1>3, <2>1, <2>2
  <2>4. circuit.state = "half" => \/ circuit.calls <= circuit.successes + Cardinality(Awaited') + lostCalls'
                                  \/ preset.calls <= circuit.successes + Cardinality(Awaited') + lostCalls'
    BY <1>1, <1>3, <2>3 DEF n
  <2> QED BY <1>4, <2>4 DEF CountersExplained
<1> QED BY <1>2, <1>6

\* A circuit that is not half-open, or becomes so, has nothing to explain.
LEMMA CountersFresh ==
  ASSUME BreakerTyped, preset' = preset, lostCalls' = lostCalls,
         calling' \in [Callers -> [pc : CallStates, seen : SeenStates]],
         NEW s \in {"closed", "open", "half"}, NEW e, NEW f, NEW n \in Nat, NEW m \in Nat,
         circuit' = [state |-> s, elapsed |-> e, failures |-> f, calls |-> n, successes |-> m],
         s = "half" => m = 0 /\ Cardinality(Awaited') \in Nat /\ n <= Cardinality(Awaited')
  PROVE  BreakerInv'
<1>1. BreakerTyped'
  BY DEF BreakerTyped
<1>2. CountersExplained'
  <2>1. lostCalls \in Nat /\ 1 <= preset.successes /\ preset.successes \in Nat
    BY CircuitsTestable DEF BreakerTyped
  <2> QED BY <2>1 DEF CountersExplained
<1> QED BY <1>1, <1>2 DEF BreakerInv

\* A caller takes one of the half-open slots, or is rejected.
LEMMA SlotTaken ==
  ASSUME BreakerInv, NEW c \in Callers, calling[c].pc = "allow", TakeSlot(c),
         UNCHANGED <<preset, lostCalls>>
  PROVE  BreakerInv'
<1> USE DEF BreakerInv
<1>1. /\ preset.calls \in Nat /\ circuit.calls \in Nat /\ circuit.successes \in Nat /\ lostCalls \in Nat
      /\ circuit = [state |-> circuit.state, elapsed |-> circuit.elapsed, failures |-> circuit.failures,
                    calls |-> circuit.calls, successes |-> circuit.successes]
      /\ ~AwaitedCall(calling[c])
  BY CircuitsTestable DEF BreakerTyped, AwaitedCall
<1> DEFINE n == IF circuit.calls > preset.calls THEN circuit.calls ELSE circuit.calls + 1
<1>2. circuit' = [state |-> circuit.state, elapsed |-> circuit.elapsed, failures |-> circuit.failures,
                  calls |-> n, successes |-> circuit.successes]
  <2>1. circuit' = [circuit EXCEPT !.calls = n]
    BY DEF TakeSlot, AddCall
  <2> HIDE DEF n
  <2> QED BY <1>1, <2>1
<1>3. n \in Nat /\ (n <= circuit.calls + 1) /\ (circuit.calls >= preset.calls => n >= preset.calls)
  BY <1>1
<1> HIDE DEF n
<1>4. PICK pc \in {"run", "idle"} :
        /\ CallGoes(c, pc)
        /\ circuit.calls < preset.calls => pc = "run"
  <2>1. CASE circuit.calls < preset.calls
    BY <2>1 DEF TakeSlot
  <2>2. CASE ~(circuit.calls < preset.calls)
    BY <2>2 DEF TakeSlot
  <2> QED BY <2>1, <2>2
<1>5. PICK k \in [pc : CallStates, seen : SeenStates] :
        calling' = [calling EXCEPT ![c] = k] /\ k.pc = pc
  <2>1. pc \in CallStates
    BY DEF CallStates
  <2>2. BreakerTyped /\ CallGoes(c, pc)
    BY <1>4
  <2>3. \E k \in [pc : CallStates, seen : SeenStates] :
           /\ calling' = [calling EXCEPT ![c] = k] /\ k.pc = pc
           /\ pc # "idle" => k.seen = calling[c].seen
    BY <2>1, <2>2, CallGoesOn
  <2> QED BY <2>3
<1>6. /\ calling' \in [Callers -> [pc : CallStates, seen : SeenStates]]
      /\ calling'[c] = k /\ \A d \in Callers : d # c => calling'[d] = calling[d]
      /\ Cardinality(Awaited) \in Nat /\ Cardinality(Awaited') \in Nat
      /\ Cardinality(Awaited') >= Cardinality(Awaited)
      /\ AwaitedCall(k) => Cardinality(Awaited') >= Cardinality(Awaited) + 1
  BY <1>1, <1>5, CallerGoesOn
<1>7. BreakerTyped'
  BY <1>2, <1>3, <1>6 DEF BreakerTyped
<1>8. CountersExplained'
  <2>1. \A d \in Callers : calling[d].pc = "close" => calling'[d].pc = "close"
    BY <1>6
  <2>2. circuit.calls < preset.calls => Cardinality(Awaited') >= Cardinality(Awaited) + 1
    <3>1. circuit.calls < preset.calls => AwaitedCall(k)
      BY <1>4, <1>5 DEF AwaitedCall
    <3> QED BY <1>6, <3>1
  <2>3. circuit.state = "half" =>
           \/ n <= circuit.successes + Cardinality(Awaited') + lostCalls
           \/ preset.calls <= circuit.successes + Cardinality(Awaited') + lostCalls
    BY <1>1, <1>3, <1>6, <2>2 DEF CountersExplained
  <2> QED BY <1>2, <2>1, <2>3 DEF CountersExplained
<1> QED BY <1>7, <1>8

\* The same, when the circuit does not change at all.
LEMMA CallersMove ==
  ASSUME BreakerInv, UNCHANGED <<preset, circuit>>, lostCalls' \in Nat,
         NEW c \in Callers, NEW k \in [pc : CallStates, seen : SeenStates],
         calling' = [calling EXCEPT ![c] = k], calling[c].pc # "close",
         \/ lostCalls' = lostCalls
            /\ (circuit.state = "half" => AwaitedCall(k) \/ ~AwaitedCall(calling[c]))
         \/ lostCalls' = lostCalls + 1
  PROVE  BreakerInv'
<1>1. circuit' = [state |-> circuit.state, elapsed |-> circuit.elapsed, failures |-> circuit.failures,
                  calls |-> circuit.calls, successes |-> circuit.successes]
  BY DEF BreakerInv, BreakerTyped
<1> QED BY <1>1, CountersKept

\* A caller reads the state of the circuit.
LEMMA StateRead ==
  ASSUME BreakerInv, UNCHANGED <<preset, circuit, lostCalls>>, NEW c \in Callers,
         NEW pc \in CallStates, calling[c].pc # "close",
         circuit.state = "half" /\ AwaitedCall(calling[c]) => pc \in {"run", "success", "failure"},
         calling' = [calling EXCEPT ![c] = [pc |-> pc, seen |-> circuit.state]]
  PROVE  BreakerInv'
<1> DEFINE k == [pc |-> pc, seen |-> circuit.state]
<1>1. k \in [pc : CallStates, seen : SeenStates] /\ k.pc = pc /\ k.seen = circuit.state
  BY DEF BreakerInv, BreakerTyped, SeenStates
<1>2. calling' = [calling EXCEPT ![c] = k] /\ lostCalls' = lostCalls /\ lostCalls' \in Nat
  BY DEF BreakerInv, BreakerTyped
<1> HIDE DEF k
<1>3. circuit.state = "half" => AwaitedCall(k) \/ ~AwaitedCall(calling[c])
  BY <1>1 DEF AwaitedCall
<1> QED BY <1>1, <1>2, <1>3, CallersMove

\* A caller whose answer nobody awaits goes on beside an unchanged circuit.
LEMMA Bystander ==
  ASSUME BreakerInv, UNCHANGED <<preset, lostCalls>>, NEW c \in Callers,
         NEW pc \in CallStates, CallGoes(c, pc), calling[c].pc # "close", NEW e, NEW f,
         circuit' = [state |-> circuit.state, elapsed |-> e, failures |-> f,
                     calls |-> circuit.calls, successes |-> circuit.successes],
         ~AwaitedCall(calling[c]) \/ pc \in {"run", "close", "trip"}
  PROVE  BreakerInv'
<1>1. BreakerTyped /\ lostCalls' = lostCalls /\ lostCalls' \in Nat /\ preset' = preset
  BY DEF BreakerInv, BreakerTyped
<1>2. PICK k \in [pc : CallStates, seen : SeenStates] :
        calling' = [calling EXCEPT ![c] = k] /\ k.pc = pc
  <2>1. \E k \in [pc : CallStates, seen : SeenStates] :
           /\ calling' = [calling EXCEPT ![c] = k] /\ k.pc = pc
           /\ pc # "idle" => k.seen = calling[c].seen
    BY <1>1, CallGoesOn
  <2> QED BY <2>1
<1>3. AwaitedCall(k) \/ ~AwaitedCall(calling[c])
  BY <1>2 DEF AwaitedCall
<1> QED BY <1>1, <1>2, <1>3, CountersKept

\* A call succeeded for a caller that saw the circuit half-open.
LEMMA SuccessCounted ==
  ASSUME BreakerInv, NEW c \in Callers, calling[c].pc = "success", calling[c].seen = "half",
         circuit' = [circuit EXCEPT !.successes = IF @ < preset.successes THEN @ + 1 ELSE @],
         CallGoes(c, IF circuit.successes + 1 >= preset.successes THEN "close" ELSE "idle"),
         UNCHANGED <<preset, lostCalls>>
  PROVE  BreakerInv'
<1> USE DEF BreakerInv
<1>1. /\ preset.calls \in Nat /\ preset.successes \in Nat /\ circuit.calls \in Nat
      /\ circuit.successes \in Nat /\ lostCalls \in Nat
      /\ circuit = [state |-> circuit.state, elapsed |-> circuit.elapsed, failures |-> circuit.failures,
                    calls |-> circuit.calls, successes |-> circuit.successes]
  BY CircuitsTestable DEF BreakerTyped
<1> DEFINE m == IF circuit.successes < preset.successes THEN circuit.successes + 1 ELSE circuit.successes
           last == circuit.successes + 1 >= preset.successes
           pc == IF last THEN "close" ELSE "idle"
<1>2. circuit' = [state |-> circuit.state, elapsed |-> circuit.elapsed, failures |-> circuit.failures,
                  calls |-> circuit.calls, successes |-> m]
  <2>1. circuit' = [circuit EXCEPT !.successes = m]
    OBVIOUS
  <2> HIDE DEF m
  <2> QED BY <1>1, <2>1
<1>3. pc \in CallStates /\ CallGoes(c, pc) /\ (last => pc = "close") /\ BreakerTyped
  BY DEF CallStates
<1>4. /\ m \in Nat /\ (~last => m = circuit.successes + 1 /\ m < preset.successes)
      /\ m >= circuit.successes /\ (circuit.successes <= preset.successes => m <= preset.successes)
  BY <1>1
<1> HIDE DEF m, pc, last
<1>5. PICK k \in [pc : CallStates, seen : SeenStates] :
        calling' = [calling EXCEPT ![c] = k] /\ k.pc = pc
  <2>1. \E k \in [pc : CallStates, seen : SeenStates] :
           /\ calling' = [calling EXCEPT ![c] = k] /\ k.pc = pc
           /\ pc # "idle" => k.seen = calling[c].seen
    BY <1>3, CallGoesOn
  <2> QED BY <2>1
<1>6. /\ calling' \in [Callers -> [pc : CallStates, seen : SeenStates]]
      /\ calling'[c] = k /\ \A d \in Callers : d # c => calling'[d] = calling[d]
      /\ Cardinality(Awaited) \in Nat /\ Cardinality(Awaited') \in Nat
      /\ Cardinality(Awaited') >= Cardinality(Awaited) - 1
      /\ AwaitedCall(k) => Cardinality(Awaited') >= Cardinality(Awaited)
  BY <1>5, CallerGoesOn
<1>7. BreakerTyped'
  BY <1>1, <1>2, <1>4, <1>6 DEF BreakerTyped
<1>8. CountersExplained'
  <2>1. \A d \in Callers : calling[d].pc = "close" => calling'[d].pc = "close"
    BY <1>6
  <2>2. last => calling'[c].pc = "close" /\ Cardinality(Awaited') >= Cardinality(Awaited)
    <3>1. last => AwaitedCall(k)
      BY <1>3, <1>5 DEF AwaitedCall
    <3> QED BY <1>3, <1>5, <1>6, <3>1
  <2>3. m + Cardinality(Awaited') + lostCalls >= circuit.successes + Cardinality(Awaited) + lostCalls
    BY <1>1, <1>4, <1>6, <2>2
  <2>4. circuit.state = "half" =>
           \/ circuit.calls <= m + Cardinality(Awaited') + lostCalls
           \/ preset.calls <= m + Cardinality(Awaited') + lostCalls
    BY <1>1, <1>4, <1>6, <2>3 DEF CountersExplained
  <2>5. m = preset.successes => \E d \in Callers : calling'[d].pc = "close"
    BY <1>1, <1>4, <2>2
  <2>6. circuit.state = "half" => m <= preset.successes
    BY <1>4 DEF CountersExplained
  <2> QED BY <1>2, <2>4, <2>5, <2>6 DEF CountersExplained
<1> QED BY <1>7, <1>8

\* A transition under mu.
LEMMA TransitionMade ==
  ASSUME NEW a, NEW b, NEW f, NEW n, NEW m, NEW s,
         NEW cb, cb = [state |-> a, elapsed |-> b, failures |-> f, calls |-> n, successes |-> m]
  PROVE  \E e : To(cb, s) = [state |-> s, elapsed |-> e, failures |-> f, calls |-> n, successes |-> m]
<1> DEFINE q == [state |-> s, elapsed |-> b, failures |-> f, calls |-> n, successes |-> m]
<1>1. CASE a = s
  BY <1>1 DEF To
<1>2. CASE a # s
  <2>1. [cb EXCEPT !.state = s] = q
    OBVIOUS
  <2>2. \A e : [q EXCEPT !.elapsed = e]
                 = [state |-> s, elapsed |-> e, failures |-> f, calls |-> n, successes |-> m]
    OBVIOUS
  <2>3. To(cb, s) = [[cb EXCEPT !.state = s] EXCEPT !.elapsed = FALSE]
    <3>1. To(cb, s) = [cb EXCEPT !.state = s, !.elapsed = FALSE]
      BY <1>2 DEF To
    <3>2. [cb EXCEPT !.state = s, !.elapsed = FALSE] = [[cb EXCEPT !.state = s] EXCEPT !.elapsed = FALSE]
      OBVIOUS
    <3> QED BY <3>1, <3>2
  <2> HIDE DEF q
  <2>4. To(cb, s) = [q EXCEPT !.elapsed = FALSE]
    BY <2>1, <2>3
  <2> QED BY <2>2, <2>4, Zenon
<1> QED BY <1>1, <1>2

\* A circuit that was open is tried.
LEMMA TestsOpen ==
  ASSUME NEW n, NEW cb, cb = [state |-> "open", elapsed |-> circuit.elapsed,
                              failures |-> circuit.failures, calls |-> n, successes |-> 0]
  PROVE  \E e : To(cb, "half") = [state |-> "half", elapsed |-> e, failures |-> circuit.failures,
                                  calls |-> n, successes |-> 0]
<1> DEFINE q == [state |-> "half", elapsed |-> circuit.elapsed, failures |-> circuit.failures,
                 calls |-> n, successes |-> 0]
<1>1. [cb EXCEPT !.state = "half"] = q
  OBVIOUS
<1>2. \A e : [q EXCEPT !.elapsed = e] = [state |-> "half", elapsed |-> e, failures |-> circuit.failures,
                                         calls |-> n, successes |-> 0]
  OBVIOUS
<1>3. To(cb, "half") = [[cb EXCEPT !.state = "half"] EXCEPT !.elapsed = FALSE]
  <2>1. cb.state # "half"
    OBVIOUS
  <2>2. To(cb, "half") = [cb EXCEPT !.state = "half", !.elapsed = FALSE]
    BY <2>1 DEF To
  <2>3. [cb EXCEPT !.state = "half", !.elapsed = FALSE]
          = [[cb EXCEPT !.state = "half"] EXCEPT !.elapsed = FALSE]
    OBVIOUS
  <2> QED BY <2>2, <2>3
<1> HIDE DEF q
<1>4. To(cb, "half") = [q EXCEPT !.elapsed = FALSE]
  BY <1>1, <1>3
<1> QED BY <1>2, <1>4, Zenon

\* A query finds the time over and opens the circuit for tests.
LEMMA QueryOpens ==
  ASSUME BreakerTyped, QueryState
  PROVE  \E e : circuit' = [state |-> "half", elapsed |-> e, failures |-> circuit.failures,
                            calls |-> 0, successes |-> 0]
<1> DEFINE cb == [state |-> circuit.state, elapsed |-> circuit.elapsed,
                  failures |-> circuit.failures, calls |-> 0, successes |-> 0]
           q == [state |-> circuit.state, elapsed |-> circuit.elapsed,
                 failures |-> circuit.failures, calls |-> 0, successes |-> circuit.successes]
<1>1. [circuit EXCEPT !.calls = 0] = q
  BY DEF BreakerTyped
<1>2. [q EXCEPT !.successes = 0] = cb
  OBVIOUS
<1>3. [circuit EXCEPT !.calls = 0, !.successes = 0]
        = [[circuit EXCEPT !.calls = 0] EXCEPT !.successes = 0]
  OBVIOUS
<1>4. circuit' = To(cb, "half")
  BY <1>1, <1>2, <1>3 DEF QueryState
<1>5. cb = [state |-> "open", elapsed |-> circuit.elapsed,
            failures |-> circuit.failures, calls |-> 0, successes |-> 0]
  BY DEF QueryState
<1> HIDE DEF cb, q
<1>6. \E e : To(cb, "half") = [state |-> "half", elapsed |-> e, failures |-> circuit.failures,
                               calls |-> 0, successes |-> 0]
  BY <1>5, TestsOpen, Zenon
<1> QED BY <1>4, <1>6

\* Every step of the breaker keeps the invariant.
LEMMA BreakerStep == BreakerInv /\ [BreakerNext]_breakerVars => BreakerInv'
<1> SUFFICES ASSUME BreakerInv, [BreakerNext]_breakerVars PROVE BreakerInv'
  OBVIOUS
<1>0. /\ BreakerTyped /\ lostCalls \in Nat
      /\ circuit = [state |-> circuit.state, elapsed |-> circuit.elapsed, failures |-> circuit.failures,
                    calls |-> circuit.calls, successes |-> circuit.successes]
      /\ circuit.calls \in Nat /\ circuit.successes \in Nat
      /\ calling \in [Callers -> [pc : CallStates, seen : SeenStates]]
      /\ {"idle", "allow", "run", "success", "failure", "close", "clear", "trip"} \subseteq CallStates
  BY DEF BreakerInv, BreakerTyped, CallStates
<1>1. ASSUME NEW c \in Callers, LoadState(c) PROVE BreakerInv'
  <2>1. calling[c].pc = "idle" /\ ~AwaitedCall(calling[c])
    BY <1>1 DEF LoadState, NoCall, AwaitedCall
  <2> QED BY <1>0, <1>1, <2>1, StateRead DEF LoadState
<1>2. ASSUME NEW c \in Callers, AllowRequest(c) PROVE BreakerInv'
  <2>1. /\ calling[c].pc = "allow" /\ calling[c].pc # "close" /\ ~AwaitedCall(calling[c])
        /\ UNCHANGED <<preset, lostCalls>>
    BY <1>2 DEF AllowRequest, AwaitedCall
  <2>2. CASE TakeSlot(c)
    BY <2>1, <2>2, SlotTaken
  <2>3. ASSUME NEW pc \in {"run", "idle"}, CallGoes(c, pc), UNCHANGED circuit PROVE BreakerInv'
    <3>1. circuit' = [state |-> circuit.state, elapsed |-> circuit.elapsed,
                      failures |-> circuit.failures, calls |-> circuit.calls,
                      successes |-> circuit.successes]
      BY <1>0, <2>3
    <3>2. pc \in CallStates
      BY <1>0
    <3> QED BY <2>1, <2>3, <3>1, <3>2, Bystander
  <2>4. CASE CallGoes(c, "run") /\ circuit' = To([circuit EXCEPT !.calls = 1, !.successes = 0], "half")
    <3> DEFINE cb == [state |-> circuit.state, elapsed |-> circuit.elapsed,
                      failures |-> circuit.failures, calls |-> 1, successes |-> 0]
    <3>1. [circuit EXCEPT !.calls = 1, !.successes = 0] = cb
      <4> DEFINE q == [state |-> circuit.state, elapsed |-> circuit.elapsed,
                        failures |-> circuit.failures, calls |-> 1, successes |-> circuit.successes]
      <4>1. [circuit EXCEPT !.calls = 1] = q
        BY <1>0
      <4>2. [q EXCEPT !.successes = 0] = cb
        OBVIOUS
      <4>3. [circuit EXCEPT !.calls = 1, !.successes = 0]
              = [[circuit EXCEPT !.calls = 1] EXCEPT !.successes = 0]
        OBVIOUS
      <4> QED BY <4>1, <4>2, <4>3
    <3>2. PICK e : circuit' = [state |-> "half", elapsed |-> e, failures |-> circuit.failures,
                               calls |-> 1, successes |-> 0]
      <4>1. \E e : To(cb, "half") = [state |-> "half", elapsed |-> e, failures |-> circuit.failures,
                                     calls |-> 1, successes |-> 0]
        <5>1. cb = [state |-> circuit.state, elapsed |-> circuit.elapsed,
                    failures |-> circuit.failures, calls |-> 1, successes |-> 0]
          OBVIOUS
        <5> HIDE DEF cb
        <5> QED BY <5>1, TransitionMade, SMTT(60)
      <4> QED BY <2>4, <3>1, <4>1
    <3>3. PICK k \in [pc : CallStates, seen : SeenStates] :
            calling' = [calling EXCEPT ![c] = k] /\ k.pc = "run"
      <4>1. \E k \in [pc : CallStates, seen : SeenStates] :
              /\ calling' = [calling EXCEPT ![c] = k] /\ k.pc = "run"
              /\ "run" # "idle" => k.seen = calling[c].seen
        BY <1>0, <2>4, CallGoesOn
      <4> QED BY <4>1
    <3>4. AwaitedCall(k) /\ ~AwaitedCall(calling[c])
      BY <2>1, <3>3 DEF AwaitedCall
    <3>5. /\ calling' \in [Callers -> [pc : CallStates, seen : SeenStates]]
          /\ Cardinality(Awaited) \in Nat /\ Cardinality(Awaited') \in Nat
          /\ Cardinality(Awaited') >= Cardinality(Awaited) + 1
      BY <1>0, <3>3, <3>4, CallerGoesOn
    <3>6. 1 <= Cardinality(Awaited') /\ "half" \in {"closed", "open", "half"} /\ 1 \in Nat /\ 0 \in Nat
      BY <3>5
    <3> HIDE DEF cb
    <3> QED BY <1>0, <2>1, <3>2, <3>5, <3>6, CountersFresh
  <2> QED BY <1>2, <2>2, <2>3, <2>4 DEF AllowRequest
<1>3. ASSUME NEW c \in Callers, CallPanics(c) PROVE BreakerInv'
  <2>1. calling[c].pc # "close" /\ lostCalls' = lostCalls + 1 /\ CallGoes(c, "idle")
        /\ UNCHANGED <<preset, circuit>>
    BY <1>3 DEF CallPanics
  <2>2. PICK k \in [pc : CallStates, seen : SeenStates] : calling' = [calling EXCEPT ![c] = k]
    <3>1. \E k \in [pc : CallStates, seen : SeenStates] :
            /\ calling' = [calling EXCEPT ![c] = k] /\ k.pc = "idle"
            /\ "idle" # "idle" => k.seen = calling[c].seen
      BY <1>0, <2>1, CallGoesOn
    <3> QED BY <3>1
  <2>3. lostCalls' \in Nat
    BY <1>0, <2>1
  <2> QED BY <2>1, <2>2, <2>3, CallersMove
<1>4. ASSUME NEW c \in Callers, NEW o \in {"success", "failure"}, CallReturns(c, o) PROVE BreakerInv'
  <2>1. calling[c].pc # "close" /\ o \in CallStates /\ o \in {"run", "success", "failure"}
    BY <1>0, <1>4 DEF CallReturns
  <2> QED BY <1>4, <2>1, StateRead DEF CallReturns
<1>5. ASSUME NEW c \in Callers, RecordSuccess(c) PROVE BreakerInv'
  <2>1. calling[c].pc = "success" /\ UNCHANGED <<preset, lostCalls>> /\ calling[c].pc # "close"
    BY <1>5 DEF RecordSuccess
  <2>2. CASE calling[c].seen # "half"
    <3>1. CallGoes(c, "idle") /\ ~AwaitedCall(calling[c])
      BY <1>5, <2>1, <2>2 DEF RecordSuccess, AwaitedCall
    <3>2. circuit' = [state |-> circuit.state, elapsed |-> circuit.elapsed,
                      failures |-> circuit.failures, calls |-> circuit.calls,
                      successes |-> circuit.successes]
      BY <1>0, <1>5, <2>2 DEF RecordSuccess
    <3> QED BY <1>0, <2>1, <3>1, <3>2, Bystander
  <2>3. CASE calling[c].seen = "half"
    BY <1>5, <2>1, <2>3, SuccessCounted DEF RecordSuccess
  <2> QED BY <2>2, <2>3
<1>6. ASSUME NEW s \in {"closed", "open"}, circuit' = To(circuit, s),
             calling' \in [Callers -> [pc : CallStates, seen : SeenStates]],
             UNCHANGED <<preset, lostCalls>>
      PROVE  BreakerInv'
  <2>1. \E e : To(circuit, s) = [state |-> s, elapsed |-> e, failures |-> circuit.failures,
                                 calls |-> circuit.calls, successes |-> circuit.successes]
    BY <1>0, TransitionMade
  <2>2. PICK e : circuit' = [state |-> s, elapsed |-> e, failures |-> circuit.failures,
                             calls |-> circuit.calls, successes |-> circuit.successes]
    BY <1>6, <2>1
  <2>3. s \in {"closed", "open", "half"} /\ s # "half"
    OBVIOUS
  <2> QED BY <1>0, <1>6, <2>2, <2>3, CountersFresh
<1>7. ASSUME NEW c \in Callers, NEW pc \in CallStates, CallGoes(c, pc)
      PROVE  calling' \in [Callers -> [pc : CallStates, seen : SeenStates]]
  <2>1. \E k \in [pc : CallStates, seen : SeenStates] :
          /\ calling' = [calling EXCEPT ![c] = k] /\ k.pc = pc
          /\ pc # "idle" => k.seen = calling[c].seen
    BY <1>0, <1>7, CallGoesOn
  <2> QED BY <1>0, <2>1
<1>8. ASSUME NEW c \in Callers, CloseCircuit(c) \/ TripCircuit(c) PROVE BreakerInv'
  <2>1. PICK pc \in CallStates : CallGoes(c, pc)
    BY <1>0, <1>8 DEF CloseCircuit, TripCircuit
  <2>2. calling' \in [Callers -> [pc : CallStates, seen : SeenStates]]
    BY <1>7, <2>1
  <2> QED BY <1>6, <1>8, <2>2 DEF CloseCircuit, TripCircuit
<1>9. ASSUME NEW c \in Callers, ClearFailures(c) PROVE BreakerInv'
  <2>1. /\ calling[c].pc # "close" /\ ~AwaitedCall(calling[c]) /\ CallGoes(c, "idle")
        /\ UNCHANGED <<preset, lostCalls>>
    BY <1>9 DEF ClearFailures, AwaitedCall
  <2>2. circuit' = [state |-> circuit.state, elapsed |-> circuit.elapsed, failures |-> 0,
                    calls |-> circuit.calls, successes |-> circuit.successes]
    BY <1>0, <1>9 DEF ClearFailures
  <2> QED BY <1>0, <2>1, <2>2, Bystander
<1>10. ASSUME NEW c \in Callers, RecordCallFailure(c) PROVE BreakerInv'
  <2>1. /\ calling[c].pc = "failure" /\ calling[c].pc # "close"
        /\ UNCHANGED <<preset, lostCalls>>
    BY <1>10 DEF RecordCallFailure
  <2>2. \E f : \E pc \in {"trip", "idle"} :
          /\ circuit' = [state |-> circuit.state, elapsed |-> circuit.elapsed, failures |-> f,
                         calls |-> circuit.calls, successes |-> circuit.successes]
          /\ CallGoes(c, pc) /\ (calling[c].seen = "half" => pc = "trip")
    <3>1. CASE calling[c].seen = "closed"
      <4>1. PICK kept \in 0 .. circuit.failures :
              /\ circuit' = [circuit EXCEPT !.failures = IF kept < TripAfter THEN kept + 1 ELSE kept]
              /\ CallGoes(c, IF kept + 1 >= TripAfter THEN "trip" ELSE "idle")
        BY <1>10, <3>1 DEF RecordCallFailure
      <4> DEFINE f == IF kept < TripAfter THEN kept + 1 ELSE kept
                 pc == IF kept + 1 >= TripAfter THEN "trip" ELSE "idle"
      <4>2. pc \in {"trip", "idle"} /\ CallGoes(c, pc) /\ circuit' = [circuit EXCEPT !.failures = f]
        BY <4>1
      <4> HIDE DEF f, pc
      <4>3. circuit' = [state |-> circuit.state, elapsed |-> circuit.elapsed, failures |-> f,
                        calls |-> circuit.calls, successes |-> circuit.successes]
        BY <1>0, <4>2
      <4> QED BY <3>1, <4>2, <4>3
    <3>2. CASE calling[c].seen # "closed"
      <4>1. UNCHANGED circuit /\ \/ CallGoes(c, "trip")
                                 \/ calling[c].seen = "open" /\ CallGoes(c, "idle")
        BY <1>10, <3>2 DEF RecordCallFailure
      <4>2. circuit' = [state |-> circuit.state, elapsed |-> circuit.elapsed,
                        failures |-> circuit.failures,
                        calls |-> circuit.calls, successes |-> circuit.successes]
        BY <1>0, <4>1
      <4> QED BY <4>1, <4>2
    <3> QED BY <3>1, <3>2
  <2>4. PICK f : \E pc \in {"trip", "idle"} :
          /\ circuit' = [state |-> circuit.state, elapsed |-> circuit.elapsed, failures |-> f,
                         calls |-> circuit.calls, successes |-> circuit.successes]
          /\ CallGoes(c, pc) /\ (calling[c].seen = "half" => pc = "trip")
    BY <2>2
  <2>5. PICK pc \in {"trip", "idle"} :
          /\ circuit' = [state |-> circuit.state, elapsed |-> circuit.elapsed, failures |-> f,
                         calls |-> circuit.calls, successes |-> circuit.successes]
          /\ CallGoes(c, pc) /\ (calling[c].seen = "half" => pc = "trip")
    BY <2>4
  <2>3. ~AwaitedCall(calling[c]) \/ pc \in {"run", "close", "trip"}
    BY <2>1, <2>5 DEF AwaitedCall
  <2> QED BY <1>0, <2>1, <2>5, <2>3, Bystander
<1>11. CASE ResetTimeoutPasses
  <2>1. circuit' = [state |-> circuit.state, elapsed |-> TRUE, failures |-> circuit.failures,
                    calls |-> circuit.calls, successes |-> circuit.successes]
        /\ UNCHANGED <<preset, calling, lostCalls>> /\ circuit.state = "open"
    BY <1>0, <1>11 DEF ResetTimeoutPasses
  <2>2. /\ preset' = preset /\ lostCalls' = lostCalls /\ circuit.state # "half"
        /\ calling' \in [Callers -> [pc : CallStates, seen : SeenStates]]
        /\ circuit.state \in {"closed", "open", "half"}
    BY <1>0, <2>1
  <2> QED BY <1>0, <2>1, <2>2, CountersFresh
<1>12. CASE QueryState
  <2>2. PICK e : circuit' = [state |-> "half", elapsed |-> e, failures |-> circuit.failures,
                             calls |-> 0, successes |-> 0]
    BY <1>0, <1>12, QueryOpens
  <2>3. preset' = preset /\ lostCalls' = lostCalls /\ calling' = calling
    BY <1>12 DEF QueryState
  <2>4. Cardinality(Awaited') \in Nat /\ 0 <= Cardinality(Awaited')
    <3>1. Awaited' = Awaited
      BY <2>3 DEF Awaited
    <3>2. IsFiniteSet(Awaited)
      <4>1. Awaited \subseteq Callers
        BY DEF Awaited
      <4> QED BY <4>1, FS_Subset, ResilienceAssumption
    <3>3. Cardinality(Awaited) \in Nat
      BY <3>2, FS_CardinalityType
    <3> QED BY <3>1, <3>3
  <2>5. "half" \in {"closed", "open", "half"} /\ 0 \in Nat
        /\ calling' \in [Callers -> [pc : CallStates, seen : SeenStates]]
    BY <1>0, <2>3
  <2> QED BY <1>0, <2>2, <2>3, <2>4, <2>5, CountersFresh
<1>13. CASE ResetCircuit
  <2>1. \E e : To(circuit, "closed") = [state |-> "closed", elapsed |-> e, failures |-> circuit.failures,
                                        calls |-> circuit.calls, successes |-> circuit.successes]
    BY <1>0, TransitionMade
  <2>2. PICK e : circuit' = [state |-> "closed", elapsed |-> e, failures |-> 0,
                             calls |-> 0, successes |-> 0]
    <3>1. PICK e : To(circuit, "closed")
            = [state |-> "closed", elapsed |-> e, failures |-> circuit.failures,
               calls |-> circuit.calls, successes |-> circuit.successes]
      BY <2>1
    <3>2. [To(circuit, "closed") EXCEPT !.failures = 0, !.calls = 0, !.successes = 0]
            = [state |-> "closed", elapsed |-> e, failures |-> 0, calls |-> 0, successes |-> 0]
      <4> DEFINE t == To(circuit, "closed")
                 q == [state |-> "closed", elapsed |-> e, failures |-> 0,
                       calls |-> circuit.calls, successes |-> circuit.successes]
                 r == [state |-> "closed", elapsed |-> e, failures |-> 0,
                       calls |-> 0, successes |-> circuit.successes]
      <4>1. t = [state |-> "closed", elapsed |-> e, failures |-> circuit.failures,
                 calls |-> circuit.calls, successes |-> circuit.successes]
        BY <3>1
      <4> HIDE DEF t
      <4>2. [t EXCEPT !.failures = 0] = q
        BY <4>1
      <4>3. [q EXCEPT !.calls = 0] = r
        OBVIOUS
      <4>4. [r EXCEPT !.successes = 0]
              = [state |-> "closed", elapsed |-> e, failures |-> 0, calls |-> 0, successes |-> 0]
        OBVIOUS
      <4>5. [t EXCEPT !.failures = 0, !.calls = 0, !.successes = 0]
              = [[[t EXCEPT !.failures = 0] EXCEPT !.calls = 0] EXCEPT !.successes = 0]
        OBVIOUS
      <4> QED BY <4>2, <4>3, <4>4, <4>5 DEF t
    <3> QED BY <1>13, <3>2 DEF ResetCircuit
  <2>3. /\ preset' = preset /\ lostCalls' = lostCalls /\ 0 \in Nat
        /\ calling' \in [Callers -> [pc : CallStates, seen : SeenStates]]
        /\ "closed" \in {"closed", "open", "half"} /\ "closed" # "half"
    BY <1>0, <1>13 DEF ResetCircuit
  <2> QED BY <1>0, <2>2, <2>3, CountersFresh
<1>14. CASE UNCHANGED breakerVars
  BY <1>14 DEF breakerVars, BreakerInv, BreakerTyped, CountersExplained, Awaited
<1> QED BY <1>1, <1>2, <1>3, <1>4, <1>5, <1>8, <1>9, <1>10, <1>11, <1>12, <1>13, <1>14 DEF BreakerNext

\* A half-open circuit that waits for nobody has a test slot to give.
LEMMA BreakerFollows == BreakerInv => HalfOpenStillTries
<1> SUFFICES ASSUME BreakerInv, circuit.state = "half", lostCalls = 0,
                    \A c \in Callers : calling[c] = NoCall
             PROVE  circuit.calls < preset.calls
  BY DEF HalfOpenStillTries
<1>1. Awaited = {} /\ \A c \in Callers : calling[c].pc # "close"
  BY DEF Awaited, AwaitedCall, NoCall
<1>2. Cardinality(Awaited) = 0
  BY <1>1, FS_EmptySet
<1> QED BY <1>1, <1>2, CircuitsTestable DEF BreakerInv, BreakerTyped, CountersExplained

-----------------------------------------------------------------------------
(* The Redis limiters. *)

After(d) == {u \in Times : u > d}
Within(t, n) == {u \in Times : u > t - n /\ u <= t}

\* Real time by which a clock may remove an entry.
Certain == WindowSize - ClockSkew

\* Times are finitely many.
LEMMA TimesFinite == IsFiniteSet(Times) /\ \A S \in SUBSET Times : IsFiniteSet(S)
<1>1. IsFiniteSet(Times)
  <2>1. MaxWindowTime + ClockSkew \in Int /\ 0 \in Int
    BY ResilienceAssumption
  <2> QED BY <2>1, FS_Interval DEF Times
<1> QED BY <1>1, FS_Subset

\* Fewer times, fewer requests.
LEMMA TotalSubset ==
  ASSUME NEW f \in [Times -> Nat], NEW T \in SUBSET Times, NEW S \in SUBSET T
  PROVE  Total(f, S) \in Nat /\ Total(f, T) \in Nat /\ Total(f, S) <= Total(f, T)
<1>1. IsFiniteSet(T) /\ \A x \in T : f[x] \in Nat
  BY TimesFinite
<1>2. /\ SumFunctionOnSet(f, S) \in Nat /\ SumFunctionOnSet(f, T \ S) \in Nat
      /\ SumFunctionOnSet(f, T) = SumFunctionOnSet(f, S) + SumFunctionOnSet(f, T \ S)
  BY <1>1, SumPart
<1>3. SumFunctionOnSet(f, T) \in Nat
  BY <1>1, SumNat
<1> QED BY <1>2, <1>3 DEF Total

\* Two sets of times together have no more than both.
LEMMA TotalCovered ==
  ASSUME NEW f \in [Times -> Nat], NEW R \in SUBSET Times, NEW S \in SUBSET Times,
         NEW T \in SUBSET Times, R \subseteq S \cup T
  PROVE  Total(f, R) <= Total(f, S) + Total(f, T)
<1> DEFINE U == R \cap S
           V == R \ S
<1>1. U \subseteq S /\ V \subseteq T /\ U \cap V = {} /\ U \cup V = R
      /\ U \in SUBSET Times /\ V \in SUBSET Times
  OBVIOUS
<1> HIDE DEF U, V
<1>2. IsFiniteSet(U) /\ IsFiniteSet(V) /\ \A x \in U \cup V : f[x] \in Int
  BY <1>1, TimesFinite
<1>3. Total(f, R) = Total(f, U) + Total(f, V)
  <2>1. SumFunctionOnSet(f, U \cup V) = SumFunctionOnSet(f, U) + SumFunctionOnSet(f, V)
    BY <1>1, <1>2, SumUnion
  <2> QED BY <1>1, <2>1 DEF Total
<1>4. Total(f, U) \in Nat /\ Total(f, S) \in Nat /\ Total(f, U) <= Total(f, S)
  BY <1>1, TotalSubset
<1>5. Total(f, V) \in Nat /\ Total(f, T) \in Nat /\ Total(f, V) <= Total(f, T)
  BY <1>1, TotalSubset
<1> QED BY <1>3, <1>4, <1>5

\* One more request, at time a.
LEMMA TotalMore ==
  ASSUME NEW f \in [Times -> Nat], NEW g \in [Times -> Nat], NEW a \in Times,
         g[a] = f[a] + 1, \A x \in Times \ {a} : g[x] = f[x], NEW S \in SUBSET Times
  PROVE  /\ a \in S => Total(g, S) = Total(f, S) + 1
         /\ a \notin S => Total(g, S) = Total(f, S)
<1>1. /\ IsFiniteSet(S)
      /\ \A x \in S : f[x] \in Int /\ g[x] \in Int
      /\ \A x \in S \ {a} : g[x] = f[x]
  BY TimesFinite
<1>2. CASE a \in S
  <2>1. SumFunctionOnSet(g, S) = SumFunctionOnSet(f, S) + g[a] - f[a]
    BY <1>1, <1>2, SumChange
  <2>2. SumFunctionOnSet(f, S) \in Int
    BY <1>1, SumInt
  <2>3. f[a] \in Nat
    OBVIOUS
  <2> QED BY <1>2, <2>1, <2>2, <2>3 DEF Total
<1>3. CASE a \notin S
  <2>1. \A x \in S : g[x] \in Int /\ g[x] = f[x]
    BY <1>1, <1>3
  <2>2. SumFunctionOnSet(g, S) = SumFunctionOnSet(f, S)
    BY <1>1, <2>1, SumEqual
  <2> QED BY <1>3, <2>2 DEF Total
<1> QED BY <1>2, <1>3

\* The same values, the same sum.
LEMMA TotalSame ==
  ASSUME NEW f \in [Times -> Nat], NEW g \in [Times -> Nat], NEW S \in SUBSET Times,
         \A x \in S : f[x] = g[x]
  PROVE  Total(f, S) = Total(g, S)
<1>1. IsFiniteSet(S) /\ \A x \in S : f[x] \in Int /\ f[x] = g[x]
  BY TimesFinite
<1> QED BY <1>1, SumEqual DEF Total

\* Fewer requests at every time, fewer in all.
LEMMA TotalLess ==
  ASSUME NEW f \in [Times -> Nat], NEW g \in [Times -> Nat], \A x \in Times : f[x] <= g[x]
  PROVE  Total(f, Times) <= Total(g, Times)
<1> DEFINE h == [x \in Times |-> g[x] - f[x]]
<1>1. /\ IsFiniteSet(Times) /\ Times \in SUBSET Times
      /\ \A x \in Times : f[x] \in Int
      /\ \A x \in Times : h[x] \in Int /\ g[x] = f[x] + h[x]
      /\ \A x \in Times \ Times : g[x] = f[x]
      /\ \A x \in Times : h[x] \in Nat
  BY TimesFinite
<1> HIDE DEF h
<1>2. SumFunctionOnSet(g, Times) = SumFunctionOnSet(f, Times) + SumFunctionOnSet(h, Times)
  BY <1>1, SumRaise
<1>3. SumFunctionOnSet(h, Times) \in Nat /\ SumFunctionOnSet(f, Times) \in Int
  BY <1>1, SumNat, SumInt
<1> QED BY <1>2, <1>3 DEF Total

\* Nothing adds up to nothing.
LEMMA TotalNone ==
  ASSUME NEW f \in [Times -> Nat], NEW S \in SUBSET Times, \A x \in S : f[x] = 0
  PROVE  Total(f, S) = 0
<1>1. IsFiniteSet(S) /\ Cardinality(S) \in Nat
  BY TimesFinite, FS_CardinalityType
<1>2. SumFunctionOnSet(f, S) = Cardinality(S) * 0
  BY <1>1, SumConstant
<1> QED BY <1>1, <1>2 DEF Total

WindowTyped ==
  /\ wtime \in 0 .. MaxWindowTime /\ skew \in [Limiters -> 0 .. ClockSkew]
  /\ zset \in [Times -> Nat] /\ expires \in Nat
  /\ fixed \in [count : Nat, expires : Nat]
  /\ admitted \in [sliding : [Times -> Nat], fixed : [Times -> Nat]]

\* What was admitted so recently that no clock can have removed it is still in
\* the sorted set, under the time of some clock.
SlidingInv ==
  /\ Total(zset, Times) <= WindowRate
  /\ \A u \in Times : admitted.sliding[u] # 0 => u <= wtime /\ u + WindowSize <= expires
  /\ \A d \in Int : d >= wtime - Certain
       => Total(admitted.sliding, After(d)) <= Total(zset, After(d))
  /\ \A t \in Times : Total(admitted.sliding, Within(t, Certain)) <= WindowRate

\* The window that runs has admitted what it counts, and a whole window before
\* its start no more than the rate.
FixedInv ==
  /\ \A u \in Times : admitted.fixed[u] # 0 => u <= wtime
  /\ fixed.count = 0 => /\ \A u \in Times : u >= wtime => admitted.fixed[u] = 0
                        /\ Total(admitted.fixed, After(wtime - WindowSize)) <= WindowRate
  /\ fixed.count # 0 =>
       /\ fixed.expires - WindowSize <= wtime /\ wtime < fixed.expires
       /\ fixed.count <= WindowRate
       /\ Total(admitted.fixed, After(fixed.expires - WindowSize - 1)) = fixed.count
       /\ Total(admitted.fixed, Within(fixed.expires - WindowSize - 1, WindowSize - 1)) <= WindowRate
  /\ \A t \in Times : Total(admitted.fixed, Within(t, WindowSize)) <= 2 * WindowRate

WindowInv == WindowTyped /\ SlidingInv /\ FixedInv

\* What a span of time holds is times.
LEMMA SpansAreTimes ==
  \A d, n \in Int : After(d) \in SUBSET Times /\ Within(d, n) \in SUBSET Times
BY DEF After, Within

\* The limits and the clock are numbers.
LEMMA WindowBounds ==
  /\ WindowRate \in Nat /\ WindowSize \in Nat /\ WindowSize > 0 /\ ClockSkew \in Nat
  /\ MaxWindowTime \in Nat /\ Certain \in Int
  /\ \A u \in Times : u \in Nat
BY ResilienceAssumption DEF Certain, Times

\* At first nothing was admitted.
LEMMA WindowStart == WindowInit => WindowInv
<1> SUFFICES ASSUME WindowInit PROVE WindowInv
  OBVIOUS
<1> DEFINE nothing == [t \in Times |-> 0]
<1>1. zset = nothing /\ admitted.sliding = nothing /\ admitted.fixed = nothing
      /\ admitted = [sliding |-> nothing, fixed |-> nothing]
      /\ wtime = 0 /\ skew \in [Limiters -> 0 .. ClockSkew] /\ expires = 0
      /\ fixed = [count |-> 0, expires |-> 0] /\ fixed.count = 0
  BY DEF WindowInit
<1>2. nothing \in [Times -> Nat] /\ \A u \in Times : nothing[u] = 0
  OBVIOUS
<1> HIDE DEF nothing
<1>3. \A S \in SUBSET Times : Total(nothing, S) = 0
  BY <1>2, TotalNone
<1>4. WindowTyped
  BY <1>1, <1>2, WindowBounds DEF WindowTyped
<1>5. SlidingInv
  <2>1. Times \in SUBSET Times
    OBVIOUS
  <2> QED BY <1>1, <1>2, <1>3, <2>1, SpansAreTimes, WindowBounds DEF SlidingInv
<1>6. FixedInv
  <2>1. wtime - WindowSize \in Int
    BY <1>1, WindowBounds
  <2> QED BY <1>1, <1>2, <1>3, <2>1, SpansAreTimes, WindowBounds DEF FixedInv
<1> QED BY <1>4, <1>5, <1>6 DEF WindowInv

\* An entry that some clock may not remove yet stays for every process.
LEMMA EntriesStay ==
  ASSUME WindowTyped, NEW p \in Limiters, NEW now, now = wtime + skew[p]
  PROVE  /\ now \in Times /\ now >= wtime /\ Entries(now) \in [Times -> Nat]
         /\ Total(Entries(now), Times) \in Nat
         /\ \A d \in Int : d >= wtime - Certain
              => \A u \in After(d) : Entries(now)[u] = zset[u]
<1>1. wtime \in Nat /\ wtime <= MaxWindowTime /\ skew[p] \in Nat /\ skew[p] <= ClockSkew
      /\ zset \in [Times -> Nat]
  BY WindowBounds DEF WindowTyped
<1>2. now \in Times /\ now >= wtime
  BY <1>1, WindowBounds DEF Times
<1>3. Entries(now) \in [Times -> Nat]
  BY <1>1, WindowBounds DEF Entries
<1>4. Total(Entries(now), Times) \in Nat
  BY <1>3, TotalSubset
<1>5. ASSUME NEW d \in Int, d >= wtime - Certain, NEW u \in After(d)
      PROVE  Entries(now)[u] = zset[u]
  <2>1. u \in Times /\ u \in Nat /\ u > d
    BY WindowBounds DEF After
  <2>2. ~(u <= now - WindowSize)
    BY <1>1, <1>5, <2>1, WindowBounds DEF Certain
  <2> QED BY <2>1, <2>2 DEF Entries
<1> QED BY <1>2, <1>3, <1>4, <1>5

\* What the sliding limiter does leaves the fixed one alone.
LEMMA FixedUntouched ==
  ASSUME FixedInv, UNCHANGED <<wtime, fixed>>, admitted'.fixed = admitted.fixed
  PROVE  FixedInv'
BY DEF FixedInv, After, Within, Times, Total

\* What the fixed limiter does leaves the sliding one alone.
LEMMA SlidingUntouched ==
  ASSUME SlidingInv, UNCHANGED <<wtime, zset, expires>>, admitted'.sliding = admitted.sliding
  PROVE  SlidingInv'
BY DEF SlidingInv, After, Within, Times, Total, Certain

\* A refused request removes only entries that are a window old for its process.
LEMMA RefuseStep ==
  ASSUME WindowInv, NEW p \in Limiters, SlidingRefuse(p)
  PROVE  WindowInv'
<1> DEFINE now == wtime + skew[p]
<1>1. zset' = Entries(now) /\ UNCHANGED <<wtime, skew, expires, fixed, admitted>>
  BY DEF SlidingRefuse
<1>2. WindowTyped /\ SlidingInv /\ FixedInv
  BY DEF WindowInv
<1>3. /\ now \in Times /\ now >= wtime /\ Entries(now) \in [Times -> Nat]
      /\ \A d \in Int : d >= wtime - Certain
           => \A u \in After(d) : Entries(now)[u] = zset[u]
  BY <1>2, EntriesStay
<1>4. zset \in [Times -> Nat] /\ admitted.sliding \in [Times -> Nat]
  BY <1>2 DEF WindowTyped
<1>5. Total(Entries(now), Times) <= Total(zset, Times)
  <2>1. \A u \in Times : Entries(now)[u] <= zset[u]
    BY <1>4 DEF Entries
  <2> QED BY <1>3, <1>4, <2>1, TotalLess
<1> HIDE DEF now
<1>6. WindowTyped'
  BY <1>1, <1>2, <1>3 DEF WindowTyped
<1>7. SlidingInv'
  <2>1. Total(Entries(now), Times) <= WindowRate
    <3>1. Total(zset, Times) \in Nat /\ Total(Entries(now), Times) \in Nat
          /\ Total(zset, Times) <= WindowRate
      BY <1>2, <1>3, <1>4, TotalSubset DEF SlidingInv
    <3> QED BY <1>5, <3>1, WindowBounds
  <2>2. ASSUME NEW d \in Int, d >= wtime - Certain
        PROVE  Total(admitted.sliding, After(d)) <= Total(Entries(now), After(d))
    <3>1. After(d) \in SUBSET Times
      BY DEF After
    <3>2. Total(Entries(now), After(d)) = Total(zset, After(d))
      BY <1>3, <1>4, <2>2, <3>1, TotalSame
    <3> QED BY <1>2, <2>2, <3>2 DEF SlidingInv
  <2> QED BY <1>1, <1>2, <2>1, <2>2 DEF SlidingInv, After, Within, Times, Total, Certain
<1>8. FixedInv'
  BY <1>1, <1>2, FixedUntouched
<1> QED BY <1>6, <1>7, <1>8 DEF WindowInv


\* An admitted request is an entry under the time of its process, and the set has
\* room for it.
LEMMA SlidingAllowStep ==
  ASSUME WindowInv, NEW p \in Limiters, SlidingAllow(p)
  PROVE  WindowInv'
<1> DEFINE now == wtime + skew[p]
           a == admitted.sliding
           b == admitted'.sliding
<1>1. /\ Total(Entries(now), Times) + 1 <= WindowRate
      /\ zset' = [Entries(now) EXCEPT ![now] = @ + 1]
      /\ expires' = wtime + WindowSize
      /\ admitted' = [admitted EXCEPT !.sliding[wtime] = @ + 1]
      /\ UNCHANGED <<wtime, skew, fixed>>
  BY DEF SlidingAllow
<1>2. WindowTyped /\ SlidingInv /\ FixedInv
  BY DEF WindowInv
<1>3. /\ now \in Times /\ now >= wtime /\ Entries(now) \in [Times -> Nat]
      /\ Total(Entries(now), Times) \in Nat
      /\ \A d \in Int : d >= wtime - Certain
           => \A u \in After(d) : Entries(now)[u] = zset[u]
  BY <1>2, EntriesStay
<1>4. /\ zset \in [Times -> Nat] /\ a \in [Times -> Nat] /\ wtime \in Nat /\ wtime \in Times
      /\ admitted.fixed \in [Times -> Nat] /\ expires \in Nat /\ now \in Nat
  <2>1. /\ zset \in [Times -> Nat] /\ a \in [Times -> Nat] /\ wtime \in 0 .. MaxWindowTime
        /\ admitted.fixed \in [Times -> Nat] /\ expires \in Nat
    BY <1>2 DEF WindowTyped
  <2>2. wtime \in Nat /\ wtime \in Times
    BY <2>1, WindowBounds DEF Times
  <2> QED BY <1>3, <2>1, <2>2, WindowBounds
<1>5. /\ b = [a EXCEPT ![wtime] = @ + 1] /\ admitted'.fixed = admitted.fixed
      /\ admitted' = [sliding |-> b, fixed |-> admitted.fixed]
  BY <1>1, <1>2 DEF WindowTyped
<1>6. /\ b \in [Times -> Nat] /\ b[wtime] = a[wtime] + 1
      /\ \A u \in Times \ {wtime} : b[u] = a[u]
  BY <1>4, <1>5
<1>7. /\ zset' \in [Times -> Nat] /\ zset'[now] = Entries(now)[now] + 1
      /\ \A u \in Times \ {now} : zset'[u] = Entries(now)[u]
  BY <1>1, <1>3
<1> HIDE DEF now, a, b
<1>8. WindowTyped'
  <2>1. expires' \in Nat
    BY <1>1, <1>4, WindowBounds
  <2> QED BY <1>1, <1>2, <1>4, <1>5, <1>6, <1>7, <2>1 DEF WindowTyped
<1>9. SlidingInv'
  <2>1. Total(zset', Times) <= WindowRate
    <3>1. Total(zset', Times) = Total(Entries(now), Times) + 1
      BY <1>3, <1>7, TotalMore
    <3> QED BY <1>1, <3>1
  <2>2. ASSUME NEW u \in Times, b[u] # 0
        PROVE  u <= wtime /\ u + WindowSize <= expires'
    <3>1. u \in Nat
      BY WindowBounds
    <3>2. u <= wtime
      BY <1>2, <1>4, <1>6, <2>2, <3>1 DEF SlidingInv, a
    <3> QED BY <1>1, <1>4, <3>1, <3>2, WindowBounds
  <2>3. ASSUME NEW d \in Int, d >= wtime - Certain
        PROVE  Total(b, After(d)) <= Total(zset', After(d))
    <3>1. After(d) \in SUBSET Times /\ (wtime \in After(d) <=> wtime > d)
      BY <1>4 DEF After
    <3>2. Total(Entries(now), After(d)) = Total(zset, After(d))
      BY <1>3, <1>4, <2>3, <3>1, TotalSame
    <3>3. Total(a, After(d)) <= Total(Entries(now), After(d))
      BY <1>2, <2>3, <3>2 DEF SlidingInv, a
    <3>4. Total(a, After(d)) \in Nat /\ Total(Entries(now), After(d)) \in Nat
      BY <1>3, <1>4, <3>1, TotalSubset
    <3>5. CASE wtime > d
      <4>1. now \in After(d)
        BY <1>3, <1>4, <3>5 DEF After
      <4>2. Total(zset', After(d)) = Total(Entries(now), After(d)) + 1
        BY <1>3, <1>7, <3>1, <4>1, TotalMore
      <4>3. Total(b, After(d)) = Total(a, After(d)) + 1
        BY <1>4, <1>6, <3>1, <3>5, TotalMore
      <4> QED BY <3>3, <3>4, <4>2, <4>3
    <3>6. CASE ~(wtime > d)
      <4>1. Total(b, After(d)) = Total(a, After(d))
        BY <1>4, <1>6, <3>1, <3>6, TotalMore
      <4>2. \/ Total(zset', After(d)) = Total(Entries(now), After(d)) + 1
            \/ Total(zset', After(d)) = Total(Entries(now), After(d))
        BY <1>3, <1>7, <3>1, TotalMore
      <4> QED BY <3>3, <3>4, <4>1, <4>2
    <3> QED BY <3>5, <3>6
  <2>4. ASSUME NEW t \in Times
        PROVE  Total(b, Within(t, Certain)) <= WindowRate
    <3> DEFINE S == Within(t, Certain)
               D == After(t - Certain)
    <3>1. /\ S \in SUBSET Times /\ D \in SUBSET Times /\ S \subseteq D /\ t \in Nat
          /\ t - Certain \in Int /\ (wtime \in S => wtime <= t)
      BY WindowBounds DEF Within, After
    <3> HIDE DEF S, D
    <3>2. CASE wtime \notin S
      <4>1. Total(b, S) = Total(a, S)
        BY <1>4, <1>6, <3>1, <3>2, TotalMore
      <4> QED BY <1>2, <4>1 DEF SlidingInv, a, S
    <3>3. CASE wtime \in S
      <4>1. t - Certain >= wtime - Certain
        BY <1>4, <3>1, <3>3, WindowBounds
      <4>2. Total(b, D) <= Total(zset', D)
        BY <2>3, <3>1, <4>1 DEF D
      <4>3. Total(b, S) \in Nat /\ Total(b, D) \in Nat /\ Total(b, S) <= Total(b, D)
        BY <1>6, <3>1, TotalSubset
      <4>4. Total(zset', D) \in Nat /\ Total(zset', Times) \in Nat
            /\ Total(zset', D) <= Total(zset', Times)
        BY <1>7, <3>1, TotalSubset
      <4> QED BY <2>1, <4>2, <4>3, <4>4, WindowBounds DEF S
    <3> QED BY <3>2, <3>3
  <2> QED BY <1>1, <2>1, <2>2, <2>3, <2>4
          DEF SlidingInv, After, Within, Times, Total, Certain, b
<1>10. FixedInv'
  BY <1>1, <1>2, <1>5, FixedUntouched
<1> QED BY <1>8, <1>9, <1>10 DEF WindowInv


\* An admitted request is counted, or starts a new window at its time.
LEMMA FixedAllowStep ==
  ASSUME WindowInv, FixedAllow
  PROVE  WindowInv'
<1> DEFINE a == admitted.fixed
           b == admitted'.fixed
           start == fixed'.expires - WindowSize
           Old == Within(start - 1, WindowSize - 1)
           New == After(start - 1)
<1>1. /\ fixed.count + 1 <= WindowRate
      /\ fixed' = [count |-> fixed.count + 1,
                   expires |-> IF fixed.count = 0 THEN wtime + WindowSize ELSE fixed.expires]
      /\ admitted' = [admitted EXCEPT !.fixed[wtime] = @ + 1]
      /\ UNCHANGED <<wtime, skew, zset, expires>>
  BY DEF FixedAllow
<1>2. WindowTyped /\ SlidingInv /\ FixedInv
  BY DEF WindowInv
<1>3. /\ a \in [Times -> Nat] /\ wtime \in 0 .. MaxWindowTime
      /\ admitted.sliding \in [Times -> Nat] /\ fixed \in [count : Nat, expires : Nat]
  BY <1>2 DEF WindowTyped
<1>4. wtime \in Nat /\ wtime \in Times /\ fixed.count \in Nat /\ fixed.expires \in Nat
  BY <1>3, WindowBounds DEF Times
<1>5. /\ b = [a EXCEPT ![wtime] = @ + 1] /\ admitted'.sliding = admitted.sliding
      /\ admitted' = [sliding |-> admitted.sliding, fixed |-> b]
  BY <1>1, <1>2 DEF WindowTyped
<1>6. /\ b \in [Times -> Nat] /\ b[wtime] = a[wtime] + 1
      /\ \A u \in Times \ {wtime} : b[u] = a[u]
  BY <1>3, <1>4, <1>5
<1>7. /\ fixed'.count = fixed.count + 1
      /\ fixed.count = 0 => fixed'.expires = wtime + WindowSize
      /\ fixed.count # 0 => fixed'.expires = fixed.expires
      /\ fixed'.expires \in Nat /\ start \in Int
      /\ fixed' = [count |-> fixed'.count, expires |-> fixed'.expires]
  BY <1>1, <1>4, WindowBounds
<1> HIDE DEF a, b
<1>8. WindowTyped'
  BY <1>1, <1>2, <1>3, <1>4, <1>5, <1>6, <1>7 DEF WindowTyped
<1>9. /\ Old \in SUBSET Times /\ New \in SUBSET Times
      /\ start <= wtime /\ wtime < fixed'.expires /\ wtime \in New /\ wtime \notin Old
  <2>1. start <= wtime /\ wtime < fixed'.expires
    BY <1>2, <1>4, <1>7, WindowBounds DEF FixedInv
  <2> QED BY <1>4, <1>7, <2>1, WindowBounds DEF Within, After
<1>10. Total(a, New) = fixed.count /\ Total(a, Old) <= WindowRate
  <2>1. CASE fixed.count # 0
    BY <1>2, <1>7, <2>1 DEF FixedInv, a
  <2>2. CASE fixed.count = 0
    <3>1. /\ \A u \in Times : u >= wtime => a[u] = 0
          /\ Total(a, After(wtime - WindowSize)) <= WindowRate
      BY <1>2, <2>2 DEF FixedInv, a
    <3>2. start = wtime
      BY <1>4, <1>7, <2>2, WindowBounds
    <3>3. \A u \in New : a[u] = 0
      BY <1>4, <3>1, <3>2, WindowBounds DEF After
    <3>4. Total(a, New) = 0
      BY <1>3, <1>9, <3>3, TotalNone DEF a
    <3>5. Old \subseteq After(wtime - WindowSize) /\ After(wtime - WindowSize) \in SUBSET Times
      BY <1>4, <3>2, WindowBounds DEF Within, After
    <3>6. /\ Total(a, Old) \in Nat /\ Total(a, After(wtime - WindowSize)) \in Nat
          /\ Total(a, Old) <= Total(a, After(wtime - WindowSize))
      <4> HIDE DEF Old
      <4> QED BY <1>3, <3>5, TotalSubset DEF a
    <3> QED BY <2>2, <3>1, <3>4, <3>6, WindowBounds
  <2> QED BY <2>1, <2>2
<1>11. Total(b, New) = fixed.count + 1 /\ Total(b, Old) <= WindowRate
  <2> HIDE DEF Old, New, start
  <2>1. a \in [Times -> Nat]
    BY <1>3 DEF a
  <2>2. Total(b, New) = Total(a, New) + 1
    BY <1>4, <1>6, <1>9, <2>1, TotalMore
  <2>3. Total(b, Old) = Total(a, Old)
    BY <1>4, <1>6, <1>9, <2>1, TotalMore
  <2> QED BY <1>10, <2>2, <2>3
<1>12. FixedInv'
  <2>1. \A u \in Times : b[u] # 0 => u <= wtime
    <3>1. \A u \in Times : u # wtime => b[u] = a[u]
      BY <1>6
    <3> QED BY <1>2, <1>4, <3>1 DEF FixedInv, a
  <2>2. ASSUME NEW t \in Times
        PROVE  Total(b, Within(t, WindowSize)) <= 2 * WindowRate
    <3> DEFINE S == Within(t, WindowSize)
    <3>1. S \in SUBSET Times /\ t \in Nat /\ (wtime \in S => wtime <= t)
      BY WindowBounds DEF Within
    <3>2. wtime \in S => S \subseteq New \cup Old
      BY <1>4, <1>7, <1>9, <3>1, WindowBounds DEF Within, After
    <3> HIDE DEF S, New, Old, start
    <3>3. CASE wtime \notin S
      <4>1. a \in [Times -> Nat]
        BY <1>3 DEF a
      <4>2. Total(b, S) = Total(a, S)
        BY <1>4, <1>6, <3>1, <3>3, <4>1, TotalMore
      <4> QED BY <1>2, <4>2 DEF FixedInv, a, S
    <3>4. CASE wtime \in S
      <4>1. Total(b, S) <= Total(b, New) + Total(b, Old)
        BY <1>6, <1>9, <3>1, <3>2, <3>4, TotalCovered
      <4>2. Total(b, S) \in Nat /\ Total(b, Old) \in Nat
        BY <1>6, <1>9, <3>1, TotalSubset
      <4> QED BY <1>1, <1>4, <1>11, <4>1, <4>2, WindowBounds DEF S
    <3> QED BY <3>3, <3>4
  <2>3. fixed'.count # 0 /\ fixed'.count <= WindowRate
    BY <1>1, <1>4, <1>7
  <2>4. Total(b, New) = fixed'.count
    BY <1>7, <1>11
  <2> QED BY <1>1, <1>9, <1>11, <2>1, <2>2, <2>3, <2>4
          DEF FixedInv, After, Within, Times, Total, b
<1>13. SlidingInv'
  BY <1>1, <1>2, <1>5, SlidingUntouched
<1> QED BY <1>8, <1>12, <1>13 DEF WindowInv

\* When Redis drops a key, everything it stood for is a window old.
LEMMA WindowTickStep ==
  ASSUME WindowInv, WindowTick
  PROVE  WindowInv'
<1> DEFINE nothing == [t \in Times |-> 0]
           s == admitted.sliding
           f == admitted.fixed
<1>1. /\ wtime < MaxWindowTime /\ wtime' = wtime + 1
      /\ fixed' = IF fixed.expires <= wtime + 1 THEN [count |-> 0, expires |-> 0] ELSE fixed
      /\ zset' = IF expires <= wtime + 1 THEN nothing ELSE zset
      /\ UNCHANGED <<skew, expires, admitted>>
  BY DEF WindowTick
<1>2. WindowTyped /\ SlidingInv /\ FixedInv
  BY DEF WindowInv
<1>3. /\ s \in [Times -> Nat] /\ f \in [Times -> Nat] /\ wtime \in 0 .. MaxWindowTime
      /\ zset \in [Times -> Nat] /\ fixed \in [count : Nat, expires : Nat] /\ expires \in Nat
  BY <1>2 DEF WindowTyped
<1>4. wtime \in Nat /\ fixed.count \in Nat /\ fixed.expires \in Nat
      /\ wtime' \in 0 .. MaxWindowTime
  BY <1>1, <1>3, WindowBounds
<1>5. nothing \in [Times -> Nat] /\ \A u \in Times : nothing[u] = 0
  OBVIOUS
<1> HIDE DEF nothing, s, f
<1>6. \A S \in SUBSET Times : Total(nothing, S) = 0
  BY <1>5, TotalNone
<1>7. WindowTyped'
  <2>1. zset' \in [Times -> Nat]
    BY <1>1, <1>3, <1>5
  <2>2. fixed' \in [count : Nat, expires : Nat]
    BY <1>1, <1>3
  <2> QED BY <1>1, <1>2, <1>4, <2>1, <2>2 DEF WindowTyped
<1>8. SlidingInv'
  <2>1. Total(zset', Times) <= WindowRate
    BY <1>1, <1>2, <1>6, WindowBounds DEF SlidingInv
  <2>2. \A u \in Times : s[u] # 0 => u <= wtime' /\ u + WindowSize <= expires
    BY <1>1, <1>2, <1>4, WindowBounds DEF SlidingInv, s
  <2>3. ASSUME NEW d \in Int, d >= wtime' - Certain
        PROVE  Total(s, After(d)) <= Total(zset', After(d))
    <3>1. After(d) \in SUBSET Times
      BY DEF After
    <3>2. CASE expires <= wtime + 1
      <4>1. ASSUME NEW u \in After(d), s[u] # 0 PROVE FALSE
        <5>1. u \in Times /\ u \in Nat /\ u > d
          BY WindowBounds DEF After
        <5>2. u + WindowSize <= expires
          BY <2>2, <4>1, <5>1
        <5> QED BY <1>1, <1>3, <1>4, <2>3, <3>2, <5>1, <5>2, WindowBounds DEF Certain
      <4>2. Total(s, After(d)) = 0
        <5>1. \A u \in After(d) : s[u] = 0
          BY <4>1
        <5> QED BY <1>3, <3>1, <5>1, TotalNone DEF s
      <4>3. Total(zset', After(d)) = 0
        BY <1>1, <1>6, <3>1, <3>2
      <4> QED BY <4>2, <4>3
    <3>3. CASE ~(expires <= wtime + 1)
      <4>1. d >= wtime - Certain
        BY <1>1, <1>4, <2>3, WindowBounds
      <4> QED BY <1>1, <1>2, <3>3, <4>1 DEF SlidingInv, s
    <3> QED BY <3>2, <3>3
  <2>4. \A t \in Times : Total(s, Within(t, Certain)) <= WindowRate
    BY <1>2 DEF SlidingInv, s
  <2>5. admitted'.sliding = s
    BY <1>1 DEF s
  <2> QED BY <1>1, <2>1, <2>2, <2>3, <2>4, <2>5
          DEF SlidingInv, After, Within, Times, Total, Certain
<1>9. FixedInv'
  <2>1. \A u \in Times : f[u] # 0 => u <= wtime
    BY <1>2 DEF FixedInv, f
  <2>2. \A u \in Times : f[u] # 0 => u <= wtime'
    BY <1>1, <1>4, <2>1, WindowBounds
  <2>3. \A t \in Times : Total(f, Within(t, WindowSize)) <= 2 * WindowRate
    BY <1>2 DEF FixedInv, f
  <2>4. admitted'.fixed = f
    BY <1>1 DEF f
  <2>5. CASE fixed'.count = 0
    <3>1. \A u \in Times : u >= wtime' => f[u] = 0
      BY <1>1, <1>4, <2>1, WindowBounds
    <3>2. Total(f, After(wtime' - WindowSize)) <= WindowRate
      <4>1. PICK d \in Int : d <= wtime' - WindowSize /\ Total(f, After(d)) <= WindowRate
        <5>1. CASE fixed.count = 0
          <6>1. Total(f, After(wtime - WindowSize)) <= WindowRate
            BY <1>2, <5>1 DEF FixedInv, f
          <6> QED BY <1>1, <1>4, <6>1, WindowBounds
        <5>2. CASE fixed.count # 0
          <6>1. /\ wtime < fixed.expires /\ fixed.count <= WindowRate
                /\ Total(f, After(fixed.expires - WindowSize - 1)) = fixed.count
            BY <1>2, <5>2 DEF FixedInv, f
          <6>2. fixed.expires <= wtime + 1
            BY <1>1, <2>5, <5>2
          <6>3. /\ fixed.expires - WindowSize - 1 \in Int
                /\ fixed.expires - WindowSize - 1 <= wtime' - WindowSize
            BY <1>1, <1>4, <6>2, WindowBounds
          <6> QED BY <6>1, <6>3
        <5> QED BY <5>1, <5>2
      <4> DEFINE D == After(d)
                 E == After(wtime' - WindowSize)
      <4>2. E \subseteq D /\ D \in SUBSET Times
        BY <1>1, <1>4, <4>1, WindowBounds DEF After
      <4> HIDE DEF D, E
      <4>3. Total(f, E) \in Nat /\ Total(f, D) \in Nat /\ Total(f, E) <= Total(f, D)
        BY <1>3, <4>2, TotalSubset DEF f
      <4> QED BY <4>1, <4>3, WindowBounds DEF D, E
    <3> QED BY <1>1, <2>2, <2>3, <2>4, <2>5, <3>1, <3>2
            DEF FixedInv, After, Within, Times, Total
  <2>6. CASE fixed'.count # 0
    <3>1. fixed' = fixed /\ ~(fixed.expires <= wtime + 1)
      BY <1>1, <2>6
    <3>2. /\ fixed.expires - WindowSize <= wtime /\ fixed.count <= WindowRate
          /\ Total(f, After(fixed.expires - WindowSize - 1)) = fixed.count
          /\ Total(f, Within(fixed.expires - WindowSize - 1, WindowSize - 1)) <= WindowRate
      BY <1>2, <2>6, <3>1 DEF FixedInv, f
    <3>3. fixed.expires - WindowSize <= wtime' /\ wtime' < fixed.expires
      BY <1>1, <1>4, <3>1, <3>2, WindowBounds
    <3> QED BY <1>1, <2>2, <2>3, <2>4, <2>6, <3>1, <3>2, <3>3
            DEF FixedInv, After, Within, Times, Total
  <2> QED BY <2>5, <2>6
<1> QED BY <1>7, <1>8, <1>9 DEF WindowInv

\* Whatever a limiter or the clock does.
LEMMA WindowStep == WindowInv /\ [WindowNext]_windowVars => WindowInv'
<1> SUFFICES ASSUME WindowInv, [WindowNext]_windowVars PROVE WindowInv'
  OBVIOUS
<1>1. CASE UNCHANGED windowVars
  BY <1>1 DEF windowVars, WindowInv, WindowTyped, SlidingInv, FixedInv,
              After, Within, Times, Total, Certain
<1> QED BY <1>1, WindowTickStep, FixedAllowStep, SlidingAllowStep, RefuseStep DEF WindowNext

\* The limits follow.
LEMMA WindowFollows == WindowInv => WindowsLimit
BY DEF WindowInv, SlidingInv, FixedInv, WindowsLimit, Within, Certain

-----------------------------------------------------------------------------
(* The token bucket of a key. *)

\* What was taken and what the bucket still holds were once the burst or came
\* with the time; a key without a bucket, or with one that cleanup has chosen,
\* has had time to fill a new one.
BucketInv ==
  /\ bucket \in [here : BOOLEAN, tokens : 0 .. BurstSize, update : 0 .. btime, access : 0 .. btime]
  /\ btime \in Nat /\ doomed \in BOOLEAN /\ racedTokens \in Nat /\ took \in Nat
  /\ bucket.access = bucket.update /\ (doomed => bucket.here)
  /\ bucket.here => took + bucket.tokens <= BurstSize + bucket.update + racedTokens
  /\ ~bucket.here \/ doomed => took <= btime + racedTokens

\* At first nobody used the key.
LEMMA BucketStart == BucketInit => BucketInv
<1> SUFFICES ASSUME BucketInit PROVE BucketInv
  OBVIOUS
<1>1. /\ NoBucket \in [here : BOOLEAN, tokens : 0 .. BurstSize, update : 0 .. 0, access : 0 .. 0]
      /\ ~NoBucket.here /\ NoBucket.access = NoBucket.update
  BY ResilienceAssumption DEF NoBucket
<1>2. bucket = NoBucket /\ btime = 0 /\ doomed = FALSE /\ racedTokens = 0 /\ took = 0
  BY DEF BucketInit
<1>3. doomed \in BOOLEAN /\ ~doomed
  BY <1>2, Zenon
<1> QED BY <1>1, <1>2, <1>3 DEF BucketInv

\* The bucket after a refill.
LEMMA RefillHolds ==
  ASSUME BucketInv
  PROVE  /\ Refilled \in [here : BOOLEAN, tokens : 0 .. BurstSize, update : 0 .. btime, access : 0 .. btime]
         /\ Refilled.here /\ Refilled.update = btime /\ Refilled.access = btime
         /\ took + Refilled.tokens <= BurstSize + btime + racedTokens
         /\ doomed => took <= btime + racedTokens
<1> DEFINE B == [here : BOOLEAN, tokens : 0 .. BurstSize, update : 0 .. btime, access : 0 .. btime]
<1>0. /\ bucket \in B /\ btime \in Nat /\ took \in Nat /\ racedTokens \in Nat /\ BurstSize \in Nat
      /\ bucket.here => took + bucket.tokens <= BurstSize + bucket.update + racedTokens
      /\ ~bucket.here => took <= btime + racedTokens
      /\ doomed => took <= btime + racedTokens
  BY ResilienceAssumption DEF BucketInv
<1>1. CASE ~bucket.here
  <2> DEFINE b == [here |-> TRUE, tokens |-> BurstSize, update |-> btime, access |-> btime]
  <2>1. b \in B /\ b.here /\ b.tokens = BurstSize /\ b.update = btime /\ b.access = btime
    BY <1>0
  <2>2. Refilled = b
    BY <1>1 DEF Refilled
  <2> HIDE DEF b
  <2>3. took + b.tokens <= BurstSize + btime + racedTokens
    BY <1>0, <1>1, <2>1
  <2> QED BY <1>0, <2>1, <2>2, <2>3
<1>2. CASE bucket.here
  <2> DEFINE n == IF bucket.tokens + (btime - bucket.update) > BurstSize THEN BurstSize
                  ELSE bucket.tokens + (btime - bucket.update)
             b == [bucket EXCEPT !.tokens = n, !.update = btime, !.access = btime]
  <2>1. n \in 0 .. BurstSize /\ n <= bucket.tokens + (btime - bucket.update)
    BY <1>0
  <2>2. Refilled = b
    BY <1>0, <1>2 DEF Refilled
  <2> HIDE DEF n
  <2>3. b \in B /\ b.here /\ b.tokens = n /\ b.update = btime /\ b.access = btime
    <3>1. PICK x \in BOOLEAN, y \in 0 .. BurstSize, z \in 0 .. btime, w \in 0 .. btime :
            bucket = [here |-> x, tokens |-> y, update |-> z, access |-> w]
      BY <1>0
    <3>2. b = [here |-> x, tokens |-> n, update |-> btime, access |-> btime]
      <4>1. b = [[here |-> x, tokens |-> y, update |-> z, access |-> w]
                   EXCEPT !.tokens = n, !.update = btime, !.access = btime]
        BY <3>1, Zenon
      <4> HIDE DEF b
      <4> QED BY <4>1
    <3>3. b.here /\ b.tokens = n /\ b.update = btime /\ b.access = btime
      BY <1>2, <3>1, <3>2
    <3>4. [here |-> x, tokens |-> n, update |-> btime, access |-> btime] \in B
      <4>1. btime \in 0 .. btime
        BY <1>0
      <4> QED BY <2>1, <4>1, Zenon
    <3> QED BY <3>2, <3>3, <3>4, Zenon
  <2> HIDE DEF b
  <2>4. took + b.tokens <= BurstSize + btime + racedTokens
    BY <1>0, <1>2, <2>1, <2>3
  <2> QED BY <1>0, <1>2, <2>2, <2>3, <2>4
<1> QED BY <1>1, <1>2

\* Every step of the limiter keeps the invariant.
LEMMA BucketStep == BucketInv /\ [BucketNext]_bucketVars => BucketInv'
<1> SUFFICES ASSUME BucketInv, [BucketNext]_bucketVars PROVE BucketInv'
  OBVIOUS
<1>0. /\ bucket \in [here : BOOLEAN, tokens : 0 .. BurstSize, update : 0 .. btime, access : 0 .. btime]
      /\ btime \in Nat /\ took \in Nat /\ racedTokens \in Nat /\ BurstSize \in Nat /\ doomed \in BOOLEAN
      /\ bucket.access = bucket.update /\ (doomed => bucket.here)
      /\ bucket.here => took + bucket.tokens <= BurstSize + bucket.update + racedTokens
      /\ ~bucket.here \/ doomed => took <= btime + racedTokens
  BY ResilienceAssumption DEF BucketInv
<1>1. CASE BucketTick
  <2>1. btime' = btime + 1 /\ UNCHANGED <<bucket, doomed, racedTokens, took>>
    BY <1>1 DEF BucketTick
  <2>2. bucket \in [here : BOOLEAN, tokens : 0 .. BurstSize, update : 0 .. btime', access : 0 .. btime']
    BY <1>0, <2>1
  <2> QED BY <1>0, <2>1, <2>2 DEF BucketInv
<1>2. CASE TakeToken
  <2> DEFINE B == [here : BOOLEAN, tokens : 0 .. BurstSize, update : 0 .. btime, access : 0 .. btime]
  <2>1. /\ Refilled \in B /\ Refilled.here /\ Refilled.update = btime /\ Refilled.access = btime
        /\ took + Refilled.tokens <= BurstSize + btime + racedTokens
        /\ doomed => took <= btime + racedTokens
    BY RefillHolds
  <2>2. btime' = btime /\ (doomed' <=> doomed)
    BY <1>2 DEF TakeToken
  <2>3. CASE /\ Refilled.tokens >= 1 /\ bucket' = [Refilled EXCEPT !.tokens = @ - 1]
             /\ took' = took + 1
             /\ racedTokens' = IF doomed THEN racedTokens + 1 ELSE racedTokens
    <3> DEFINE b == [Refilled EXCEPT !.tokens = @ - 1]
    <3>1. b \in B /\ (b.here <=> Refilled.here) /\ b.tokens = Refilled.tokens - 1 /\ b.update = btime /\ b.access = btime
      BY <1>0, <2>1, <2>3
    <3>2. bucket' = b
      BY <2>3
    <3> HIDE DEF b
    <3>3. racedTokens' \in {racedTokens, racedTokens + 1} /\ (doomed => racedTokens' = racedTokens + 1)
      BY <2>3
    <3>4. took' + b.tokens <= BurstSize + b.update + racedTokens'
      BY <1>0, <2>1, <2>3, <3>1, <3>3
    <3>5. doomed' => took' <= btime + racedTokens'
      BY <1>0, <2>1, <2>2, <2>3, <3>3
    <3>6. doomed' \in BOOLEAN /\ racedTokens' \in Nat /\ took' \in Nat
      <4>1. doomed' \in BOOLEAN
        BY <1>0, <2>2
      <4>2. racedTokens' \in Nat
        BY <1>0, <3>3
      <4> QED BY <1>0, <2>3, <4>1, <4>2
    <3> QED BY <1>0, <2>1, <2>2, <3>1, <3>2, <3>4, <3>5, <3>6 DEF BucketInv
  <2>4. CASE bucket' = Refilled /\ UNCHANGED <<took, racedTokens>>
    BY <1>0, <2>1, <2>2, <2>4 DEF BucketInv
  <2> QED BY <1>2, <2>3, <2>4 DEF TakeToken
<1>3. CASE ChooseIdle
  <2>1. /\ bucket.here /\ btime - bucket.access > BucketIdle /\ doomed' = TRUE
        /\ UNCHANGED <<btime, bucket, racedTokens, took>>
    BY <1>3 DEF ChooseIdle
  <2>2. doomed' /\ doomed' \in BOOLEAN
    BY <2>1, Zenon
  <2>3. took <= btime + racedTokens
    BY <1>0, <2>1, ResilienceAssumption
  <2> QED BY <1>0, <2>1, <2>2, <2>3 DEF BucketInv
<1>4. CASE DeleteIdle
  <2>1. doomed /\ doomed' = FALSE /\ bucket' = NoBucket /\ UNCHANGED <<btime, racedTokens, took>>
    BY <1>4 DEF DeleteIdle
  <2>2. ~doomed' /\ doomed' \in BOOLEAN
    BY <2>1, Zenon
  <2>3. /\ NoBucket \in [here : BOOLEAN, tokens : 0 .. BurstSize, update : 0 .. btime, access : 0 .. btime]
        /\ ~NoBucket.here /\ NoBucket.access = NoBucket.update
    BY <1>0 DEF NoBucket
  <2> QED BY <1>0, <2>1, <2>2, <2>3 DEF BucketInv
<1>5. CASE UNCHANGED bucketVars
  BY <1>5 DEF bucketVars, BucketInv
<1> QED BY <1>1, <1>2, <1>3, <1>4, <1>5 DEF BucketNext

\* The bound on what a key takes follows.
LEMMA BucketFollows == BucketInv => BucketHonest
BY ResilienceAssumption DEF BucketInv, BucketHonest

-----------------------------------------------------------------------------
(* The read pool. *)

PoolTyped ==
  /\ behind \in [ReplicaIds -> Nat]
  /\ conns \in [ReplicaIds -> [healthy : BOOLEAN, lag : Nat, vouched : BOOLEAN]]
  /\ lagCheck \in [ReplicaIds -> [at : {"none", "query", "healthy", "lag"}, age : Nat, lag : Nat]]
  /\ sinceTick \in Nat /\ rotation \in Nat

\* A check that is under way began at the last tick of the checker.
ChecksYoung ==
  \A r \in ReplicaIds :
    lagCheck[r].at # "none" => lagCheck[r].age = sinceTick /\ sinceTick <= LagTimeout

\* A replica has fallen behind by no more than the time since its lag was read.
LagsTrue ==
  \A r \in ReplicaIds :
    /\ lagCheck[r].at \in {"healthy", "lag"} => behind[r] <= lagCheck[r].lag + sinceTick
    /\ conns[r].healthy /\ conns[r].vouched
         => behind[r] <= conns[r].lag + sinceTick
                         + (IF lagCheck[r].at = "none" THEN 0 ELSE LagCheckInterval)

PoolInv ==
  PoolTyped /\ sinceTick <= LagCheckInterval /\ ChecksYoung /\ LagsTrue

\* The settings of the pool are numbers.
LEMMA PoolBounds ==
  /\ Replicas \in Nat /\ Replicas > 0 /\ MaxReplicationLag \in Nat
  /\ LagCheckInterval \in Nat /\ LagTimeout \in Nat /\ LagTimeout < LagCheckInterval
  /\ MaxBehind \in Nat
BY PoolAssumption DEF MaxBehind, FreshBound

\* A set of numbers from 0 to n has a least one.
LEMMA LeastOf ==
  ASSUME NEW S \in SUBSET Nat, S # {}
  PROVE  Min(S) \in S
<1> DEFINE R == OpToRel(<, Nat)
<1>1. PICK x \in S : \A y \in S : ~(<<y, x>> \in R)
  <2>1. IsWellFoundedOn(R, Nat)
    BY NatLessThanWellFounded
  <2> HIDE DEF R
  <2> QED BY <2>1, WFMin
<1>2. ASSUME NEW y \in S PROVE x <= y
  <2>1. x \in Nat /\ y \in Nat /\ ~(<<y, x>> \in R)
    BY <1>1
  <2>2. y < x => <<y, x>> \in R
    BY <2>1 DEF OpToRel
  <2> HIDE DEF R
  <2> QED BY <2>1, <2>2
<1> QED BY <1>2 DEF Min

\* At first every replica is up to date.
LEMMA PoolStart == PoolInit => PoolInv
BY PoolBounds DEF PoolInit, PoolInv, PoolTyped, ChecksYoung, LagsTrue, NoCheck

\* What concerns one replica.
LEMMA OneReplica ==
  ASSUME PoolInv, NEW r \in ReplicaIds
  PROVE  /\ behind[r] \in Nat /\ sinceTick \in Nat /\ sinceTick <= LagCheckInterval
         /\ conns[r] \in [healthy : BOOLEAN, lag : Nat, vouched : BOOLEAN]
         /\ lagCheck[r] \in [at : {"none", "query", "healthy", "lag"}, age : Nat, lag : Nat]
         /\ lagCheck[r].at # "none" => lagCheck[r].age = sinceTick /\ sinceTick <= LagTimeout
         /\ lagCheck[r].at \in {"healthy", "lag"} => behind[r] <= lagCheck[r].lag + sinceTick
         /\ conns[r].healthy /\ conns[r].vouched
              => behind[r] <= conns[r].lag + sinceTick
                              + (IF lagCheck[r].at = "none" THEN 0 ELSE LagCheckInterval)
BY DEF PoolInv, PoolTyped, ChecksYoung, LagsTrue

\* A replica stops to replay, or catches up.
LEMMA ReplicasFall ==
  ASSUME PoolInv, NEW r \in ReplicaIds, StallOrCatchUp(r)
  PROVE  PoolInv'
<1>1. /\ behind' \in [ReplicaIds -> Nat]
      /\ \A q \in ReplicaIds : behind'[q] <= behind[q]
  BY DEF PoolInv, PoolTyped, StallOrCatchUp
<1>2. UNCHANGED <<conns, lagCheck, sinceTick, rotation>>
  BY DEF StallOrCatchUp
<1>3. LagsTrue'
  <2> SUFFICES ASSUME NEW q \in ReplicaIds
      PROVE  /\ lagCheck[q].at \in {"healthy", "lag"} => behind'[q] <= lagCheck[q].lag + sinceTick
             /\ conns[q].healthy /\ conns[q].vouched
                  => behind'[q] <= conns[q].lag + sinceTick
                                  + (IF lagCheck[q].at = "none" THEN 0 ELSE LagCheckInterval)
    BY <1>2 DEF LagsTrue
  <2>1. behind'[q] \in Nat /\ behind'[q] <= behind[q]
    BY <1>1
  <2> QED BY <2>1, OneReplica, PoolBounds
<1> QED BY <1>1, <1>2, <1>3 DEF PoolInv, PoolTyped, ChecksYoung

\* Time passes: replicas and checks grow older by the same tick.
LEMMA PoolTickStep ==
  ASSUME PoolInv, PoolTick
  PROVE  PoolInv'
<1>1. /\ sinceTick < LagCheckInterval /\ sinceTick' = sinceTick + 1
      /\ UNCHANGED <<conns, rotation>>
  BY DEF PoolTick
<1>2. ASSUME NEW r \in ReplicaIds
      PROVE  /\ behind'[r] \in Nat /\ behind'[r] <= behind[r] + 1
             /\ lagCheck'[r] \in [at : {"none", "query", "healthy", "lag"}, age : Nat, lag : Nat]
             /\ lagCheck'[r].at = lagCheck[r].at
             /\ lagCheck[r].at # "none" =>
                  /\ lagCheck'[r].age = lagCheck[r].age + 1 /\ lagCheck'[r].lag = lagCheck[r].lag
                  /\ lagCheck[r].age < LagTimeout
  <2>1. behind'[r] = IF r \in stalled THEN Min({behind[r] + 1, MaxBehind}) ELSE behind[r]
    BY DEF PoolTick
  <2>2. behind[r] \in Nat /\ MaxBehind \in Nat
    BY OneReplica, PoolBounds
  <2>3. behind'[r] \in Nat /\ behind'[r] <= behind[r] + 1
    <3>1. Min({behind[r] + 1, MaxBehind}) \in Nat /\ Min({behind[r] + 1, MaxBehind}) <= behind[r] + 1
      <4>1. \E x \in {behind[r] + 1, MaxBehind} : \A y \in {behind[r] + 1, MaxBehind} : x <= y
        BY <2>2
      <4> QED BY <2>2, <4>1 DEF Min
    <3> QED BY <2>1, <2>2, <3>1
  <2>4. lagCheck'[r] = IF lagCheck[r].at = "none" THEN NoCheck
                       ELSE [lagCheck[r] EXCEPT !.age = @ + 1]
    BY DEF PoolTick
  <2>5. lagCheck[r].at # "none" => lagCheck[r].age < LagTimeout
    BY DEF PoolTick
  <2> QED BY <2>3, <2>4, <2>5, OneReplica DEF NoCheck
<1>3. PoolTyped'
  <2>1. behind' \in [ReplicaIds -> Nat]
    <3>1. behind' = [r \in ReplicaIds |-> behind'[r]]
      BY DEF PoolTick
    <3> QED BY <1>2, <3>1
  <2>2. lagCheck' \in [ReplicaIds -> [at : {"none", "query", "healthy", "lag"}, age : Nat, lag : Nat]]
    <3>1. lagCheck' = [r \in ReplicaIds |-> lagCheck'[r]]
      BY DEF PoolTick
    <3> QED BY <1>2, <3>1
  <2> QED BY <1>1, <2>1, <2>2 DEF PoolInv, PoolTyped
<1>4. ASSUME NEW r \in ReplicaIds
      PROVE  /\ lagCheck'[r].at # "none" => lagCheck'[r].age = sinceTick' /\ sinceTick' <= LagTimeout
             /\ lagCheck'[r].at \in {"healthy", "lag"} => behind'[r] <= lagCheck'[r].lag + sinceTick'
             /\ conns'[r].healthy /\ conns'[r].vouched
                  => behind'[r] <= conns'[r].lag + sinceTick'
                                  + (IF lagCheck'[r].at = "none" THEN 0 ELSE LagCheckInterval)
  <2>1. conns'[r] = conns[r]
    BY <1>1
  <2>2. lagCheck'[r].at # "none" => lagCheck'[r].age = sinceTick' /\ sinceTick' <= LagTimeout
    BY <1>1, <1>2, OneReplica, PoolBounds
  <2>3. lagCheck'[r].at \in {"healthy", "lag"} => behind'[r] <= lagCheck'[r].lag + sinceTick'
    BY <1>1, <1>2, OneReplica, PoolBounds
  <2>4. conns[r].healthy /\ conns[r].vouched
          => behind'[r] <= conns[r].lag + sinceTick'
                          + (IF lagCheck'[r].at = "none" THEN 0 ELSE LagCheckInterval)
    BY <1>1, <1>2, OneReplica, PoolBounds
  <2> QED BY <2>1, <2>2, <2>3, <2>4
<1>5. (sinceTick <= LagCheckInterval)'
  BY <1>1, PoolBounds DEF PoolInv, PoolTyped
<1> QED BY <1>3, <1>4, <1>5 DEF PoolInv, ChecksYoung, LagsTrue

\* The checks of the last round have ended when the checker fires.
LEMMA CheckerFires ==
  ASSUME PoolInv, CheckAllReplicaLag
  PROVE  PoolInv'
<1>1. /\ sinceTick = LagCheckInterval /\ sinceTick' = 0
      /\ lagCheck' = [r \in ReplicaIds |-> [NoCheck EXCEPT !.at = "query"]]
      /\ UNCHANGED <<behind, conns, rotation>>
  BY DEF CheckAllReplicaLag
<1>2. ASSUME NEW r \in ReplicaIds
      PROVE  /\ lagCheck'[r] = [at |-> "query", age |-> 0, lag |-> 0]
             /\ conns[r].healthy /\ conns[r].vouched
                  => behind[r] <= conns[r].lag + 0 + LagCheckInterval
  <2>1. lagCheck[r].at = "none"
    BY <1>1, OneReplica, PoolBounds
  <2> QED BY <1>1, <2>1, OneReplica DEF NoCheck
<1>3. PoolTyped'
  <2>1. lagCheck' \in [ReplicaIds -> [at : {"none", "query", "healthy", "lag"}, age : Nat, lag : Nat]]
    BY <1>1 DEF NoCheck
  <2> QED BY <1>1, <2>1 DEF PoolInv, PoolTyped
<1> QED BY <1>1, <1>2, <1>3, PoolBounds DEF PoolInv, ChecksYoung, LagsTrue

\* One replica's check moves on, and its connection may change.
LEMMA OneCheck ==
  ASSUME PoolInv, NEW r \in ReplicaIds, NEW k, NEW c,
         lagCheck' \in [ReplicaIds -> [at : {"none", "query", "healthy", "lag"}, age : Nat, lag : Nat]],
         conns' \in [ReplicaIds -> [healthy : BOOLEAN, lag : Nat, vouched : BOOLEAN]],
         lagCheck'[r] = k, conns'[r] = c,
         \A q \in ReplicaIds \ {r} : lagCheck'[q] = lagCheck[q] /\ conns'[q] = conns[q],
         UNCHANGED <<behind, sinceTick, rotation>>,
         k.at # "none" => k.age = sinceTick /\ sinceTick <= LagTimeout,
         k.at \in {"healthy", "lag"} => behind[r] <= k.lag + sinceTick,
         c.healthy /\ c.vouched
           => behind[r] <= c.lag + sinceTick + (IF k.at = "none" THEN 0 ELSE LagCheckInterval)
  PROVE  PoolInv'
<1>1. PoolTyped'
  BY DEF PoolInv, PoolTyped
<1>2. /\ lagCheck'[r] = k /\ conns'[r] = c
      /\ \A q \in ReplicaIds : q # r => lagCheck'[q] = lagCheck[q] /\ conns'[q] = conns[q]
  OBVIOUS
<1>3. ChecksYoung'
  BY <1>2 DEF PoolInv, ChecksYoung
<1>4. LagsTrue'
  BY <1>2 DEF PoolInv, LagsTrue
<1> QED BY <1>1, <1>3, <1>4 DEF PoolInv

\* The steps of a check.
LEMMA CheckSteps ==
  ASSUME PoolInv, NEW r \in ReplicaIds,
         QueryLag(r) \/ MarkUnhealthy(r) \/ StoreHealthy(r) \/ StoreLag(r)
  PROVE  PoolInv'
<1> DEFINE k == lagCheck'[r]
           c == conns'[r]
<1>1. /\ lagCheck \in [ReplicaIds -> [at : {"none", "query", "healthy", "lag"}, age : Nat, lag : Nat]]
      /\ conns \in [ReplicaIds -> [healthy : BOOLEAN, lag : Nat, vouched : BOOLEAN]]
      /\ UNCHANGED <<behind, sinceTick, rotation>>
  BY DEF PoolInv, PoolTyped, QueryLag, MarkUnhealthy, StoreHealthy, StoreLag
<1>2. CASE QueryLag(r)
  <2>1. /\ lagCheck[r].at = "query" /\ conns' = conns
        /\ lagCheck' = [lagCheck EXCEPT ![r] = [at |-> "healthy", age |-> lagCheck[r].age, lag |-> behind[r]]]
    BY <1>2 DEF QueryLag
  <2>2. /\ lagCheck' \in [ReplicaIds -> [at : {"none", "query", "healthy", "lag"}, age : Nat, lag : Nat]]
        /\ lagCheck'[r] = [at |-> "healthy", age |-> lagCheck[r].age, lag |-> behind[r]]
        /\ \A q \in ReplicaIds \ {r} : lagCheck'[q] = lagCheck[q]
    BY <1>1, <2>1, OneReplica
  <2> QED BY <1>1, <2>1, <2>2, OneReplica, OneCheck, PoolBounds
<1>3. ASSUME NEW d, NEW l, NEW h \in BOOLEAN, NEW v \in BOOLEAN, l \in Nat,
             d \in [at : {"none", "query", "healthy", "lag"}, age : Nat, lag : Nat],
             lagCheck' = [lagCheck EXCEPT ![r] = d],
             conns' = [conns EXCEPT ![r] = [healthy |-> h, lag |-> l, vouched |-> v]]
      PROVE  /\ lagCheck' \in [ReplicaIds -> [at : {"none", "query", "healthy", "lag"}, age : Nat, lag : Nat]]
             /\ conns' \in [ReplicaIds -> [healthy : BOOLEAN, lag : Nat, vouched : BOOLEAN]]
             /\ k = d /\ c.healthy = h /\ c.lag = l /\ c.vouched = v
             /\ \A q \in ReplicaIds \ {r} : lagCheck'[q] = lagCheck[q] /\ conns'[q] = conns[q]
  BY <1>1, <1>3
<1> DEFINE Told(d, h, l, v) ==
             /\ lagCheck' \in [ReplicaIds -> [at : {"none", "query", "healthy", "lag"}, age : Nat, lag : Nat]]
             /\ conns' \in [ReplicaIds -> [healthy : BOOLEAN, lag : Nat, vouched : BOOLEAN]]
             /\ k = d /\ c.healthy = h /\ c.lag = l /\ c.vouched = v
             /\ \A q \in ReplicaIds \ {r} : lagCheck'[q] = lagCheck[q] /\ conns'[q] = conns[q]
<1>4. CASE MarkUnhealthy(r)
  <2>1. /\ lagCheck' = [lagCheck EXCEPT ![r] = NoCheck]
        /\ conns' = [conns EXCEPT ![r] =
             [healthy |-> FALSE, lag |-> conns[r].lag, vouched |-> conns[r].vouched]]
    BY <1>4 DEF MarkUnhealthy
  <2>2. NoCheck \in [at : {"none", "query", "healthy", "lag"}, age : Nat, lag : Nat]
        /\ conns[r].lag \in Nat /\ conns[r].vouched \in BOOLEAN /\ NoCheck.at = "none"
    BY OneReplica DEF NoCheck
  <2>3. Told(NoCheck, FALSE, conns[r].lag, conns[r].vouched)
    BY <1>3, <2>1, <2>2, Zenon
  <2> QED BY <1>1, <2>2, <2>3, OneCheck
<1>5. CASE StoreHealthy(r)
  <2> DEFINE d == [at |-> "lag", age |-> lagCheck[r].age, lag |-> lagCheck[r].lag]
             v == conns[r].vouched /\ conns[r].healthy
  <2>1. /\ lagCheck[r].at = "healthy" /\ lagCheck' = [lagCheck EXCEPT ![r] = d]
        /\ conns' = [conns EXCEPT ![r] = [healthy |-> TRUE, lag |-> conns[r].lag, vouched |-> v]]
    BY <1>5 DEF StoreHealthy
  <2>2. d \in [at : {"none", "query", "healthy", "lag"}, age : Nat, lag : Nat]
        /\ conns[r].lag \in Nat /\ v \in BOOLEAN
        /\ d.at = "lag" /\ d.age = lagCheck[r].age /\ d.lag = lagCheck[r].lag
        /\ (v => conns[r].healthy /\ conns[r].vouched)
    BY OneReplica
  <2> HIDE DEF d, v
  <2>3. Told(d, TRUE, conns[r].lag, v)
    BY <1>3, <2>1, <2>2, Zenon
  <2>4. /\ d.at # "none" => d.age = sinceTick /\ sinceTick <= LagTimeout
        /\ d.at \in {"healthy", "lag"} => behind[r] <= d.lag + sinceTick
        /\ v => behind[r] <= conns[r].lag + sinceTick + LagCheckInterval
    BY <2>1, <2>2, OneReplica, PoolBounds
  <2> QED BY <1>1, <2>2, <2>3, <2>4, OneCheck
<1>6. CASE StoreLag(r)
  <2>1. /\ lagCheck[r].at = "lag" /\ lagCheck' = [lagCheck EXCEPT ![r] = NoCheck]
        /\ conns' = [conns EXCEPT ![r] =
             [healthy |-> conns[r].healthy, lag |-> lagCheck[r].lag, vouched |-> TRUE]]
    BY <1>6 DEF StoreLag
  <2>2. NoCheck \in [at : {"none", "query", "healthy", "lag"}, age : Nat, lag : Nat]
        /\ lagCheck[r].lag \in Nat /\ conns[r].healthy \in BOOLEAN /\ NoCheck.at = "none"
    BY OneReplica DEF NoCheck
  <2>3. Told(NoCheck, conns[r].healthy, lagCheck[r].lag, TRUE)
    BY <1>3, <2>1, <2>2, Zenon
  <2>4. behind[r] <= lagCheck[r].lag + sinceTick + 0
    BY <2>1, OneReplica
  <2> QED BY <1>1, <2>2, <2>3, <2>4, OneCheck
<1> QED BY <1>2, <1>4, <1>5, <1>6

\* A ping makes no replica both healthy and vouched for that was not.
LEMMA PingStep ==
  ASSUME PoolInv, HealthCheck
  PROVE  PoolInv'
<1>1. /\ UNCHANGED <<behind, lagCheck, sinceTick, rotation>>
      /\ conns' = [r \in ReplicaIds |->
           [healthy |-> r \notin unreachable, lag |-> conns[r].lag,
            vouched |-> conns[r].vouched /\ (conns[r].healthy \/ r \in unreachable)]]
  BY DEF HealthCheck
<1>2. ASSUME NEW r \in ReplicaIds
      PROVE  conns'[r] = [healthy |-> r \notin unreachable, lag |-> conns[r].lag,
                          vouched |-> conns[r].vouched /\ (conns[r].healthy \/ r \in unreachable)]
  BY <1>1, Zenon
<1>3. ASSUME NEW r \in ReplicaIds
      PROVE  /\ conns'[r] \in [healthy : BOOLEAN, lag : Nat, vouched : BOOLEAN]
             /\ conns'[r].lag = conns[r].lag
             /\ conns'[r].healthy /\ conns'[r].vouched => conns[r].healthy /\ conns[r].vouched
  <2> DEFINE a == r \notin unreachable
             b == conns[r].healthy \/ r \in unreachable
             d == conns[r].vouched /\ b
  <2>1. a \in BOOLEAN /\ d \in BOOLEAN /\ (a /\ d => conns[r].healthy /\ conns[r].vouched)
    BY OneReplica
  <2>2. conns'[r] = [healthy |-> a, lag |-> conns[r].lag, vouched |-> d]
    BY <1>2
  <2> HIDE DEF a, d
  <2> QED BY <2>1, <2>2, OneReplica
<1>4. conns' \in [ReplicaIds -> [healthy : BOOLEAN, lag : Nat, vouched : BOOLEAN]]
  <2>1. conns' = [r \in ReplicaIds |-> conns'[r]]
    BY <1>1, Zenon
  <2> QED BY <1>3, <2>1
<1> QED BY <1>1, <1>3, <1>4 DEF PoolInv, PoolTyped, ChecksYoung, LagsTrue

\* Whatever the replicas, the checker, the health endpoints and the readers do.
LEMMA PoolStep == PoolInv /\ [PoolNext]_poolVars => PoolInv'
<1> SUFFICES ASSUME PoolInv, [PoolNext]_poolVars PROVE PoolInv'
  OBVIOUS
<1>1. CASE UNCHANGED poolVars
  BY <1>1 DEF poolVars, PoolInv, PoolTyped, ChecksYoung, LagsTrue
<1>2. CASE Read
  <2>1. rotation' \in Nat
    BY <1>2, PoolBounds DEF Read, PoolInv, PoolTyped
  <2> QED BY <1>2, <2>1 DEF Read, PoolInv, PoolTyped, ChecksYoung, LagsTrue
<1>3. CASE ClosePool
  BY <1>3 DEF ClosePool, PoolInv, PoolTyped, ChecksYoung, LagsTrue
<1>4. ASSUME NEW r \in ReplicaIds, GoOrComeBack(r)
      PROVE  PoolInv'
  BY <1>4 DEF GoOrComeBack, PoolInv, PoolTyped, ChecksYoung, LagsTrue
<1> QED BY <1>1, <1>2, <1>3, <1>4, PoolTickStep, CheckerFires, PingStep, ReplicasFall, CheckSteps
        DEF PoolNext

\* A read goes to the primary or to one of the replicas.
LEMMA ReadsReplicas == PoolInv => Replica \ {Primary} \subseteq ReplicaIds
<1> SUFFICES ASSUME PoolInv PROVE Replica \ {Primary} \subseteq ReplicaIds
  OBVIOUS
<1> DEFINE turn(i) == (rotation + i) % Replicas
           fit == {i \in ReplicaIds : Eligible(turn(i))}
<1>1. fit \in SUBSET Nat
  BY PoolBounds DEF ReplicaIds
<1>2. fit # {} => Min(fit) \in Nat
  <2> HIDE DEF fit
  <2> QED BY <1>1, LeastOf
<1>3. \A i \in Nat : turn(i) \in ReplicaIds
  BY PoolBounds DEF PoolInv, PoolTyped, ReplicaIds
<1> QED BY <1>2, <1>3 DEF Replica

\* Freshness follows.
LEMMA PoolFollows == PoolInv => ReadsFresh
<1> SUFFICES ASSUME PoolInv, NEW r \in Replica \ {Primary}, Eligible(r), conns[r].vouched
             PROVE  behind[r] <= FreshBound
  BY DEF ReadsFresh
<1>1. r \in ReplicaIds
  BY ReadsReplicas
<1> QED BY <1>1, OneReplica, PoolBounds DEF Eligible, FreshBound

-----------------------------------------------------------------------------
(* What guards the admin panel.  A second factor is fresh while nothing    *)
(* has spent it: every factor of a credential to come, and of the one there *)
(* the counters above the last one, and the recovery code while it is unused. *)

MFAOps == {"idle", "enroll", "enrollVerify", "verify", "consume"}
MFAStages == {"none", "enroll", "verify", "enroll_verify"}

FreshFactor(g, k) ==
  \/ g > cred.gen
  \/ /\ g = cred.gen
     /\ \/ ~cred.there
        \/ k # 0 /\ cred.counter < k
        \/ k = 0 /\ rec

FactorTypes ==
  /\ chal \in [Challenges -> [stage : MFAStages, open : BOOLEAN, fp : 0 .. MaxChanges]]
  /\ nchal \in 0 .. MaxChallenges
  /\ cred \in [there : BOOLEAN, counter : Counters \cup {0}, gen : 0 .. MaxChanges, revoke : BOOLEAN]
  /\ rec \in BOOLEAN
  /\ fp \in 0 .. MaxChanges
  /\ amake \in [AdminWorkers -> [op : MFAOps, c : Challenges \cup {0}, k : Counters \cup {0},
                                 gen : 0 .. MaxChanges]]
  /\ entered \in [Challenges -> Nat]
  /\ spent \in [0 .. MaxChanges -> [Counters \cup {0} -> Nat]]

\* A request at work has a challenge, and one that enrols has a counter.
HandsFull ==
  \A w \in AdminWorkers :
    /\ amake[w].op # "idle" => amake[w].c \in Challenges
    /\ amake[w].op = "enrollVerify" => amake[w].k \in Counters

\* An open challenge has let nobody in, and one not issued is not open.
ChallengesSpent ==
  \A c \in Challenges :
    /\ entered[c] <= 1
    /\ chal[c].open => entered[c] = 0
    /\ c > nchal => ~chal[c].open /\ entered[c] = 0

\* Request w has spent counter k of credential g and not yet its challenge.
HoldsFactor(w, g, k) == amake[w].op = "consume" /\ amake[w].gen = g /\ amake[w].k = k

\* A factor is in the hands of one request at most; one still fresh, or in
\* hand, has let nobody in.
FactorsSpent ==
  \A g \in 0 .. MaxChanges, k \in Counters \cup {0} :
    /\ spent[g][k] <= 1
    /\ FreshFactor(g, k) => spent[g][k] = 0 /\ \A w \in AdminWorkers : ~HoldsFactor(w, g, k)
    /\ \A w \in AdminWorkers : HoldsFactor(w, g, k) => spent[g][k] = 0
    /\ \A w, v \in AdminWorkers : HoldsFactor(w, g, k) /\ HoldsFactor(v, g, k) => w = v

FactorInv == FactorTypes /\ HandsFull /\ ChallengesSpent /\ FactorsSpent

\* The bounds as natural numbers.
LEMMA AdminNat == MaxChallenges \in Nat /\ MaxChanges \in Nat
  BY AdminBounds

\* The factors are as they were while nothing touches them but the fingerprint.
LEMMA FactorsUntouched ==
  ASSUME FactorInv, UNCHANGED mfaVars, fp' \in 0 .. MaxChanges
  PROVE  FactorInv'
<1>1. /\ chal' = chal /\ nchal' = nchal /\ cred' = cred /\ rec' = rec /\ amake' = amake
      /\ entered' = entered /\ spent' = spent
  BY DEF mfaVars
<1>2. FactorTypes'
  BY <1>1 DEF FactorInv, FactorTypes
<1>3. HandsFull' /\ ChallengesSpent'
  BY <1>1 DEF FactorInv, HandsFull, ChallengesSpent
<1>4. FactorsSpent'
  BY <1>1 DEF FactorInv, FactorsSpent, FreshFactor, HoldsFactor
<1> QED BY <1>2, <1>3, <1>4 DEF FactorInv

\* Nothing is spent before the first challenge.
LEMMA FactorStart == AdminInit => FactorInv
<1> SUFFICES ASSUME AdminInit PROVE FactorInv
  OBVIOUS
<1> USE AdminNat DEF AdminInit, Challenges, Counters, AtRest
<1>1. FactorTypes
  <2>0. nchal \in 0 .. MaxChallenges /\ rec \in BOOLEAN /\ fp \in 0 .. MaxChanges
    <3>1. nchal = 0 /\ rec = FALSE /\ fp = 0
      OBVIOUS
    <3>2. 0 \in 0 .. MaxChallenges /\ 0 \in 0 .. MaxChanges
      OBVIOUS
    <3> QED BY <3>1, <3>2, Zenon
  <2>1. chal \in [Challenges -> [stage : MFAStages, open : BOOLEAN, fp : 0 .. MaxChanges]]
    <3>1. [stage |-> "none", open |-> FALSE, fp |-> 0] \in [stage : MFAStages, open : BOOLEAN, fp : 0 .. MaxChanges]
      BY DEF MFAStages
    <3> QED BY <3>1
  <2>2. cred \in [there : BOOLEAN, counter : Counters \cup {0}, gen : 0 .. MaxChanges, revoke : BOOLEAN]
    OBVIOUS
  <2>3. amake \in [AdminWorkers -> [op : MFAOps, c : Challenges \cup {0}, k : Counters \cup {0},
                                   gen : 0 .. MaxChanges]]
    BY DEF MFAOps
  <2>4. entered \in [Challenges -> Nat] /\ spent \in [0 .. MaxChanges -> [Counters \cup {0} -> Nat]]
    OBVIOUS
  <2> QED BY <2>0, <2>1, <2>2, <2>3, <2>4 DEF FactorTypes
<1>2. HandsFull /\ ChallengesSpent
  BY DEF HandsFull, ChallengesSpent
<1>3. FactorsSpent
  <2>1. \A w \in AdminWorkers : \A g, k : ~HoldsFactor(w, g, k)
    BY DEF HoldsFactor
  <2>2. \A g \in 0 .. MaxChanges, k \in Counters \cup {0} : spent[g][k] = 0
    OBVIOUS
  <2> QED BY <2>1, <2>2 DEF FactorsSpent
<1> QED BY <1>1, <1>2, <1>3 DEF FactorInv

\* What a request takes into its hands, or lets go of, is well-formed.
LEMMA HandsTyped ==
  ASSUME FactorTypes, NEW w \in AdminWorkers, NEW op \in MFAOps,
         NEW c \in Challenges \cup {0}, NEW k \in Counters \cup {0},
         Next1(w, op, c, k) \/ Rest(w)
  PROVE  amake' \in [AdminWorkers -> [op : MFAOps, c : Challenges \cup {0}, k : Counters \cup {0},
                                      gen : 0 .. MaxChanges]]
<1> USE AdminNat DEF FactorTypes
<1> DEFINE Request == [op : MFAOps, c : Challenges \cup {0}, k : Counters \cup {0}, gen : 0 .. MaxChanges]
<1>1. [op |-> op, c |-> c, k |-> k, gen |-> cred.gen] \in Request
  OBVIOUS
<1>2. AtRest \in Request
  BY DEF AtRest, MFAOps
<1>3. amake \in [AdminWorkers -> Request]
  OBVIOUS
<1> HIDE DEF Request
<1>4. amake' \in [AdminWorkers -> Request]
  BY <1>1, <1>2, <1>3 DEF Next1, Rest
<1> QED BY <1>4 DEF Request

\* Whatever issues a challenge, opens one that was not issued before.
LEMMA IssueKeeps ==
  ASSUME FactorInv, NEW stage \in MFAStages, Issue(stage), entered' = entered, fp' = fp
  PROVE  /\ chal' \in [Challenges -> [stage : MFAStages, open : BOOLEAN, fp : 0 .. MaxChanges]]
         /\ nchal' \in 0 .. MaxChallenges
         /\ ChallengesSpent'
<1> USE AdminNat DEF FactorInv, FactorTypes, Challenges, Issue
<1>1. nchal + 1 \in Challenges
  OBVIOUS
<1>2. chal' = [chal EXCEPT ![nchal + 1] = [stage |-> stage, open |-> TRUE, fp |-> fp]]
  OBVIOUS
<1>3. chal' \in [Challenges -> [stage : MFAStages, open : BOOLEAN, fp : 0 .. MaxChanges]]
  BY <1>1, <1>2
<1>4. ChallengesSpent'
  BY <1>1, <1>2, <1>3 DEF ChallengesSpent
<1> QED BY <1>3, <1>4

\* A request that holds no spent factor after a step, when no factor is spent
\* and no credential changed, disturbs nothing about the factors.
LEMMA FactorsKept ==
  ASSUME FactorInv, NEW w \in AdminWorkers, cred' = cred, rec' = rec, spent' = spent,
         NEW op \in MFAOps \ {"consume"}, NEW c, NEW k, Next1(w, op, c, k) \/ Rest(w)
  PROVE  FactorsSpent'
<1> USE DEF FactorInv, FactorTypes
<1>1. \A v \in AdminWorkers, g \in 0 .. MaxChanges, l \in Counters \cup {0} :
        HoldsFactor(v, g, l)' => HoldsFactor(v, g, l)
  <2> SUFFICES ASSUME NEW v \in AdminWorkers, NEW g, NEW l, HoldsFactor(v, g, l)'
               PROVE  HoldsFactor(v, g, l)
    OBVIOUS
  <2>1. v # w
    <3>1. amake'[w].op # "consume"
      BY DEF Next1, Rest, AtRest
    <3> QED BY <3>1 DEF HoldsFactor
  <2>2. amake'[v] = amake[v]
    BY <2>1 DEF Next1, Rest
  <2> QED BY <2>2 DEF HoldsFactor
<1>2. \A g \in 0 .. MaxChanges, l \in Counters \cup {0} : FreshFactor(g, l)' => FreshFactor(g, l)
  BY DEF FreshFactor
<1> QED BY <1>1, <1>2 DEF FactorsSpent

\* The second factor, step by step.
LEMMA FactorStep ==
  ASSUME FactorInv, MFANext PROVE FactorInv'
<1> USE AdminNat DEF FactorInv
<1>1. CASE AdminLogin
  <2>1. PICK s \in {"verify", "enroll"} : Issue(s)
    BY <1>1 DEF AdminLogin
  <2>2. /\ chal' \in [Challenges -> [stage : MFAStages, open : BOOLEAN, fp : 0 .. MaxChanges]]
        /\ nchal' \in 0 .. MaxChallenges
        /\ ChallengesSpent'
    BY <1>1, <2>1, IssueKeeps DEF AdminLogin, MFAStages
  <2>3. cred' = cred /\ rec' = rec /\ fp' = fp /\ amake' = amake /\ entered' = entered /\ spent' = spent
    BY <1>1 DEF AdminLogin
  <2>4. FactorTypes'
    BY <2>2, <2>3 DEF FactorTypes
  <2>5. HandsFull'
    BY <2>3 DEF HandsFull
  <2>6. FactorsSpent'
    BY <2>3 DEF FactorsSpent, FreshFactor, HoldsFactor
  <2> QED BY <2>2, <2>4, <2>5, <2>6
<1>2. CASE MFAReset
  <2>1. FactorTypes'
    <3>1. /\ chal' = chal /\ nchal' = nchal /\ fp' = fp /\ amake' = amake /\ entered' = entered
          /\ spent' = spent /\ rec' \in BOOLEAN
      BY <1>2 DEF MFAReset
    <3>2. cred' \in [there : BOOLEAN, counter : Counters \cup {0}, gen : 0 .. MaxChanges, revoke : BOOLEAN]
      BY <1>2 DEF MFAReset, FactorTypes
    <3> QED BY <3>1, <3>2 DEF FactorTypes
  <2>2. HandsFull' /\ ChallengesSpent'
    BY <1>2 DEF MFAReset, HandsFull, ChallengesSpent
  <2>3. \A g \in 0 .. MaxChanges, k \in Counters \cup {0} : FreshFactor(g, k)' => FreshFactor(g, k)
    BY <1>2 DEF MFAReset, FactorTypes, FreshFactor
  <2> QED BY <1>2, <2>1, <2>2, <2>3 DEF MFAReset, FactorsSpent, HoldsFactor
<1>3. CASE RevokeChallenges
  <2>1. FactorTypes' /\ ChallengesSpent'
    BY <1>3 DEF RevokeChallenges, FactorTypes, ChallengesSpent
  <2>2. HandsFull'
    BY <1>3 DEF RevokeChallenges, HandsFull
  <2>3. \A g \in 0 .. MaxChanges, k \in Counters \cup {0} : FreshFactor(g, k)' => FreshFactor(g, k)
    BY <1>3 DEF RevokeChallenges, FactorTypes, FreshFactor
  <2> QED BY <1>3, <2>1, <2>2, <2>3 DEF RevokeChallenges, FactorsSpent, HoldsFactor
<1>4. CASE FingerprintChanges
  <2>1. UNCHANGED mfaVars
    BY <1>4 DEF FingerprintChanges, mfaVars
  <2>2. fp' \in 0 .. MaxChanges
    BY <1>4 DEF FingerprintChanges, FactorTypes
  <2> QED BY <2>1, <2>2, FactorsUntouched
<1>5. ASSUME NEW w \in AdminWorkers, EnrollmentStart(w)
      PROVE  FactorInv'
  <2> DEFINE c == amake[w].c
  <2>0. c \in Challenges /\ fp' = fp
    BY <1>5 DEF EnrollmentStart, HandsFull
  <2>1. FactorsSpent'
    <3>1. "idle" \in MFAOps \ {"consume"} /\ Rest(w) /\ cred' = cred /\ rec' = rec /\ spent' = spent
      BY <1>5 DEF EnrollmentStart, MFAOps
    <3> QED BY <3>1, FactorsKept
  <2>2. amake' \in [AdminWorkers -> [op : MFAOps, c : Challenges \cup {0}, k : Counters \cup {0},
                                     gen : 0 .. MaxChanges]]
    <3>1. "idle" \in MFAOps /\ 0 \in Challenges \cup {0} /\ 0 \in Counters \cup {0} /\ Rest(w)
      BY <1>5 DEF EnrollmentStart, MFAOps
    <3> QED BY <3>1, HandsTyped
  <2>3. HandsFull'
    BY <1>5, <2>2 DEF EnrollmentStart, HandsFull, Rest, AtRest, FactorTypes
  <2>4. CASE ~chal[c].open
    <3>1. chal' = chal /\ nchal' = nchal /\ entered' = entered
      BY <1>5, <2>4 DEF EnrollmentStart
    <3> QED BY <1>5, <2>1, <2>2, <2>3, <3>1 DEF EnrollmentStart, FactorTypes, ChallengesSpent
  <2>5. CASE chal[c].open
    <3> DEFINE new == [stage |-> "enroll_verify", open |-> TRUE, fp |-> fp]
               Chal == [stage : MFAStages, open : BOOLEAN, fp : 0 .. MaxChanges]
    <3>1. /\ nchal' = nchal + 1 /\ nchal + 1 \in Challenges /\ entered' = entered
          /\ chal' = [chal EXCEPT ![c].open = FALSE, ![nchal + 1] = new]
      BY <1>5, <2>5 DEF EnrollmentStart, FactorTypes, Challenges
    <3>2. c <= nchal /\ c # nchal + 1
      BY <2>0, <2>5 DEF ChallengesSpent, FactorTypes, Challenges
    <3>3. new \in Chal
      BY DEF FactorTypes, MFAStages
    <3>4. chal' \in [Challenges -> Chal]
      <4>1. [chal EXCEPT ![c].open = FALSE] \in [Challenges -> Chal]
        BY <2>0 DEF FactorTypes
      <4> QED BY <3>1, <3>3, <4>1
    <3>5. \A d \in Challenges : chal'[d].open => chal[d].open \/ d = nchal + 1
      BY <2>0, <3>1 DEF FactorTypes
    <3>6. ~chal'[c].open
      BY <2>0, <3>1, <3>2 DEF FactorTypes
    <3>7. nchal \in Nat /\ Challenges \subseteq Nat
      BY DEF FactorTypes, Challenges
    <3>8. ChallengesSpent'
      <4> SUFFICES ASSUME NEW d \in Challenges
                   PROVE  /\ entered[d] <= 1
                          /\ chal'[d].open => entered[d] = 0
                          /\ d > nchal + 1 => ~chal'[d].open /\ entered[d] = 0
        BY <3>1 DEF ChallengesSpent
      <4>1. d = nchal + 1 => d > nchal
        BY <3>7
      <4>2. d > nchal + 1 => d > nchal /\ d # nchal + 1
        BY <3>7
      <4> QED BY <3>1, <3>5, <4>1, <4>2 DEF ChallengesSpent
    <3>9. FactorTypes'
      <4>1. nchal' \in 0 .. MaxChallenges
        BY <3>1, <3>7 DEF Challenges
      <4>2. cred' = cred /\ rec' = rec /\ fp' = fp /\ spent' = spent /\ entered' = entered
        BY <1>5, <3>1 DEF EnrollmentStart
      <4> QED BY <2>2, <3>4, <4>1, <4>2 DEF FactorTypes
    <3> QED BY <2>1, <2>3, <3>8, <3>9
  <2> QED BY <2>4, <2>5
<1>6. ASSUME NEW w \in AdminWorkers, EnrollmentVerify(w)
      PROVE  FactorInv'
  <2> DEFINE c == amake[w].c
             k == amake[w].k
  <2>0. c \in Challenges /\ k \in Counters /\ cred.gen \in 0 .. MaxChanges
    BY <1>6 DEF EnrollmentVerify, HandsFull, FactorTypes
  <2>1. amake' \in [AdminWorkers -> [op : MFAOps, c : Challenges \cup {0}, k : Counters \cup {0},
                                     gen : 0 .. MaxChanges]]
    <3>1. "idle" \in MFAOps /\ 0 \in Challenges \cup {0} /\ 0 \in Counters \cup {0} /\ Rest(w)
      BY <1>6 DEF EnrollmentVerify, MFAOps
    <3> QED BY <3>1, HandsTyped
  <2>2. HandsFull'
    BY <1>6, <2>1 DEF EnrollmentVerify, HandsFull, Rest, AtRest, FactorTypes
  <2>3. chal' = [chal EXCEPT ![c].open = FALSE] /\ nchal' = nchal /\ fp' = fp
    BY <1>6 DEF EnrollmentVerify
  <2>4. /\ chal' \in [Challenges -> [stage : MFAStages, open : BOOLEAN, fp : 0 .. MaxChanges]]
        /\ \A d \in Challenges : chal'[d].open => chal[d].open /\ d # c
    BY <2>0, <2>3 DEF FactorTypes
  <2>5. CASE ~(chal[c].open /\ ~cred.there)
    <3>1. Rest(w) /\ cred' = cred /\ rec' = rec /\ spent' = spent /\ entered' = entered
      BY <1>6, <2>5 DEF EnrollmentVerify
    <3>2. FactorsSpent'
      <4>1. "idle" \in MFAOps \ {"consume"}
        BY DEF MFAOps
      <4> QED BY <3>1, <4>1, FactorsKept
    <3>3. FactorTypes'
      BY <2>1, <2>3, <2>4, <3>1 DEF FactorTypes
    <3>4. ChallengesSpent'
      BY <2>3, <2>4, <3>1 DEF ChallengesSpent
    <3> QED BY <2>2, <3>2, <3>3, <3>4
  <2>6. CASE chal[c].open /\ ~cred.there
    <3>1. /\ cred' = [cred EXCEPT !.there = TRUE, !.counter = k]
          /\ rec' = TRUE
          /\ entered' = [entered EXCEPT ![c] = @ + 1]
          /\ spent' = [spent EXCEPT ![cred.gen][k] = @ + 1]
      BY <1>6, <2>6 DEF EnrollmentVerify
    <3>2. FactorTypes'
      <4>1. cred' \in [there : BOOLEAN, counter : Counters \cup {0}, gen : 0 .. MaxChanges, revoke : BOOLEAN]
        BY <2>0, <3>1 DEF FactorTypes
      <4>2. entered' \in [Challenges -> Nat]
        <5>1. entered \in [Challenges -> Nat] /\ entered[c] + 1 \in Nat
          BY <2>0 DEF FactorTypes
        <5> HIDE DEF c
        <5> QED BY <2>0, <3>1, <5>1
      <4>3. spent' \in [0 .. MaxChanges -> [Counters \cup {0} -> Nat]]
        <5>1. spent[cred.gen] \in [Counters \cup {0} -> Nat]
          BY <2>0 DEF FactorTypes
        <5>2. [spent[cred.gen] EXCEPT ![k] = @ + 1] \in [Counters \cup {0} -> Nat]
          BY <2>0, <5>1
        <5>3. spent' = [spent EXCEPT ![cred.gen] = [spent[cred.gen] EXCEPT ![k] = @ + 1]]
          BY <3>1
        <5>4. spent \in [0 .. MaxChanges -> [Counters \cup {0} -> Nat]]
          BY DEF FactorTypes
        <5> QED BY <2>0, <5>2, <5>3, <5>4
      <4> QED BY <2>1, <2>3, <2>4, <3>1, <4>1, <4>2, <4>3 DEF FactorTypes
    <3>3. ChallengesSpent'
      <4>1. \A d \in Challenges : entered'[d] = IF d = c THEN entered[d] + 1 ELSE entered[d]
        BY <3>1 DEF FactorTypes
      <4>2. entered[c] = 0 /\ ~(c > nchal)
        BY <2>0, <2>6 DEF ChallengesSpent
      <4> HIDE DEF c
      <4> QED BY <2>3, <2>4, <4>1, <4>2 DEF ChallengesSpent
    <3>4. FreshFactor(cred.gen, k)
      BY <2>6 DEF FreshFactor
    <3>5. \A g \in 0 .. MaxChanges, l \in Counters \cup {0} :
            FreshFactor(g, l)' => FreshFactor(g, l) /\ ~(g = cred.gen /\ l = k)
      BY <2>0, <2>6, <3>1 DEF FreshFactor, FactorTypes, Counters
    <3>6. \A g \in 0 .. MaxChanges, l \in Counters \cup {0} :
            spent'[g][l] = IF g = cred.gen /\ l = k THEN spent[g][l] + 1 ELSE spent[g][l]
      BY <2>0, <3>1 DEF FactorTypes
    <3>7. \A v \in AdminWorkers, g \in 0 .. MaxChanges, l \in Counters \cup {0} :
            HoldsFactor(v, g, l)' => HoldsFactor(v, g, l)
      <4> SUFFICES ASSUME NEW v \in AdminWorkers, NEW g, NEW l, HoldsFactor(v, g, l)'
                   PROVE  HoldsFactor(v, g, l)
        OBVIOUS
      <4>1. v # w
        <5>1. amake'[w].op # "consume"
          BY <1>6 DEF EnrollmentVerify, Rest, AtRest, FactorTypes
        <5> QED BY <5>1 DEF HoldsFactor
      <4>2. amake'[v] = amake[v]
        BY <1>6, <4>1 DEF EnrollmentVerify, Rest, FactorTypes
      <4> QED BY <4>2 DEF HoldsFactor
    <3>8. FactorsSpent'
      BY <2>0, <3>4, <3>5, <3>6, <3>7 DEF FactorsSpent
    <3> QED BY <2>2, <3>2, <3>3, <3>8
  <2> QED BY <2>5, <2>6
<1>7. ASSUME NEW w \in AdminWorkers, SpendFactor(w)
      PROVE  FactorInv'
  <2> DEFINE c == amake[w].c
             k == amake[w].k
             g == cred.gen
  <2>0. c \in Challenges /\ k \in Counters \cup {0} /\ g \in 0 .. MaxChanges
    BY <1>7 DEF SpendFactor, HandsFull, FactorTypes
  <2>1. chal' = chal /\ nchal' = nchal /\ fp' = fp /\ entered' = entered /\ spent' = spent
    BY <1>7 DEF SpendFactor
  <2>2. ChallengesSpent'
    BY <2>1 DEF ChallengesSpent
  <2>3. Next1(w, "consume", c, k) \/ Rest(w)
    BY <1>7 DEF SpendFactor
  <2>4. amake' \in [AdminWorkers -> [op : MFAOps, c : Challenges \cup {0}, k : Counters \cup {0},
                                     gen : 0 .. MaxChanges]]
    <3>1. "consume" \in MFAOps /\ c \in Challenges \cup {0}
      BY <2>0 DEF MFAOps
    <3> HIDE DEF c, k
    <3> QED BY <2>0, <2>3, <3>1, HandsTyped
  <2>5. HandsFull'
    <3>1. \A v \in AdminWorkers \ {w} : amake'[v] = amake[v]
      BY <2>3 DEF Next1, Rest, FactorTypes
    <3>2. amake'[w].op # "enrollVerify" /\ (amake'[w].op = "idle" \/ amake'[w].c \in Challenges)
      <4>1. CASE Rest(w)
        BY <4>1 DEF Rest, AtRest, FactorTypes
      <4>2. CASE Next1(w, "consume", c, k)
        BY <2>0, <4>2 DEF Next1, FactorTypes
      <4> QED BY <2>3, <4>1, <4>2
    <3> QED BY <3>1, <3>2 DEF HandsFull
  <2>6. CASE Rest(w) /\ cred' = cred /\ rec' = rec
    <3>1. "idle" \in MFAOps \ {"consume"}
      BY DEF MFAOps
    <3>2. FactorsSpent'
      BY <2>1, <2>6, <3>1, FactorsKept
    <3> QED BY <2>1, <2>2, <2>4, <2>5, <2>6, <3>2 DEF FactorTypes
  <2>7. CASE /\ Next1(w, "consume", c, k) /\ FreshFactor(g, k) /\ cred.there
             /\ \/ k # 0 /\ cred' = [cred EXCEPT !.counter = k] /\ cred.counter < k /\ rec' = rec
                \/ k = 0 /\ cred' = cred /\ rec' = FALSE
    <3>1. FactorTypes'
      <4>1. cred' \in [there : BOOLEAN, counter : Counters \cup {0}, gen : 0 .. MaxChanges, revoke : BOOLEAN]
            /\ rec' \in BOOLEAN
        BY <2>0, <2>7 DEF FactorTypes
      <4> QED BY <2>1, <2>4, <4>1 DEF FactorTypes
    <3>2. \A h \in 0 .. MaxChanges, l \in Counters \cup {0} :
            FreshFactor(h, l)' => FreshFactor(h, l) /\ ~(h = g /\ l = k)
      <4>1. cred.counter \in Int /\ cred.gen \in Int
        BY DEF FactorTypes, Counters
      <4>2. CASE k # 0 /\ cred' = [cred EXCEPT !.counter = k] /\ cred.counter < k /\ rec' = rec
        <5>1. cred'.there = cred.there /\ cred'.gen = cred.gen /\ cred'.counter = k
          BY <4>2 DEF FactorTypes
        <5>2. k \in Int /\ Counters \cup {0} \subseteq Int
          BY <2>0 DEF Counters
        <5> HIDE DEF k
        <5> QED BY <2>7, <4>1, <4>2, <5>1, <5>2 DEF FreshFactor
      <4>3. CASE k = 0 /\ cred' = cred /\ rec' = FALSE
        BY <2>7, <4>1, <4>3 DEF FreshFactor
      <4> QED BY <2>7, <4>2, <4>3
    <3>3. \A v \in AdminWorkers, h \in 0 .. MaxChanges, l \in Counters \cup {0} :
            HoldsFactor(v, h, l)' => IF v = w THEN h = g /\ l = k ELSE HoldsFactor(v, h, l)
      <4> SUFFICES ASSUME NEW v \in AdminWorkers, NEW h, NEW l, HoldsFactor(v, h, l)'
                   PROVE  IF v = w THEN h = g /\ l = k ELSE HoldsFactor(v, h, l)
        OBVIOUS
      <4>1. CASE v = w
        <5>1. amake'[w].gen = g /\ amake'[w].k = k
          BY <2>7 DEF Next1, FactorTypes
        <5> QED BY <4>1, <5>1 DEF HoldsFactor
      <4>2. CASE v # w
        <5>1. amake'[v] = amake[v]
          BY <2>7, <4>2 DEF Next1, FactorTypes
        <5> QED BY <4>2, <5>1 DEF HoldsFactor
      <4> QED BY <4>1, <4>2
    <3>4. FactorsSpent'
      BY <2>0, <2>1, <2>7, <3>2, <3>3 DEF FactorsSpent
    <3> QED BY <2>2, <2>5, <3>1, <3>4
  <2>8. QED BY <1>7, <2>6, <2>7 DEF SpendFactor, FreshFactor
<1>8. ASSUME NEW w \in AdminWorkers, MFAVerify(w)
      PROVE  FactorInv'
  <2> DEFINE c == amake[w].c
             k == amake[w].k
             g == amake[w].gen
  <2>0. c \in Challenges /\ k \in Counters \cup {0} /\ g \in 0 .. MaxChanges /\ HoldsFactor(w, g, k)
    BY <1>8 DEF MFAVerify, HandsFull, FactorTypes, HoldsFactor
  <2>1. amake' \in [AdminWorkers -> [op : MFAOps, c : Challenges \cup {0}, k : Counters \cup {0},
                                     gen : 0 .. MaxChanges]]
    <3>1. "idle" \in MFAOps /\ 0 \in Challenges \cup {0} /\ 0 \in Counters \cup {0} /\ Rest(w)
      BY <1>8 DEF MFAVerify, MFAOps
    <3> QED BY <3>1, HandsTyped
  <2>2. HandsFull'
    BY <1>8, <2>1 DEF MFAVerify, HandsFull, Rest, AtRest, FactorTypes
  <2>3. /\ chal' = [chal EXCEPT ![c].open = FALSE]
        /\ nchal' = nchal /\ cred' = cred /\ rec' = rec /\ fp' = fp /\ Rest(w)
    BY <1>8 DEF MFAVerify
  <2>4. /\ chal' \in [Challenges -> [stage : MFAStages, open : BOOLEAN, fp : 0 .. MaxChanges]]
        /\ \A d \in Challenges : chal'[d].open => chal[d].open /\ d # c
    BY <2>0, <2>3 DEF FactorTypes
  <2>5. CASE ~chal[c].open
    <3>1. spent' = spent /\ entered' = entered
      BY <1>8, <2>5 DEF MFAVerify
    <3>2. FactorsSpent'
      <4>1. "idle" \in MFAOps \ {"consume"}
        BY DEF MFAOps
      <4> QED BY <2>3, <3>1, <4>1, FactorsKept
    <3>3. FactorTypes'
      BY <2>1, <2>3, <2>4, <3>1 DEF FactorTypes
    <3>4. ChallengesSpent'
      BY <2>3, <2>4, <3>1 DEF ChallengesSpent
    <3> QED BY <2>2, <3>2, <3>3, <3>4
  <2>6. CASE chal[c].open
    <3>1. /\ entered' = [entered EXCEPT ![c] = @ + 1]
          /\ spent' = [spent EXCEPT ![g][k] = @ + 1]
      BY <1>8, <2>6 DEF MFAVerify
    <3>2. FactorTypes'
      <4>1. entered' \in [Challenges -> Nat]
        <5>1. entered \in [Challenges -> Nat] /\ entered[c] + 1 \in Nat
          BY <2>0 DEF FactorTypes
        <5> HIDE DEF c
        <5> QED BY <2>0, <3>1, <5>1
      <4>2. spent' \in [0 .. MaxChanges -> [Counters \cup {0} -> Nat]]
        <5>1. spent[g] \in [Counters \cup {0} -> Nat]
          BY <2>0 DEF FactorTypes
        <5>2. [spent[g] EXCEPT ![k] = @ + 1] \in [Counters \cup {0} -> Nat]
          BY <2>0, <5>1
        <5>3. spent' = [spent EXCEPT ![g] = [spent[g] EXCEPT ![k] = @ + 1]]
          BY <3>1
        <5>4. spent \in [0 .. MaxChanges -> [Counters \cup {0} -> Nat]]
          BY DEF FactorTypes
        <5> QED BY <2>0, <5>2, <5>3, <5>4
      <4> QED BY <2>1, <2>3, <2>4, <4>1, <4>2 DEF FactorTypes
    <3>3. ChallengesSpent'
      <4>1. \A d \in Challenges : entered'[d] = IF d = c THEN entered[d] + 1 ELSE entered[d]
        BY <3>1 DEF FactorTypes
      <4>2. entered[c] = 0 /\ ~(c > nchal)
        BY <2>0, <2>6 DEF ChallengesSpent
      <4> HIDE DEF c
      <4> QED BY <2>3, <2>4, <4>1, <4>2 DEF ChallengesSpent
    <3>4. \A h \in 0 .. MaxChanges, l \in Counters \cup {0} : FreshFactor(h, l)' => FreshFactor(h, l)
      BY <2>3 DEF FreshFactor
    <3>5. \A h \in 0 .. MaxChanges, l \in Counters \cup {0} :
            spent'[h][l] = IF h = g /\ l = k THEN spent[h][l] + 1 ELSE spent[h][l]
      BY <2>0, <3>1 DEF FactorTypes
    <3>6. \A v \in AdminWorkers, h \in 0 .. MaxChanges, l \in Counters \cup {0} :
            HoldsFactor(v, h, l)' => v # w /\ HoldsFactor(v, h, l)
      <4> SUFFICES ASSUME NEW v \in AdminWorkers, NEW h, NEW l, HoldsFactor(v, h, l)'
                   PROVE  v # w /\ HoldsFactor(v, h, l)
        OBVIOUS
      <4>1. v # w
        <5>1. amake'[w].op # "consume"
          BY <2>3 DEF Rest, AtRest, FactorTypes
        <5> QED BY <5>1 DEF HoldsFactor
      <4>2. amake'[v] = amake[v]
        BY <2>3, <4>1 DEF Rest, FactorTypes
      <4> QED BY <4>1, <4>2 DEF HoldsFactor
    <3>7. spent[g][k] = 0
      BY <2>0 DEF FactorsSpent
    <3>8. FactorsSpent'
      BY <2>0, <3>4, <3>5, <3>6, <3>7 DEF FactorsSpent
    <3> QED BY <2>2, <3>2, <3>3, <3>8
  <2> QED BY <2>5, <2>6
<1>9. ASSUME NEW w \in AdminWorkers, NEW c \in Challenges,
             \/ BeginEnrollment(w, c)
             \/ \E k \in Counters : BeginEnrollmentVerify(w, c, k)
             \/ \E k \in Counters \cup {0} : BeginMFAVerify(w, c, k)
      PROVE  FactorInv'
  <2>1. PICK op \in MFAOps \ {"idle", "consume"}, k \in Counters \cup {0} :
          Next1(w, op, c, k) /\ (op = "enrollVerify" => k \in Counters)
    BY <1>9 DEF BeginEnrollment, BeginEnrollmentVerify, BeginMFAVerify, MFAOps
  <2>2. /\ chal' = chal /\ nchal' = nchal /\ cred' = cred /\ rec' = rec /\ fp' = fp
        /\ entered' = entered /\ spent' = spent
    BY <1>9 DEF BeginEnrollment, BeginEnrollmentVerify, BeginMFAVerify
  <2>3. amake' \in [AdminWorkers -> [op : MFAOps, c : Challenges \cup {0}, k : Counters \cup {0},
                                     gen : 0 .. MaxChanges]]
    <3>1. op \in MFAOps /\ c \in Challenges \cup {0}
      OBVIOUS
    <3> QED BY <2>1, <3>1, HandsTyped
  <2>4. HandsFull'
    BY <2>1, <2>3 DEF HandsFull, Next1, FactorTypes
  <2>5. FactorsSpent'
    <3>1. op \in MFAOps \ {"consume"}
      OBVIOUS
    <3> QED BY <2>1, <2>2, <3>1, FactorsKept
  <2> QED BY <2>2, <2>3, <2>4, <2>5 DEF FactorTypes, ChallengesSpent
<1> QED BY <1>1, <1>2, <1>3, <1>4, <1>5, <1>6, <1>7, <1>8, <1>9 DEF MFANext

\* A grant still there was made and has paid for nothing; one not made yet, too.
GrantInv ==
  /\ grant \in [Grants -> [there : BOOLEAN, listed : BOOLEAN, made : BOOLEAN, fp : 0 .. MaxChanges]]
  /\ fp \in 0 .. MaxChanges
  /\ acted \in [Grants -> Nat]
  /\ \A g \in Grants :
       /\ acted[g] <= 1
       /\ grant[g].there => grant[g].made /\ acted[g] = 0
       /\ ~grant[g].made => acted[g] = 0

\* Whoever sees an account suspended for good sees no end of the suspension.
AccountInv == PermanentBanStays

AdminInv == FactorInv /\ GrantInv /\ AccountInv

\* No grant is there, and the account is active, at the start.
LEMMA AdminStart == AdminInit => AdminInv
<1> SUFFICES ASSUME AdminInit PROVE AdminInv
  OBVIOUS
<1>1. FactorInv
  BY FactorStart
<1>2. GrantInv
  <2>1. grant \in [Grants -> [there : BOOLEAN, listed : BOOLEAN, made : BOOLEAN, fp : 0 .. MaxChanges]]
    BY AdminNat DEF AdminInit
  <2> QED BY <2>1, AdminNat DEF AdminInit, GrantInv
<1>3. AccountInv
  BY DEF AdminInit, AccountInv, PermanentBanStays
<1> QED BY <1>1, <1>2, <1>3 DEF AdminInv

\* A grant is consumed once: what is there is taken before it is judged.
LEMMA GrantStep ==
  ASSUME GrantInv, GrantNext PROVE GrantInv'
<1> USE AdminNat DEF GrantInv
<1> DEFINE Grant == [there : BOOLEAN, listed : BOOLEAN, made : BOOLEAN, fp : 0 .. MaxChanges]
<1>1. ASSUME NEW g \in Grants, IssueGrant(g) PROVE GrantInv'
  <2> DEFINE new == [there |-> TRUE, listed |-> FALSE, made |-> TRUE, fp |-> fp]
  <2>1. new \in Grant
    OBVIOUS
  <2>2. /\ grant' = [grant EXCEPT ![g] = new] /\ fp' = fp /\ acted' = acted
        /\ acted[g] = 0
    BY <1>1 DEF IssueGrant
  <2>3. grant' \in [Grants -> Grant]
    BY <2>1, <2>2
  <2>4. new.there /\ new.made
    OBVIOUS
  <2> HIDE DEF new
  <2> QED BY <2>2, <2>3, <2>4
<1>2. ASSUME NEW g \in Grants, ListGrant(g) PROVE GrantInv'
  <2>1. grant' = [grant EXCEPT ![g].listed = TRUE] /\ fp' = fp /\ acted' = acted
    BY <1>2 DEF ListGrant
  <2>2. grant' \in [Grants -> Grant]
    BY <2>1
  <2>3. \A h \in Grants : grant'[h].there = grant[h].there /\ grant'[h].made = grant[h].made
    BY <2>1
  <2> QED BY <2>1, <2>2, <2>3
<1>3. ASSUME NEW g \in Grants, ConsumeGrant(g) PROVE GrantInv'
  <2>1. /\ grant' = [grant EXCEPT ![g].there = FALSE, ![g].listed = FALSE] /\ fp' = fp
        /\ acted' = [acted EXCEPT ![g] = IF grant[g].fp = fp THEN @ + 1 ELSE @]
        /\ grant[g].made /\ acted[g] = 0
    BY <1>3 DEF ConsumeGrant
  <2>2. grant' \in [Grants -> Grant]
    BY <2>1
  <2>3. \A h \in Grants : /\ grant'[h].there => grant[h].there /\ h # g
                          /\ grant'[h].made = grant[h].made
    BY <2>1
  <2>4. acted' \in [Grants -> Nat] /\ acted'[g] <= 1 /\ \A h \in Grants \ {g} : acted'[h] = acted[h]
    BY <2>1
  <2> QED BY <2>1, <2>2, <2>3, <2>4
<1>4. CASE UpdateUserRoles
  BY <1>4 DEF UpdateUserRoles
<1>5. CASE RevokeActor
  <2>1. CASE grant' = grant /\ fp' = fp /\ acted' = acted
    BY <2>1
  <2>2. CASE /\ grant' = [g \in Grants |-> [grant[g] EXCEPT !.there = @ /\ g \notin gwork.list, !.listed = FALSE]]
             /\ fp' = fp /\ acted' = acted
    <3>1. grant' \in [Grants -> Grant]
      BY <2>2
    <3>2. \A h \in Grants : (grant'[h].there => grant[h].there) /\ grant'[h].made = grant[h].made
      BY <2>2
    <3> QED BY <2>2, <3>1, <3>2
  <2> QED BY <1>5, <2>1, <2>2 DEF RevokeActor
<1> QED BY <1>1, <1>2, <1>3, <1>4, <1>5 DEF GrantNext

\* A ban writes its end with the status, and whoever changes the status alone
\* puts its own name on the suspension.
LEMMA AccountStep ==
  ASSUME AccountInv, AccountNext PROVE AccountInv'
<1> USE DEF AccountInv, PermanentBanStays
<1>1. CASE UNCHANGED account
  BY <1>1
<1>2. CASE \E f \in BOOLEAN : BanUser(f)
  BY <1>2 DEF BanUser
<1>3. CASE \E s \in {"active", "suspended"} : UpdateUserStatus(s)
  <2>1. account'.by # "permanentBan"
    BY <1>3 DEF UpdateUserStatus
  <2> QED BY <2>1
<1>4. CASE UnbanUser \/ SweepBans
  BY <1>4 DEF UnbanUser, SweepBans
<1>5. CASE BanEnds
  BY <1>5 DEF BanEnds
<1> QED BY <1>1, <1>2, <1>3, <1>4, <1>5
        DEF AccountNext, CheckLockout, LoginFails, LoginSucceeds, LockoutExpires

\* A step of the admin panel is a step of one of its guards, and the security
\* fingerprint is all they share.
LEMMA AdminStep ==
  ASSUME AdminInv,
         \/ MFANext /\ UNCHANGED <<grantVars, lockout, account>>
         \/ GrantNext /\ UNCHANGED <<mfaVars, lockout, account>>
         \/ AccountNext /\ UNCHANGED <<mfaVars, fp, grantVars>>
         \/ UNCHANGED adminVars
  PROVE  AdminInv'
<1> USE DEF AdminInv
<1>1. CASE MFANext /\ UNCHANGED <<grantVars, lockout, account>>
  <2>1. FactorInv'
    BY <1>1, FactorStep
  <2>2. GrantInv'
    BY <1>1, <2>1 DEF GrantInv, FactorInv, FactorTypes, grantVars
  <2> QED BY <1>1, <2>1, <2>2 DEF AccountInv, PermanentBanStays
<1>2. CASE GrantNext /\ UNCHANGED <<mfaVars, lockout, account>>
  <2>1. GrantInv'
    BY <1>2, GrantStep
  <2>2. FactorInv'
    BY <1>2, <2>1, FactorsUntouched DEF GrantInv
  <2> QED BY <1>2, <2>1, <2>2 DEF AccountInv, PermanentBanStays
<1>3. CASE AccountNext /\ UNCHANGED <<mfaVars, fp, grantVars>>
  <2>1. FactorInv'
    BY <1>3, FactorsUntouched DEF FactorInv, FactorTypes
  <2>2. GrantInv'
    BY <1>3 DEF GrantInv, grantVars
  <2> QED BY <1>3, <2>1, <2>2, AccountStep
<1>4. CASE UNCHANGED adminVars
  <2>1. FactorInv'
    BY <1>4, FactorsUntouched DEF adminVars, mfaVars, FactorInv, FactorTypes
  <2>2. GrantInv' /\ AccountInv'
    BY <1>4 DEF adminVars, GrantInv, AccountInv, PermanentBanStays
  <2> QED BY <2>1, <2>2
<1> QED BY <1>1, <1>2, <1>3, <1>4

\* The invariant says what the runs check.
LEMMA AdminFollows == AdminInv => FactorSpentOnce /\ GrantPaysOnce /\ PermanentBanStays
  BY DEF AdminInv, FactorInv, ChallengesSpent, FactorsSpent, GrantInv, AccountInv,
         FactorSpentOnce, GrantPaysOnce

-----------------------------------------------------------------------------
(* Sessions, the second factor and registration.  A session number is       *)
(* given out once, so whatever is revoked or still in some request's hands  *)
(* is not the number of a session to come.                                  *)

SessionKnown(s) == s \in SessionIds /\ s <= logins

SessionOps == {"idle", "list", "listUnlocked", "create", "createUnlocked", "refresh", "store",
               "seen", "touch", "deleteAll", "purge", "deleteOthers"}

SessionTypes ==
  /\ sess \in [SessionIds -> [uid : BOOLEAN, there : BOOLEAN, rt : Nat]]
  /\ logins \in Nat
  /\ IsFiniteSet(issued)
  /\ work \in [Workers -> [op : SessionOps, sid : SessionIds \cup {0}, list : SUBSET SessionIds]]
  /\ members \subseteq SessionIds

SessionsKnown ==
  /\ \A s \in SessionIds : sess[s].uid \/ sess[s].there => s <= logins
  /\ \A s \in revoked : SessionKnown(s) /\ ~sess[s].uid
  /\ \A i \in issued : SessionKnown(i.sid)
  /\ \A w \in Workers : work[w].op \in {"refresh", "store", "seen", "touch"} => SessionKnown(work[w].sid)

SessionInv == SessionTypes /\ SessionsKnown

\* There is no session at the start.
LEMMA SessionStart == SessionInit => SessionInv
<1> SUFFICES ASSUME SessionInit PROVE SessionInv
  OBVIOUS
<1>1. sess \in [SessionIds -> [uid : BOOLEAN, there : BOOLEAN, rt : Nat]]
  BY DEF SessionInit, NoSession
<1>2. work \in [Workers -> [op : SessionOps, sid : SessionIds \cup {0}, list : SUBSET SessionIds]]
  BY DEF SessionInit, Idle, Doing, SessionOps
<1>3. IsFiniteSet(issued)
  BY FS_EmptySet DEF SessionInit
<1>4. SessionsKnown
  BY DEF SessionInit, SessionsKnown, NoSession, Idle, Doing
<1> QED BY <1>1, <1>2, <1>3, <1>4 DEF SessionInit, SessionInv, SessionTypes

\* What a request goes on with is well-formed, and it is the only one to move.
LEMMA SessionGoes ==
  ASSUME SessionInv, NEW w \in Workers, NEW op \in SessionOps, NEW s \in SessionIds \cup {0},
         NEW l \in SUBSET SessionIds,
         Go(w, Doing(op, s, l)),
         op \in {"refresh", "store", "seen", "touch"} => SessionKnown(s)
  PROVE  /\ work' \in [Workers -> [op : SessionOps, sid : SessionIds \cup {0}, list : SUBSET SessionIds]]
         /\ \A v \in Workers : work'[v].op \in {"refresh", "store", "seen", "touch"} => SessionKnown(work'[v].sid)
<1> DEFINE Request == [op : SessionOps, sid : SessionIds \cup {0}, list : SUBSET SessionIds]
           r == Doing(op, s, l)
<1>1. r \in Request /\ r.op = op /\ r.sid = s
  BY DEF Doing
<1>2. work \in [Workers -> Request] /\ work' = [work EXCEPT ![w] = r]
  BY DEF SessionInv, SessionTypes, Go
<1> HIDE DEF Request, r
<1>3. work' \in [Workers -> Request] /\ work'[w] = r /\ \A v \in Workers \ {w} : work'[v] = work[v]
  BY <1>1, <1>2
<1>4. \A v \in Workers : work'[v].op \in {"refresh", "store", "seen", "touch"} => SessionKnown(work'[v].sid)
  BY <1>1, <1>3 DEF SessionInv, SessionsKnown
<1> QED BY <1>3, <1>4 DEF Request

\* Deleting sessions revokes what was there, and gives no number back.
LEMMA DeletedKeeps ==
  ASSUME SessionInv, NEW ids \in SUBSET SessionIds, Deleted(ids), logins' = logins
  PROVE  /\ sess' \in [SessionIds -> [uid : BOOLEAN, there : BOOLEAN, rt : Nat]]
         /\ \A s \in SessionIds : sess'[s].uid \/ sess'[s].there => s <= logins'
         /\ \A s \in revoked' : SessionKnown(s)' /\ ~sess'[s].uid
<1> USE DEF SessionInv, SessionTypes, SessionsKnown
<1>1. NoSession \in [uid : BOOLEAN, there : BOOLEAN, rt : Nat] /\ ~NoSession.uid /\ ~NoSession.there
  BY DEF NoSession
<1>2. sess' = [s \in SessionIds |-> IF s \in ids THEN NoSession ELSE sess[s]]
  BY DEF Deleted
<1>3. sess' \in [SessionIds -> [uid : BOOLEAN, there : BOOLEAN, rt : Nat]]
  BY <1>1, <1>2
<1>4. \A s \in revoked' : s \in revoked \/ (s \in ids /\ sess[s].there)
  BY DEF Deleted
<1> QED BY <1>1, <1>2, <1>3, <1>4 DEF SessionKnown

\* The sessions, one command of one request at a time.
LEMMA SessionStep ==
  ASSUME SessionInv, [SessionNext]_sessionVars PROVE SessionInv'
<1> DEFINE Session == [uid : BOOLEAN, there : BOOLEAN, rt : Nat]
           Request == [op : SessionOps, sid : SessionIds \cup {0}, list : SUBSET SessionIds]
           Holding == {"refresh", "store", "seen", "touch"}
           WorkOK == /\ work \in [Workers -> Request]
                     /\ \A v \in Workers : work[v].op \in Holding => SessionKnown(work[v].sid)
           SessOK == /\ sess \in [SessionIds -> Session]
                     /\ \A s \in SessionIds : sess[s].uid \/ sess[s].there => s <= logins
                     /\ \A s \in revoked : SessionKnown(s) /\ ~sess[s].uid
           RestOK == /\ logins \in Nat /\ IsFiniteSet(issued) /\ members \subseteq SessionIds
                     /\ \A i \in issued : SessionKnown(i.sid)
<1>0. WorkOK /\ SessOK /\ RestOK
  BY DEF SessionInv, SessionTypes, SessionsKnown
<1>a. WorkOK' /\ SessOK' /\ RestOK' => SessionInv'
  BY DEF SessionInv, SessionTypes, SessionsKnown
<1>b. ASSUME UNCHANGED <<work, logins>> PROVE WorkOK'
  BY <1>0, <1>b DEF SessionKnown
<1>c. ASSUME UNCHANGED <<sess, revoked, logins>> PROVE SessOK'
  BY <1>0, <1>c DEF SessionKnown
<1>d. ASSUME UNCHANGED <<logins, issued>>, members' \subseteq SessionIds PROVE RestOK'
  BY <1>0, <1>d DEF SessionKnown
<1>e. ASSUME NEW w \in Workers, NEW op \in SessionOps, NEW s \in SessionIds \cup {0}, NEW l \in SUBSET SessionIds,
             Go(w, Doing(op, s, l)), logins' = logins,
             op \in Holding => SessionKnown(s)
      PROVE  WorkOK'
  <2>1. op \in {"refresh", "store", "seen", "touch"} => SessionKnown(s)
    BY <1>e
  <2>2. /\ work' \in [Workers -> [op : SessionOps, sid : SessionIds \cup {0}, list : SUBSET SessionIds]]
        /\ \A v \in Workers : work'[v].op \in {"refresh", "store", "seen", "touch"} => SessionKnown(work'[v].sid)
    BY <1>e, <2>1, SessionGoes
  <2> QED BY <1>e, <2>2 DEF SessionKnown
<1>f. ASSUME NEW w \in Workers, Done(w), logins' = logins PROVE WorkOK'
  <2>1. "idle" \in SessionOps \ Holding /\ Go(w, Doing("idle", 0, {}))
    BY <1>f DEF SessionOps, Done, Go, Idle
  <2> QED BY <1>e, <1>f, <2>1
<1>g. ASSUME NEW ids \in SUBSET SessionIds, Deleted(ids), logins' = logins PROVE SessOK'
  BY <1>g, DeletedKeeps
<1>h. ASSUME NEW s \in SessionIds, Delete(s), logins' = logins, issued' = issued
      PROVE  SessOK' /\ RestOK'
  <2>1. {s} \in SUBSET SessionIds /\ Deleted({s}) /\ members' \subseteq SessionIds
    BY <1>0, <1>h DEF Delete
  <2> QED BY <1>d, <1>g, <1>h, <2>1
<1>i. \A w \in Workers : /\ work[w] \in Request /\ work[w].list \in SUBSET SessionIds
                         /\ work[w].op \in SessionOps /\ work[w].sid \in SessionIds \cup {0}
  BY <1>0
<1> HIDE DEF WorkOK, SessOK, RestOK, Request, Session
<1>1. ASSUME NEW w \in Workers, BeginLogin(w) PROVE SessionInv'
  <2>1. PICK op \in {"list", "listUnlocked"} : Go(w, Doing(op, 0, {}))
    BY <1>1 DEF BeginLogin
  <2>2. op \in SessionOps /\ op \notin Holding
    BY DEF SessionOps
  <2>3. UNCHANGED <<sess, revoked, logins, issued, members>> /\ members \subseteq SessionIds
    BY <1>0, <1>1 DEF BeginLogin, RestOK
  <2> QED BY <1>a, <1>c, <1>d, <1>e, <2>1, <2>2, <2>3
<1>2. ASSUME NEW w \in Workers, ListSessions(w) PROVE SessionInv'
  <2>1. Evicted \in SUBSET SessionIds
    BY <1>0 DEF Evicted, RestOK
  <2>2. PICK op \in {"create", "createUnlocked"} : Go(w, Doing(op, 0, Evicted))
    BY <1>2 DEF ListSessions
  <2>5. op \in SessionOps /\ op \notin Holding
    BY DEF SessionOps
  <2>6. UNCHANGED <<sess, revoked, logins, issued, members>> /\ members \subseteq SessionIds
    BY <1>0, <1>2 DEF ListSessions, RestOK
  <2> QED BY <1>a, <1>c, <1>d, <1>e, <2>1, <2>2, <2>5, <2>6
<1>3. ASSUME NEW w \in Workers, CreateSession(w) PROVE SessionInv'
  <2> DEFINE s == logins + 1
             new == [uid |-> TRUE, there |-> TRUE, rt |-> 0]
  <2>0. s \in SessionIds /\ logins \in Nat /\ logins' = s
    BY <1>0, <1>3, AccountsBounds DEF CreateSession, SessionIds, RestOK
  <2>1. /\ sess' = [t \in SessionIds |-> IF t = s THEN new
                                         ELSE IF t \in work[w].list THEN NoSession ELSE sess[t]]
        /\ members' = (members \ work[w].list) \cup {s}
        /\ revoked' = revoked \cup {t \in work[w].list : sess[t].there}
        /\ issued' = issued
        /\ Go(w, Doing("refresh", s, {}))
    BY <1>3 DEF CreateSession
  <2>2. new \in Session /\ NoSession \in Session /\ ~NoSession.uid /\ ~NoSession.there
    BY DEF NoSession, Session
  <2>3. SessOK'
    <3> HIDE DEF new
    <3>1. \A t \in SessionIds : t <= logins => t # s /\ t <= s
      BY <2>0 DEF SessionIds
    <3>2. s \notin revoked
      BY <1>0, <3>1 DEF SessOK, SessionKnown
    <3>3. \A t \in SessionIds : sess[t].uid \/ sess[t].there => t # s /\ t <= s
      BY <1>0, <3>1 DEF SessOK
    <3>4. sess' \in [SessionIds -> Session]
      BY <1>0, <2>1, <2>2 DEF SessOK
    <3>5. s <= s
      BY <2>0
    <3>6. \A t \in SessionIds : sess'[t].uid \/ sess'[t].there => t <= s
      BY <2>1, <2>2, <3>3, <3>5
    <3>7. \A t \in revoked' : t \in SessionIds /\ t # s /\ t <= s /\ (t \in revoked \/ t \in work[w].list)
      BY <1>0, <1>i, <2>1, <3>1, <3>3 DEF SessOK, SessionKnown
    <3>8. \A t \in revoked' : ~sess'[t].uid
      BY <1>0, <2>1, <2>2, <3>7 DEF SessOK
    <3> QED BY <2>0, <3>4, <3>6, <3>7, <3>8 DEF SessOK, SessionKnown
  <2>4. \A t \in SessionIds : t <= logins => t <= s
    BY <2>0 DEF SessionIds
  <2>5. RestOK'
    BY <1>0, <2>0, <2>1, <2>4 DEF RestOK, SessionKnown
  <2>6. WorkOK'
    <3> DEFINE r == Doing("refresh", s, {})
    <3>1. r \in Request /\ r.sid = s
      BY <2>0 DEF Request, SessionOps, Doing
    <3>2. work' = [work EXCEPT ![w] = r]
      BY <2>1 DEF Go
    <3>3. s <= s
      BY <2>0
    <3> HIDE DEF r
    <3> QED BY <1>0, <2>0, <2>4, <3>1, <3>2, <3>3 DEF WorkOK, SessionKnown
  <2> QED BY <1>a, <2>3, <2>5, <2>6
<1>4. ASSUME NEW w \in Workers, NEW i \in issued, ValidateRefreshToken(w, i) PROVE SessionInv'
  <2>1. SessionKnown(i.sid) /\ i.sid \in SessionIds /\ members \subseteq SessionIds
    BY <1>0 DEF RestOK, SessionKnown
  <2>2. logins' = logins /\ issued' = issued
    BY <1>4 DEF ValidateRefreshToken
  <2>3. CASE sess[i.sid].rt = i.tok
    <3>1. Go(w, Doing("refresh", i.sid, {})) /\ UNCHANGED <<sess, members, revoked>>
      BY <1>4, <2>3 DEF ValidateRefreshToken
    <3>2. "refresh" \in SessionOps
      BY DEF SessionOps
    <3> QED BY <1>a, <1>c, <1>d, <1>e, <2>1, <2>2, <3>1, <3>2
  <2>4. CASE sess[i.sid].rt # i.tok
    BY <1>4, <1>a, <1>b, <1>h, <2>1, <2>2, <2>4 DEF ValidateRefreshToken
  <2> QED BY <2>3, <2>4
<1>5. ASSUME NEW w \in Workers, RefreshExists(w) PROVE SessionInv'
  <2>1. /\ SessionKnown(work[w].sid) /\ work[w].sid \in SessionIds /\ members \subseteq SessionIds
        /\ logins' = logins /\ issued' = issued
    BY <1>0, <1>5 DEF RestOK, WorkOK, SessionKnown, RefreshExists
  <2>2. CASE sess[work[w].sid].there
    <3>1. Go(w, Doing("store", work[w].sid, {})) /\ UNCHANGED <<sess, members, revoked>>
      BY <1>5, <2>2 DEF RefreshExists
    <3>4. "store" \in SessionOps
      BY DEF SessionOps
    <3> QED BY <1>a, <1>c, <1>d, <1>e, <1>i, <2>1, <3>1, <3>4
  <2>3. CASE ~sess[work[w].sid].there
    BY <1>5, <1>a, <1>f, <1>h, <2>1, <2>3 DEF RefreshExists
  <2> QED BY <2>2, <2>3
<1>6. ASSUME NEW w \in Workers, RefreshStores(w) PROVE SessionInv'
  <2> DEFINE s == work[w].sid
             tok == Cardinality(issued) + 1
             i == [sid |-> s, tok |-> tok]
  <2>1. SessionKnown(s) /\ s \in SessionIds /\ members \subseteq SessionIds /\ IsFiniteSet(issued)
    BY <1>0, <1>6 DEF RestOK, WorkOK, SessionKnown, RefreshStores
  <2>2. /\ sess' = [sess EXCEPT ![s].there = TRUE, ![s].rt = tok]
        /\ issued' = issued \cup {i} /\ Done(w)
        /\ logins' = logins /\ revoked' = revoked /\ members' = members
    BY <1>6 DEF RefreshStores
  <2>3. tok \in Nat /\ IsFiniteSet(issued')
    <3>1. Cardinality(issued) \in Nat
      BY <2>1, FS_CardinalityType
    <3>2. IsFiniteSet(issued \cup {i})
      BY <2>1, FS_AddElement
    <3> QED BY <2>2, <3>1, <3>2
  <2> HIDE DEF tok
  <2>4. RestOK'
    <3>1. i.sid = s
      OBVIOUS
    <3> HIDE DEF i, s
    <3> QED BY <1>0, <2>1, <2>2, <2>3, <3>1 DEF RestOK, SessionKnown
  <2>5. SessOK'
    <3> HIDE DEF s, i
    <3>1. sess \in [SessionIds -> [uid : BOOLEAN, there : BOOLEAN, rt : Nat]]
      BY <1>0 DEF SessOK, Session
    <3>2. sess'[s] = [uid |-> sess[s].uid, there |-> TRUE, rt |-> tok] /\ DOMAIN sess' = SessionIds
      BY <2>1, <2>2, <3>1
    <3>3. \A t \in SessionIds \ {s} : sess'[t] = sess[t]
      BY <2>1, <2>2, <3>1
    <3>4. sess'[s] \in [uid : BOOLEAN, there : BOOLEAN, rt : Nat]
      BY <2>1, <2>3, <3>1, <3>2
    <3>5. sess' \in [SessionIds -> [uid : BOOLEAN, there : BOOLEAN, rt : Nat]]
      <4>1. sess' = [t \in SessionIds |-> sess'[t]]
        BY <2>1, <2>2, <3>1
      <4>2. \A t \in SessionIds : sess'[t] \in [uid : BOOLEAN, there : BOOLEAN, rt : Nat]
        BY <3>1, <3>3, <3>4
      <4> QED BY <4>1, <4>2
    <3>6. sess'[s].uid = sess[s].uid
      BY <3>2
    <3>7. \A t \in SessionIds : sess'[t].uid \/ sess'[t].there => t <= logins
      BY <1>0, <2>1, <3>3 DEF SessOK, SessionKnown
    <3>8. \A t \in revoked : SessionKnown(t)' /\ ~sess'[t].uid
      BY <1>0, <2>2, <3>3, <3>6 DEF SessOK, SessionKnown
    <3> QED BY <2>2, <3>5, <3>7, <3>8 DEF SessOK, Session
  <2> QED BY <1>a, <1>f, <2>2, <2>4, <2>5
<1>7. ASSUME NEW w \in Workers, NEW s \in SessionIds, RequireAuth(w, s) PROVE SessionInv'
  <2>1. /\ Go(w, Doing("seen", s, {})) /\ sess[s].uid
        /\ UNCHANGED <<sess, members, logins, issued, revoked>>
    BY <1>7 DEF RequireAuth
  <2>2. "seen" \in SessionOps /\ SessionKnown(s) /\ members \subseteq SessionIds
    BY <1>0, <2>1 DEF SessionOps, SessOK, SessionKnown, RestOK
  <2> QED BY <1>a, <1>c, <1>d, <1>e, <2>1, <2>2
<1>8. ASSUME NEW w \in Workers, NEW s \in SessionIds, BeginDeleteOthers(w, s) PROVE SessionInv'
  <2>1. /\ Go(w, Doing("deleteOthers", 0, members \ {s}))
        /\ UNCHANGED <<sess, members, logins, issued, revoked>>
    BY <1>8 DEF BeginDeleteOthers
  <2>2. "deleteOthers" \in SessionOps \ Holding /\ members \ {s} \in SUBSET SessionIds
    BY <1>0 DEF SessionOps, RestOK
  <2> QED BY <1>a, <1>c, <1>d, <1>e, <2>1, <2>2
<1>9. ASSUME NEW w \in Workers, UpdateLastSeen(w) PROVE SessionInv'
  <2>1. /\ SessionKnown(work[w].sid) /\ work[w].sid \in SessionIds /\ members \subseteq SessionIds
        /\ UNCHANGED <<members, logins, issued, revoked>>
    BY <1>0, <1>9 DEF RestOK, WorkOK, SessionKnown, UpdateLastSeen
  <2>2. CASE Done(w) /\ UNCHANGED sess
    BY <1>a, <1>c, <1>d, <1>f, <2>1, <2>2
  <2>3. CASE Go(w, Doing("touch", work[w].sid, {})) /\ UNCHANGED sess
    <3>3. "touch" \in SessionOps
      BY DEF SessionOps
    <3> QED BY <1>a, <1>c, <1>d, <1>e, <1>i, <2>1, <2>3, <3>3
  <2>4. CASE Done(w) /\ sess' = [sess EXCEPT ![work[w].sid].there = TRUE]
    <3> DEFINE s == work[w].sid
    <3>1. sess \in [SessionIds -> Session]
      BY <1>0 DEF SessOK
    <3>2. sess' \in [SessionIds -> Session]
      BY <2>1, <2>4, <3>1 DEF Session
    <3>3. \A t \in SessionIds : /\ sess'[t].uid = sess[t].uid
                                /\ t # s => sess'[t].there = sess[t].there
      BY <2>1, <2>4, <3>1 DEF Session
    <3>4. SessOK'
      <4> HIDE DEF s
      <4>1. s <= logins
        BY <2>1 DEF SessionKnown, s
      <4> QED BY <1>0, <2>1, <3>2, <3>3, <4>1 DEF SessOK, SessionKnown
    <3> QED BY <1>a, <1>d, <1>f, <2>1, <2>4, <3>4
  <2> QED BY <1>9, <2>2, <2>3, <2>4 DEF UpdateLastSeen
<1>10. ASSUME NEW w \in Workers, BeginDeleteAll(w) \/ TerminateUserSessions(w) PROVE SessionInv'
  <2>1. PICK op \in {"deleteAll", "purge"} : Go(w, Doing(op, 0, members))
    BY <1>10 DEF BeginDeleteAll, TerminateUserSessions
  <2>2. op \in SessionOps /\ op \notin Holding /\ members \in SUBSET SessionIds
    BY <1>0 DEF SessionOps, RestOK
  <2>3. UNCHANGED <<sess, members, logins, issued, revoked>>
    BY <1>10 DEF BeginDeleteAll, TerminateUserSessions
  <2> QED BY <1>a, <1>c, <1>d, <1>e, <2>1, <2>2, <2>3
<1>11. ASSUME NEW w \in Workers, DeleteAllForUser(w) \/ DeleteAllExcept(w) PROVE SessionInv'
  <2>1. /\ Deleted(work[w].list) /\ Done(w) /\ UNCHANGED <<logins, issued>> /\ members' \subseteq SessionIds
    BY <1>0, <1>11 DEF DeleteAllForUser, DeleteAllExcept, RestOK
  <2> QED BY <1>a, <1>d, <1>f, <1>g, <1>i, <2>1
<1>12. ASSUME NEW w \in Workers, InvalidateAllUserSessions(w) PROVE SessionInv'
  <2>1. UNCHANGED <<logins, issued>> /\ members' \subseteq SessionIds
    BY <1>0, <1>12 DEF InvalidateAllUserSessions, RestOK
  <2>2. CASE Done(w) /\ UNCHANGED <<sess, revoked>>
    BY <1>a, <1>c, <1>d, <1>f, <2>1, <2>2
  <2>3. ASSUME NEW s \in work[w].list, Deleted({s}), Go(w, Doing("purge", 0, work[w].list \ {s}))
        PROVE  SessionInv'
    <3>3. "purge" \in SessionOps \ Holding /\ {s} \in SUBSET SessionIds /\ work[w].list \ {s} \in SUBSET SessionIds
      BY <1>i, <2>3 DEF SessionOps
    <3> QED BY <1>a, <1>d, <1>e, <1>g, <1>i, <2>1, <2>3, <3>3
  <2> QED BY <1>12, <2>2, <2>3 DEF InvalidateAllUserSessions
<1>13. CASE UserLockExpires
  BY <1>0, <1>13, <1>a, <1>b, <1>c, <1>d DEF UserLockExpires, RestOK
<1>14. CASE ListUserSessions
  BY <1>0, <1>14, <1>a, <1>b, <1>c, <1>d DEF ListUserSessions, RestOK
<1>15. ASSUME NEW s \in SessionIds, Logout(s) PROVE SessionInv'
  BY <1>15, <1>a, <1>b, <1>h DEF Logout
<1>16. ASSUME NEW s \in SessionIds, SessionExpires(s) PROVE SessionInv'
  <2>1. {s} \in SUBSET SessionIds /\ members \subseteq SessionIds
    BY <1>0 DEF RestOK
  <2> QED BY <1>16, <1>a, <1>b, <1>d, <1>g, <2>1 DEF SessionExpires
<1>17. ASSUME NEW s \in SessionIds, NEW c \in SessionIds, DeleteSession(c, s) PROVE SessionInv'
  BY <1>17, <1>a, <1>b, <1>h DEF DeleteSession
<1>18. CASE UNCHANGED sessionVars
  <2>1. members \subseteq SessionIds /\ UNCHANGED <<sess, members, work, logins, issued, revoked>>
    BY <1>0, <1>18 DEF sessionVars, RestOK
  <2> QED BY <1>a, <1>b, <1>c, <1>d, <2>1
<1> QED BY <1>1, <1>2, <1>3, <1>4, <1>5, <1>6, <1>7, <1>8, <1>9, <1>10, <1>11, <1>12, <1>13, <1>14,
           <1>15, <1>16, <1>17, <1>18 DEF SessionNext

\* While no setup or disable has raced a verification, the secret a request has
\* verified is the one in the row, and an enabled secret is a verified one.
TotpInv ==
  /\ totp \in [secret : Nat, enabled : BOOLEAN, verified : Nat]
  /\ enrol \in [Workers -> Nat]
  /\ secrets \in Nat
  /\ raced \in BOOLEAN
  /\ ~raced =>
       /\ totp.enabled => totp.secret # 0 /\ totp.verified = totp.secret
       /\ \A w \in Workers : enrol[w] # 0 => enrol[w] = totp.secret

\* There is no secret at the start.
LEMMA TotpStart == TotpInit => TotpInv
<1> SUFFICES ASSUME TotpInit PROVE TotpInv
  OBVIOUS
<1>1. totp \in [secret : Nat, enabled : BOOLEAN, verified : Nat] /\ ~totp.enabled
  BY DEF TotpInit
<1>2. enrol \in [Workers -> Nat] /\ \A w \in Workers : enrol[w] = 0
  BY DEF TotpInit
<1>3. secrets \in Nat /\ raced \in BOOLEAN
  BY DEF TotpInit
<1> QED BY <1>1, <1>2, <1>3 DEF TotpInv

\* The second factor: setup, verification, disable and the login tickets.
LEMMA TotpStep ==
  ASSUME TotpInv, [TotpNext]_totpVars PROVE TotpInv'
<1> USE DEF TotpInv
<1>1. ASSUME NEW seen, Setup2FA(seen) PROVE TotpInv'
  <2>1. /\ secrets' = secrets + 1 /\ enrol' = enrol /\ raced' = (raced \/ Racing)
        /\ totp' = [secret |-> secrets + 1, enabled |-> FALSE, verified |-> totp.verified]
    BY <1>1 DEF Setup2FA
  <2>2. totp' \in [secret : Nat, enabled : BOOLEAN, verified : Nat] /\ ~totp'.enabled
    BY <2>1
  <2>3. Racing \in BOOLEAN /\ (~Racing => \A w \in Workers : enrol[w] = 0)
    BY DEF Racing
  <2> QED BY <2>1, <2>2, <2>3
<1>2. ASSUME NEW w \in Workers, Begin2FAVerify(w) PROVE TotpInv'
  BY <1>2 DEF Begin2FAVerify
<1>3. ASSUME NEW w \in Workers, Enable2FA(w) PROVE TotpInv'
  <2>1. /\ totp' = [totp EXCEPT !.enabled = TRUE, !.verified = enrol[w]] /\ enrol[w] # 0
        /\ enrol' = [enrol EXCEPT ![w] = 0] /\ secrets' = secrets /\ raced' = raced
    BY <1>3 DEF Enable2FA
  <2>2. totp' \in [secret : Nat, enabled : BOOLEAN, verified : Nat]
        /\ totp'.verified = enrol[w] /\ totp'.secret = totp.secret
    BY <2>1
  <2>3. enrol' \in [Workers -> Nat] /\ \A v \in Workers : enrol'[v] # 0 => enrol'[v] = enrol[v]
    BY <2>1
  <2> QED BY <2>1, <2>2, <2>3
<1>4. CASE Disable2FA
  <2>1. /\ totp' = [totp EXCEPT !.secret = 0, !.enabled = FALSE] /\ raced' = (raced \/ Racing)
        /\ enrol' = enrol /\ secrets' = secrets
    BY <1>4 DEF Disable2FA
  <2>2. totp' \in [secret : Nat, enabled : BOOLEAN, verified : Nat] /\ ~totp'.enabled
    BY <2>1
  <2>3. Racing \in BOOLEAN /\ (~Racing => \A w \in Workers : enrol[w] = 0)
    BY DEF Racing
  <2> QED BY <2>1, <2>2, <2>3
<1>5. CASE UNCHANGED <<totp, enrol, secrets, raced>>
  BY <1>5
<1> QED BY <1>1, <1>2, <1>3, <1>4, <1>5 DEF TotpNext, IssueTicket, Verify2FALogin, totpVars

\* Who owns an identity is on record, whoever is on record is a user with a
\* role, and no identity has two owners.
RegistrationInv ==
  /\ users \in [1 .. MaxUsers -> [Identities \cup {"role"} -> BOOLEAN]]
  /\ owned \subseteq [uid : 1 .. MaxUsers, by : Identities]
  /\ \A w \in Workers : rwork[w].op = "link" => rwork[w].uid \in 1 .. MaxUsers /\ users[rwork[w].uid]["role"]
  /\ rwork \in [Workers -> [op : {"idle", "phoneInsert", "link", "oauthCreate"}, uid : 0 .. MaxUsers]]
  /\ \A e \in owned : users[e.uid]["role"]
  /\ \A u \in 1 .. MaxUsers, i \in Identities :
       users[u][i] => users[u]["role"] /\ [uid |-> u, by |-> i] \in owned
  /\ entries \subseteq owned
  /\ \A i \in Identities : \A u, v \in Owners(i) : u = v

\* Nobody is registered at the start.
LEMMA RegistrationStart == RegistrationInit => RegistrationInv
<1> SUFFICES ASSUME RegistrationInit PROVE RegistrationInv
  OBVIOUS
<1>1. NoUser \in [Identities \cup {"role"} -> BOOLEAN] /\ \A i \in Identities \cup {"role"} : ~NoUser[i]
  BY DEF NoUser
<1>2. users \in [1 .. MaxUsers -> [Identities \cup {"role"} -> BOOLEAN]]
      /\ \A u \in 1 .. MaxUsers, i \in Identities \cup {"role"} : ~users[u][i]
  BY <1>1 DEF RegistrationInit
<1>3. \A i \in Identities : Owners(i) = {}
  BY <1>2 DEF Owners
<1>4. rwork \in [Workers -> [op : {"idle", "phoneInsert", "link", "oauthCreate"}, uid : 0 .. MaxUsers]]
      /\ \A w \in Workers : rwork[w].op = "idle"
  BY AccountsBounds DEF RegistrationInit, Outside
<1> QED BY <1>2, <1>3, <1>4 DEF RegistrationInit, RegistrationInv

\* The rows of a new user: nobody else owns what it owns.
LEMMA InsertKeeps ==
  ASSUME RegistrationInv, NEW u \in FreeRows, NEW ids \in SUBSET Identities, Insert(u, ids),
         \A i \in ids : Owners(i) = {}
  PROVE  /\ users' \in [1 .. MaxUsers -> [Identities \cup {"role"} -> BOOLEAN]]
         /\ owned' \subseteq [uid : 1 .. MaxUsers, by : Identities]
         /\ owned \subseteq owned'
         /\ \A i \in ids : [uid |-> u, by |-> i] \in owned'
         /\ \A v \in 1 .. MaxUsers : users[v]["role"] => users'[v]["role"]
         /\ \A e \in owned' : users'[e.uid]["role"]
         /\ \A v \in 1 .. MaxUsers, i \in Identities :
              users'[v][i] => users'[v]["role"] /\ [uid |-> v, by |-> i] \in owned'
         /\ \A i \in Identities : \A v, w \in Owners(i)' : v = w
<1> DEFINE row == [i \in DOMAIN NoUser |-> i = "role" \/ i \in ids]
<1>1. u \in 1 .. MaxUsers /\ users[u] = NoUser
  BY DEF FreeRows
<1>2. row \in [Identities \cup {"role"} -> BOOLEAN] /\ row["role"]
      /\ \A i \in Identities : row[i] = (i \in ids)
  <2>1. DOMAIN NoUser = Identities \cup {"role"}
    BY DEF NoUser
  <2>2. \A i \in Identities : i # "role"
    BY DEF Identities
  <2>3. row = [i \in Identities \cup {"role"} |-> i = "role" \/ i \in ids]
    BY <2>1
  <2> HIDE DEF row
  <2>4. row["role"]
    BY <2>3
  <2>5. \A i \in Identities : row[i] = (i \in ids)
    BY <2>2, <2>3
  <2>6. row \in [Identities \cup {"role"} -> BOOLEAN]
    BY <2>3
  <2> QED BY <2>4, <2>5, <2>6
<1>3. /\ users' = [users EXCEPT ![u] = row]
      /\ owned' = owned \cup {[uid |-> u, by |-> i] : i \in ids}
  BY DEF Insert
<1> HIDE DEF row
<1>4. /\ users' \in [1 .. MaxUsers -> [Identities \cup {"role"} -> BOOLEAN]]
      /\ users'[u] = row /\ \A v \in 1 .. MaxUsers \ {u} : users'[v] = users[v]
  BY <1>1, <1>2, <1>3 DEF RegistrationInv
<1>5. \A i \in ids : [uid |-> u, by |-> i] \in [uid : 1 .. MaxUsers, by : Identities]
  BY <1>1
<1>6. /\ owned' \subseteq [uid : 1 .. MaxUsers, by : Identities] /\ owned \subseteq owned'
      /\ \A i \in ids : [uid |-> u, by |-> i] \in owned'
      /\ \A e \in owned' : e \in owned \/ e.uid = u
  BY <1>3, <1>5 DEF RegistrationInv
<1>7. \A v \in 1 .. MaxUsers : users[v]["role"] => users'[v]["role"]
  BY <1>2, <1>4
<1>8. \A e \in owned' : users'[e.uid]["role"]
  BY <1>2, <1>4, <1>6, <1>7 DEF RegistrationInv
<1>9. \A v \in 1 .. MaxUsers, i \in Identities :
        users'[v][i] => users'[v]["role"] /\ [uid |-> v, by |-> i] \in owned'
  BY <1>2, <1>4, <1>6 DEF RegistrationInv
<1>10. \A i \in Identities : Owners(i)' = IF i \in ids THEN {u} ELSE Owners(i)
  <2> SUFFICES ASSUME NEW i \in Identities PROVE Owners(i)' = IF i \in ids THEN {u} ELSE Owners(i)
    OBVIOUS
  <2>1. ~NoUser[i]
    BY DEF NoUser
  <2>2. CASE i \in ids
    <3>1. \A v \in 1 .. MaxUsers \ {u} : ~users'[v][i]
      BY <1>4, <2>2 DEF Owners
    <3> QED BY <1>1, <1>2, <1>4, <2>2, <3>1 DEF Owners
  <2>3. CASE i \notin ids
    BY <1>1, <1>2, <1>4, <2>1, <2>3 DEF Owners
  <2> QED BY <2>2, <2>3
<1>11. \A i \in Identities : \A v, w \in Owners(i)' : v = w
  BY <1>10 DEF RegistrationInv
<1> QED BY <1>4, <1>6, <1>7, <1>8, <1>9, <1>11

\* A request that goes on, or ends, without touching a row.
LEMMA GoesKeeps ==
  ASSUME RegistrationInv, NEW w \in Workers, NEW op \in {"idle", "phoneInsert", "link", "oauthCreate"},
         NEW u \in 0 .. MaxUsers, Goes(w, op, u),
         op = "link" => u \in 1 .. MaxUsers /\ users[u]["role"],
         users' = users
  PROVE  /\ rwork' \in [Workers -> [op : {"idle", "phoneInsert", "link", "oauthCreate"}, uid : 0 .. MaxUsers]]
         /\ \A v \in Workers : rwork'[v].op = "link" => rwork'[v].uid \in 1 .. MaxUsers /\ users'[rwork'[v].uid]["role"]
<1> DEFINE r == [op |-> op, uid |-> u]
           Request == [op : {"idle", "phoneInsert", "link", "oauthCreate"}, uid : 0 .. MaxUsers]
<1>1. r \in Request /\ r.op = op /\ r.uid = u
  OBVIOUS
<1>2. rwork \in [Workers -> Request] /\ rwork' = [rwork EXCEPT ![w] = r]
  BY DEF RegistrationInv, Goes
<1> HIDE DEF r, Request
<1>3. rwork' \in [Workers -> Request] /\ rwork'[w] = r /\ \A v \in Workers \ {w} : rwork'[v] = rwork[v]
  BY <1>1, <1>2
<1>4. \A v \in Workers : rwork'[v].op = "link" => rwork'[v].uid \in 1 .. MaxUsers /\ users[rwork'[v].uid]["role"]
  BY <1>1, <1>3 DEF RegistrationInv
<1> QED BY <1>3, <1>4 DEF Request

\* Registrations and logins, step by step.
LEMMA RegistrationStep ==
  ASSUME RegistrationInv, [RegistrationNext]_regVars PROVE RegistrationInv'
<1> DEFINE Request == [op : {"idle", "phoneInsert", "link", "oauthCreate"}, uid : 0 .. MaxUsers]
           WorkOK == /\ rwork \in [Workers -> Request]
                     /\ \A v \in Workers : rwork[v].op = "link" => rwork[v].uid \in 1 .. MaxUsers /\ users[rwork[v].uid]["role"]
           RowsOK == /\ users \in [1 .. MaxUsers -> [Identities \cup {"role"} -> BOOLEAN]]
                     /\ owned \subseteq [uid : 1 .. MaxUsers, by : Identities]
                     /\ \A e \in owned : users[e.uid]["role"]
                     /\ \A u \in 1 .. MaxUsers, i \in Identities :
                          users[u][i] => users[u]["role"] /\ [uid |-> u, by |-> i] \in owned
                     /\ \A i \in Identities : \A u, v \in Owners(i) : u = v
<1>0. RowsOK /\ WorkOK /\ entries \subseteq owned
  BY DEF RegistrationInv
<1>a. RowsOK' /\ WorkOK' /\ entries' \subseteq owned' => RegistrationInv'
  BY DEF RegistrationInv
<1>b. ASSUME UNCHANGED <<users, owned>> PROVE RowsOK'
  BY <1>0, <1>b DEF Owners
<1>c. ASSUME NEW u \in FreeRows, NEW ids \in SUBSET Identities, Insert(u, ids), \A i \in ids : Owners(i) = {}
      PROVE  /\ RowsOK' /\ owned \subseteq owned' /\ \A i \in ids : [uid |-> u, by |-> i] \in owned'
             /\ \A v \in 1 .. MaxUsers : users[v]["role"] => users'[v]["role"]
  BY <1>c, InsertKeeps
<1>d. ASSUME NEW w \in Workers, rwork' = [rwork EXCEPT ![w] = Outside],
             \A v \in 1 .. MaxUsers : users[v]["role"] => users'[v]["role"]
      PROVE  WorkOK'
  <2>1. Outside \in Request /\ Outside.op = "idle"
    BY AccountsBounds DEF Outside
  <2> QED BY <1>0, <1>d, <2>1
<1>e. ASSUME NEW w \in Workers, NEW op \in {"idle", "phoneInsert", "link", "oauthCreate"},
             NEW u \in 0 .. MaxUsers, Goes(w, op, u),
             op = "link" => u \in 1 .. MaxUsers /\ users[u]["role"], users' = users
      PROVE  WorkOK'
  BY <1>e, GoesKeeps
<1>f. \A i \in Identities : \A u \in Owners(i) \cup Seen(i) :
        /\ u \in 1 .. MaxUsers /\ users[u]["role"] /\ [uid |-> u, by |-> i] \in owned
  <2>1. \A e \in owned : e = [uid |-> e.uid, by |-> e.by] /\ e.uid \in 1 .. MaxUsers
    BY <1>0
  <2>2. \A i \in Identities : \A u \in Seen(i) : \E e \in owned : e.uid = u /\ e.by = i
    BY DEF Seen
  <2>3. \A i \in Identities : \A u \in Owners(i) : u \in 1 .. MaxUsers /\ users[u][i]
    BY DEF Owners
  <2> QED BY <1>0, <2>1, <2>2, <2>3
<1>g. "email" \in Identities /\ "phone" \in Identities /\ "google" \in Identities
  BY DEF Identities
<1>h. 0 \in 0 .. MaxUsers
  BY AccountsBounds
<1>i. ASSUME NEW w \in Workers, NEW i \in Identities, NEW u \in Owners(i) \cup Seen(i), Enter(w, u, i),
             users' = users, owned' = owned
      PROVE  RegistrationInv'
  <2>1. entries' \subseteq owned'
    BY <1>0, <1>f, <1>i DEF Enter
  <2>2. WorkOK'
    BY <1>d, <1>i DEF Enter
  <2> QED BY <1>a, <1>b, <1>i, <2>1, <2>2
<1>j. ASSUME NEW w \in Workers, NEW u \in FreeRows, NEW ids \in SUBSET Identities, NEW i \in ids,
             Insert(u, ids), Enter(w, u, i), \A k \in ids : Owners(k) = {}
      PROVE  RegistrationInv'
  <2>1. RowsOK' /\ owned \subseteq owned' /\ [uid |-> u, by |-> i] \in owned'
        /\ \A v \in 1 .. MaxUsers : users[v]["role"] => users'[v]["role"]
    BY <1>c, <1>j
  <2>2. WorkOK'
    BY <1>d, <1>j, <2>1 DEF Enter
  <2>3. entries' \subseteq owned'
    BY <1>0, <1>j, <2>1 DEF Enter
  <2> QED BY <1>a, <2>1, <2>2, <2>3
<1>k. ASSUME NEW w \in Workers, NEW op \in {"idle", "phoneInsert", "link", "oauthCreate"},
             NEW u \in 0 .. MaxUsers, Goes(w, op, u),
             op = "link" => u \in 1 .. MaxUsers /\ users[u]["role"], UNCHANGED <<users, owned, entries>>
      PROVE  RegistrationInv'
  BY <1>0, <1>a, <1>b, <1>e, <1>k
<1> HIDE DEF WorkOK, RowsOK, Request
<1>1. ASSUME NEW w \in Workers, Register(w) PROVE RegistrationInv'
  <2>1. PICK u \in FreeRows : Insert(u, {"email"}) /\ Enter(w, u, "email")
    BY <1>1 DEF Register
  <2>2. {"email"} \in SUBSET Identities /\ "email" \in {"email"} /\ \A k \in {"email"} : Owners(k) = {}
    BY <1>1, <1>g DEF Register
  <2> QED BY <1>j, <2>1, <2>2
<1>2. CASE AdminCreateUser
  <2>1. PICK u \in FreeRows : Insert(u, {"email"})
    BY <1>2 DEF AdminCreateUser
  <2>2. {"email"} \in SUBSET Identities /\ \A k \in {"email"} : Owners(k) = {}
    BY <1>2, <1>g DEF AdminCreateUser
  <2>3. RowsOK' /\ owned \subseteq owned' /\ \A v \in 1 .. MaxUsers : users[v]["role"] => users'[v]["role"]
    BY <1>c, <2>1, <2>2
  <2>4. WorkOK'
    BY <1>0, <1>2, <2>3 DEF AdminCreateUser, WorkOK
  <2> QED BY <1>0, <1>2, <1>a, <2>3, <2>4 DEF AdminCreateUser
<1>3. ASSUME NEW w \in Workers, LookupPhone(w) PROVE RegistrationInv'
  <2>1. "phoneInsert" \in {"idle", "phoneInsert", "link", "oauthCreate"} /\ "phoneInsert" # "link"
    OBVIOUS
  <2> QED BY <1>3, <1>g, <1>h, <1>i, <1>k, <2>1 DEF LookupPhone
<1>4. ASSUME NEW w \in Workers, RegisterWithPhone(w) PROVE RegistrationInv'
  <2>1. CASE Owners("phone") = {} /\ \E u \in FreeRows : Insert(u, {"phone"}) /\ Enter(w, u, "phone")
    <3>1. {"phone"} \in SUBSET Identities /\ "phone" \in {"phone"} /\ \A k \in {"phone"} : Owners(k) = {}
      BY <2>1, <1>g
    <3> QED BY <1>j, <2>1, <3>1
  <2>2. CASE UNCHANGED <<users, owned>> /\ \E u \in Seen("phone") : Enter(w, u, "phone")
    BY <1>g, <1>i, <2>2
  <2>3. CASE UNCHANGED <<users, owned, entries>> /\ Goes(w, "idle", 0)
    BY <1>h, <1>k, <2>3
  <2> QED BY <1>4, <2>1, <2>2, <2>3 DEF RegisterWithPhone
<1>5. ASSUME NEW w \in Workers, ProcessOAuthLogin(w) PROVE RegistrationInv'
  <2>1. CASE UNCHANGED <<users, owned>> /\ \E u \in Owners("google") : Enter(w, u, "google")
    BY <1>g, <1>i, <2>1
  <2>2. ASSUME UNCHANGED <<users, owned, entries>>, NEW u \in Owners("email"), Goes(w, "link", u)
        PROVE  RegistrationInv'
    <3>1. u \in 1 .. MaxUsers /\ users[u]["role"] /\ u \in 0 .. MaxUsers
      <4>1. u \in Owners("email") \cup Seen("email")
        OBVIOUS
      <4>2. u \in 1 .. MaxUsers /\ users[u]["role"]
        BY <1>f, <1>g, <4>1
      <4> QED BY <4>2, AccountsBounds
    <3> QED BY <1>k, <2>2, <3>1
  <2>3. CASE UNCHANGED <<users, owned, entries>> /\ Goes(w, "oauthCreate", 0)
    BY <1>h, <1>k, <2>3
  <2> QED BY <1>5, <2>1, <2>2, <2>3 DEF ProcessOAuthLogin
<1>6. ASSUME NEW w \in Workers, LinkOAuthAccount(w) PROVE RegistrationInv'
  <2> DEFINE u == rwork[w].uid
  <2>1. u \in 1 .. MaxUsers /\ users[u]["role"]
    BY <1>0, <1>6 DEF LinkOAuthAccount, WorkOK
  <2>2. CASE Goes(w, "idle", 0) /\ UNCHANGED <<users, entries, owned>>
    BY <1>h, <1>k, <2>2
  <2>3. CASE /\ Owners("google") \subseteq {u}
             /\ users' = [users EXCEPT ![u].google = TRUE]
             /\ owned' = owned \cup {[uid |-> u, by |-> "google"]}
             /\ Enter(w, u, "google")
    <3> HIDE DEF u
    <3> DEFINE e == [uid |-> u, by |-> "google"]
    <3>1. /\ users' \in [1 .. MaxUsers -> [Identities \cup {"role"} -> BOOLEAN]]
          /\ \A v \in 1 .. MaxUsers, i \in Identities \cup {"role"} :
               users'[v][i] = IF v = u /\ i = "google" THEN TRUE ELSE users[v][i]
      BY <1>0, <1>g, <2>1, <2>3 DEF RowsOK
    <3>2. e \in [uid : 1 .. MaxUsers, by : Identities] /\ e.uid = u
      BY <1>g, <2>1
    <3>3. owned' = owned \cup {e} /\ entries' = entries \cup {e}
      BY <2>3 DEF Enter
    <3>4. \A v \in 1 .. MaxUsers : users'[v]["role"] = users[v]["role"]
      BY <3>1
    <3>5. Owners("google")' \subseteq {u} /\ \A i \in Identities \ {"google"} : Owners(i)' = Owners(i)
      BY <2>3, <3>1 DEF Owners
    <3>6. \A v \in 1 .. MaxUsers, i \in Identities :
            users'[v][i] => users'[v]["role"] /\ [uid |-> v, by |-> i] \in owned'
      BY <1>0, <2>1, <3>1, <3>3, <3>4 DEF RowsOK
    <3> HIDE DEF e
    <3>7. RowsOK'
      <4>1. \A d \in owned' : users'[d.uid]["role"] /\ d \in [uid : 1 .. MaxUsers, by : Identities]
        BY <1>0, <2>1, <3>2, <3>3, <3>4 DEF RowsOK
      <4>2. \A i \in Identities : \A v, x \in Owners(i)' : v = x
        <5>1. \A v, x \in Owners("google")' : v = x
          BY <3>5
        <5>2. \A i \in Identities \ {"google"} : \A v, x \in Owners(i)' : v = x
          BY <1>0, <3>5 DEF RowsOK
        <5> QED BY <5>1, <5>2
      <4> QED BY <3>1, <3>6, <4>1, <4>2 DEF RowsOK
    <3>8. WorkOK'
      BY <1>d, <2>3, <3>4 DEF Enter
    <3> QED BY <1>0, <1>a, <3>3, <3>7, <3>8
  <2> QED BY <1>6, <2>2, <2>3 DEF LinkOAuthAccount
<1>7. ASSUME NEW w \in Workers, CreateOAuthUser(w) PROVE RegistrationInv'
  <2>1. CASE /\ Owners("email") = {} /\ Owners("google") = {}
             /\ \E u \in FreeRows : Insert(u, {"email", "google"}) /\ Enter(w, u, "google")
    <3>1. {"email", "google"} \in SUBSET Identities /\ "google" \in {"email", "google"}
          /\ \A k \in {"email", "google"} : Owners(k) = {}
      BY <2>1, <1>g
    <3> QED BY <1>j, <2>1, <3>1
  <2>2. CASE Goes(w, "idle", 0) /\ UNCHANGED <<users, entries, owned>>
    BY <1>h, <1>k, <2>2
  <2> QED BY <1>7, <2>1, <2>2 DEF CreateOAuthUser
<1>8. ASSUME NEW u \in 1 .. MaxUsers, UpdateProfilePhone(u) PROVE RegistrationInv'
  <2>0. users[u]["role"] /\ UNCHANGED <<rwork, entries>>
    BY <1>8 DEF UpdateProfilePhone
  <2>1. ASSUME NEW b \in BOOLEAN, users' = [users EXCEPT ![u].phone = b], owned \subseteq owned',
               b => Owners("phone") = {} /\ owned' = owned \cup {[uid |-> u, by |-> "phone"]},
               ~b => owned' = owned
        PROVE  RegistrationInv'
    <3> DEFINE e == [uid |-> u, by |-> "phone"]
    <3>1. /\ users' \in [1 .. MaxUsers -> [Identities \cup {"role"} -> BOOLEAN]]
          /\ \A v \in 1 .. MaxUsers, i \in Identities \cup {"role"} :
               users'[v][i] = IF v = u /\ i = "phone" THEN b ELSE users[v][i]
      BY <1>0, <1>g, <2>1 DEF RowsOK
    <3>2. e \in [uid : 1 .. MaxUsers, by : Identities] /\ e.uid = u
      BY <1>g
    <3>3. \A v \in 1 .. MaxUsers : users'[v]["role"] = users[v]["role"]
      BY <3>1
    <3>4. \A i \in Identities \ {"phone"} : Owners(i)' = Owners(i)
      BY <3>1 DEF Owners
    <3>5. Owners("phone")' \subseteq Owners("phone") \/ Owners("phone")' \subseteq {u}
      BY <2>1, <3>1 DEF Owners
    <3>6. \A v \in 1 .. MaxUsers, i \in Identities :
            users'[v][i] => users'[v]["role"] /\ [uid |-> v, by |-> i] \in owned'
      BY <1>0, <2>0, <2>1, <3>1, <3>3 DEF RowsOK
    <3>7. \A d \in owned' : d \in owned \/ d = e
      BY <2>1
    <3> HIDE DEF e
    <3>8. RowsOK'
      <4>1. \A d \in owned' : users'[d.uid]["role"] /\ d \in [uid : 1 .. MaxUsers, by : Identities]
        BY <1>0, <2>0, <3>2, <3>3, <3>7 DEF RowsOK
      <4>2. \A i \in Identities : \A v, w \in Owners(i)' : v = w
        <5>1. \A v, w \in Owners("phone")' : v = w
          BY <1>0, <1>g, <3>5 DEF RowsOK
        <5>2. \A i \in Identities \ {"phone"} : \A v, w \in Owners(i)' : v = w
          BY <1>0, <3>4 DEF RowsOK
        <5> QED BY <5>1, <5>2
      <4> QED BY <3>1, <3>6, <4>1, <4>2 DEF RowsOK
    <3>9. WorkOK'
      BY <1>0, <2>0, <3>3 DEF WorkOK
    <3> QED BY <1>0, <1>a, <2>0, <2>1, <3>8, <3>9
  <2>2. CASE /\ Owners("phone") = {} /\ users' = [users EXCEPT ![u].phone = TRUE]
             /\ owned' = owned \cup {[uid |-> u, by |-> "phone"]}
    BY <2>1, <2>2
  <2>3. CASE users' = [users EXCEPT ![u].phone = FALSE] /\ UNCHANGED owned
    BY <2>1, <2>3
  <2> QED BY <1>8, <2>2, <2>3 DEF UpdateProfilePhone
<1>9. CASE UNCHANGED regVars
  BY <1>0, <1>9, <1>a, <1>b DEF regVars, WorkOK
<1> QED BY <1>1, <1>2, <1>3, <1>4, <1>5, <1>6, <1>7, <1>8, <1>9 DEF RegistrationNext

\* What the run checks follows.
LEMMA AccountsFollow ==
  /\ SessionInv => RevokedStaysRevoked
  /\ TotpInv => EnabledSecretVerified
  /\ RegistrationInv => EnteredAsOwner
<1>1. SessionInv => RevokedStaysRevoked
  BY DEF SessionInv, SessionsKnown, RevokedStaysRevoked
<1>2. TotpInv => EnabledSecretVerified
  BY DEF TotpInv, EnabledSecretVerified
<1>3. RegistrationInv => EnteredAsOwner
  <2> SUFFICES ASSUME RegistrationInv PROVE EnteredAsOwner
    OBVIOUS
  <2>1. \A e \in entries : e \in owned /\ users[e.uid].role
    BY DEF RegistrationInv
  <2>2. ASSUME NEW i \in Identities PROVE Cardinality(Owners(i)) <= 1
    <3>1. \A u, v \in Owners(i) : u = v
      BY DEF RegistrationInv
    <3>3. ASSUME NEW u \in Owners(i) PROVE Cardinality(Owners(i)) <= 1
      <4>1. Owners(i) = {u}
        BY <3>1
      <4>2. Cardinality({u}) = 1
        BY FS_Singleton
      <4> QED BY <4>1, <4>2
    <3>4. Cardinality({}) = 0
      BY FS_EmptySet
    <3> QED BY <3>3, <3>4
  <2> QED BY <2>1, <2>2 DEF EnteredAsOwner
<1> QED BY <1>1, <1>2, <1>3

=============================================================================
