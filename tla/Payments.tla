------------------------------ MODULE Payments ------------------------------
(***************************************************************************)
(* apps/payment-service: the deposits and withdrawals of one user.         *)
(*                                                                         *)
(* A deposit is a payment intent.  The request that creates it, webhooks,  *)
(* the user's status polls, the Jibit inquiry, the expiry worker and the   *)
(* orphan cleanup all write its status, most of them after asking the      *)
(* provider; the ones that credit do so in one transaction under the lock  *)
(* of the intent, the others overwrite blindly.                            *)
(*                                                                         *)
(* A withdrawal is a payout: the wallet is debited when it is requested,   *)
(* admins (apps/admin-bff) approve, complete, reject or fail it, and the   *)
(* expiry worker rolls back the ones nobody looked at.                     *)
(***************************************************************************)
EXTENDS Integers, FiniteSets

CONSTANTS Intents,    \* deposits
          Jibit,      \* the intents of provider jibit
          Queryable,  \* intents whose provider answers GetPaymentStatus (not plisio, sepal)
          Amount,     \* amount_cents of a deposit
          Requests,   \* withdrawal requests
          Key(_),     \* the Idempotency-Key of a request
          Withdrawn,  \* amount_cents of a withdrawal
          Fee,        \* its fee_cents
          DailyCount, \* DailyWithdrawCount
          MaxCharges, \* bound: admin wallet charges
          Charged     \* amount of an admin charge

ASSUME PaymentAssumption ==
    /\ Jibit \subseteq Queryable /\ Queryable \subseteq Intents
    /\ IsFiniteSet(Intents) /\ IsFiniteSet(Requests)
    /\ Amount \in Nat /\ Withdrawn \in Nat /\ Fee \in Nat /\ Charged \in Nat
    /\ MaxCharges \in Nat /\ DailyCount \in Nat

VARIABLES
    intent,    \* payment_intents: status, provider_payment_id set, created_at old
    provider,  \* the provider's own view of the payment
    creating,  \* intents whose create request waits for the provider
    linked,    \* intents whose payment link the user has
    inbox,     \* webhooks on their way: [intent, status]
    replay,    \* the replay keys in Redis
    answers,   \* provider answers held by a poll, the inquiry or the expiry worker
    posted,    \* how often PostConfirmedDeposit has credited an intent
    balance,   \* wallets.balance_cents
    payout,    \* payouts.status of a request
    checked,   \* requests that have passed CheckWithdrawalLimits
    refunds,   \* ledger keys of returned withdrawals: [request, kind]
    stuck,     \* payouts the expiry worker has read as stuck
    charges    \* admin charges so far

depositVars == <<intent, provider, creating, linked, inbox, replay, answers, posted>>
payoutVars  == <<payout, checked, refunds, stuck, charges>>
payVars     == <<depositVars, payoutVars, balance>>

IntentTerminal == {"succeeded", "failed", "refunded", "expired"}

\* The provider's final answers; "short" is finished with too small an amount.
Finished == {"finished", "short"}

ProviderTerminal == Finished \union {"failed", "expired"}

\* MapStatusToIntentStatus.
MapStatus(s) ==
    CASE s \in Finished      -> "succeeded"
      [] s = "confirming"    -> "processing"
      [] s = "failed"        -> "failed"
      [] s = "expired"       -> "expired"
      [] OTHER               -> "pending"

\* GetPaymentStatus: plisio and sepal always answer pending.
GetPaymentStatus(i) == IF i \in Queryable THEN provider[i] ELSE "waiting"

PayInit ==
    /\ intent = [i \in Intents |-> [status |-> "none", provId |-> FALSE, old |-> FALSE]]
    /\ provider = [i \in Intents |-> "none"]
    /\ creating = {} /\ linked = {} /\ inbox = {} /\ replay = {} /\ answers = {}
    /\ posted = [i \in Intents |-> 0]
    /\ balance = 0
    /\ payout = [r \in Requests |-> "none"]
    /\ checked = {} /\ refunds = {} /\ stuck = {} /\ charges = 0

-----------------------------------------------------------------------------
(* Creating a deposit: handleCreateDeposit and its fiat variant.           *)

\* The intent is inserted as pending and the provider is called.
CreateDeposit(i) ==
    /\ intent[i].status = "none"
    /\ intent' = [intent EXCEPT ![i].status = "pending"]
    /\ creating' = creating \union {i}
    /\ UNCHANGED <<provider, linked, inbox, replay, answers, posted, payoutVars, balance>>

\* The provider opens the payment; its answer may still be lost.
ProviderOpens(i) ==
    /\ i \in creating /\ provider[i] = "none"
    /\ provider' = [provider EXCEPT ![i] = "waiting"]
    /\ UNCHANGED <<intent, creating, linked, inbox, replay, answers, posted, payoutVars, balance>>

\* CreatePayment returned: the status is overwritten, or that update fails and
\* is only logged.  Either way the user gets the link.
CreatePaymentReturns(i) ==
    /\ i \in creating /\ provider[i] # "none"
    /\ intent' \in {intent, [intent EXCEPT ![i].status = "processing", ![i].provId = TRUE]}
    /\ creating' = creating \ {i}
    /\ linked' = linked \union {i}
    /\ UNCHANGED <<provider, inbox, replay, answers, posted, payoutVars, balance>>

\* CreatePayment failed or timed out: the status is overwritten with failed.
CreatePaymentFails(i) ==
    /\ i \in creating
    /\ intent' = [intent EXCEPT ![i].status = "failed"]
    /\ creating' = creating \ {i}
    /\ UNCHANGED <<provider, linked, inbox, replay, answers, posted, payoutVars, balance>>

\* The payment-service dies in between: the intent stays pending.
CreateCrashes(i) ==
    /\ i \in creating
    /\ creating' = creating \ {i}
    /\ UNCHANGED <<intent, provider, linked, inbox, replay, answers, posted, payoutVars, balance>>

\* The provider's life of a payment; every change is announced by a webhook.
\* Only a user who has the link can pay.
ProviderMoves(i) ==
    /\ provider[i] \in {"waiting", "confirming"}
    /\ \E s \in ProviderTerminal \union {"confirming"} :
          /\ s # provider[i]
          /\ s \in Finished \union {"confirming"} => i \in linked
          /\ provider' = [provider EXCEPT ![i] = s]
          /\ inbox' = inbox \union {[intent |-> i, status |-> s]}
    /\ UNCHANGED <<intent, creating, linked, replay, answers, posted, payoutVars, balance>>

\* Time passes: created_at is beyond the thresholds of cleanup and expiry.  The
\* thresholds exceed every request time-out, so no create is still waiting.
Age(i) ==
    /\ intent[i].status # "none" /\ ~intent[i].old /\ i \notin creating
    /\ intent' = [intent EXCEPT ![i].old = TRUE]
    /\ UNCHANGED <<provider, creating, linked, inbox, replay, answers, posted, payoutVars, balance>>

-----------------------------------------------------------------------------
(* Crediting.                                                              *)

\* Mutant: the Treasury ledger is not asked whether the intent was posted.
PostAgain(i) ==
    /\ posted' = [posted EXCEPT ![i] = @ + 1]
    /\ balance' = balance + Amount

\* wallet.PostConfirmedDeposit: a posted intent is left alone.
PostDeposit(i) ==
    /\ posted' = [posted EXCEPT ![i] = 1]
    /\ balance' = IF posted[i] = 0 THEN balance + Amount ELSE balance

SetStatus(i, s) == intent' = [intent EXCEPT ![i].status = s]

\* processWebhookEvent, in one transaction under the lock of the intent: a
\* terminal intent is skipped, a short payment fails it, a full one credits.
ApplyWebhook(i, s) ==
    IF intent[i].status \in IntentTerminal THEN UNCHANGED <<intent, posted, balance>>
    ELSE IF s = "finished" THEN PostDeposit(i) /\ SetStatus(i, "succeeded")
    ELSE SetStatus(i, IF s = "short" THEN "failed" ELSE MapStatus(s)) /\ UNCHANGED <<posted, balance>>

\* handleWebhook: the replay key is stored first; a webhook may come again.
HandleWebhook(e) ==
    /\ e \in inbox /\ e \notin replay
    /\ replay' = replay \union {e}
    /\ inbox' \in {inbox, inbox \ {e}}
    /\ ApplyWebhook(e.intent, e.status)
    /\ UNCHANGED <<provider, creating, linked, answers, payoutVars>>

\* Processing fails (stale exchange rate, database): 200 is answered anyway and
\* the key stays, so the provider's next try counts as a replay.
WebhookFails(e) ==
    /\ e \in inbox /\ e \notin replay
    /\ replay' = replay \union {e}
    /\ UNCHANGED <<intent, provider, creating, linked, inbox, answers, posted, payoutVars, balance>>

WebhookLost(e) ==
    /\ e \in inbox
    /\ inbox' = inbox \ {e}
    /\ UNCHANGED <<intent, provider, creating, linked, replay, answers, posted, payoutVars, balance>>

\* The Redis key expires.
ReplayExpires(e) ==
    /\ e \in replay
    /\ replay' = replay \ {e}
    /\ UNCHANGED <<intent, provider, creating, linked, inbox, answers, posted, payoutVars, balance>>

\* HandleJibitCallback: verified against Jibit, without a replay check.
JibitCallback(i) ==
    /\ i \in Jibit /\ provider[i] \in ProviderTerminal
    /\ ApplyWebhook(i, provider[i])
    /\ UNCHANGED <<provider, creating, linked, inbox, replay, answers, payoutVars>>

-----------------------------------------------------------------------------
(* Asking the provider, and writing afterwards.                            *)

Answer(by, i) == [by |-> by, intent |-> i, status |-> GetPaymentStatus(i)]

Ask(by, i) ==
    /\ ~\E a \in answers : a.by = by /\ a.intent = i
    /\ answers' = answers \union {Answer(by, i)}
    /\ UNCHANGED <<intent, provider, creating, linked, inbox, replay, posted, payoutVars, balance>>

\* HandleGetDepositStatus and HandleGetPaymentStatusByPurchaseID ask about a
\* processing intent, and keep only an answer that is not terminal.
PollAsks(i) ==
    /\ intent[i].status = "processing" /\ intent[i].provId
    /\ MapStatus(GetPaymentStatus(i)) \notin IntentTerminal \union {"processing"}
    /\ Ask("poll", i)

\* Mutant: only processing intents are looked for.
ExpiryAsksProcessing(i) ==
    /\ intent[i].status = "processing" /\ intent[i].provId /\ intent[i].old
    /\ MapStatus(GetPaymentStatus(i)) \in IntentTerminal
    /\ Ask("expiry", i)

\* expireStalePaymentIntents: old intents known to the provider.
ExpiryAsks(i) ==
    /\ intent[i].status \in {"pending", "processing"} /\ intent[i].provId /\ intent[i].old
    /\ MapStatus(GetPaymentStatus(i)) \in IntentTerminal
    /\ Ask("expiry", i)

\* inquireStuckJibitPayments: processing jibit intents.
InquiryAsks(i) ==
    /\ i \in Jibit /\ intent[i].status = "processing" /\ intent[i].provId
    /\ MapStatus(GetPaymentStatus(i)) \in IntentTerminal
    /\ Ask("inquiry", i)

\* updatePaymentIntentStatus: whatever the status is by now.
PollWrites(a) ==
    /\ a \in answers /\ a.by = "poll"
    /\ answers' = answers \ {a}
    /\ SetStatus(a.intent, MapStatus(a.status))
    /\ UNCHANGED <<provider, creating, linked, inbox, replay, posted, payoutVars, balance>>

\* processStalePaymentIntent and processStuckIntent: the status is checked
\* again under the lock; the amount paid is not looked at.
WorkerWrites(a) ==
    /\ a \in answers /\ a.by \in {"expiry", "inquiry"}
    /\ answers' = answers \ {a}
    /\ IF intent[a.intent].status \in IntentTerminal THEN UNCHANGED <<intent, posted, balance>>
       ELSE /\ SetStatus(a.intent, MapStatus(a.status))
            /\ IF a.status \in Finished THEN PostDeposit(a.intent) ELSE UNCHANGED <<posted, balance>>
    /\ UNCHANGED <<provider, creating, linked, inbox, replay, payoutVars>>

\* expireOrphanedPaymentIntents: old, pending and unknown to the provider.
CleanupOrphan(i) ==
    /\ intent[i].status = "pending" /\ ~intent[i].provId /\ intent[i].old
    /\ SetStatus(i, "expired")
    /\ UNCHANGED <<provider, creating, linked, inbox, replay, answers, posted, payoutVars, balance>>

-----------------------------------------------------------------------------
(* Withdrawals.                                                            *)

Held == {"pending", "processing"}

\* getWithdrawalUsage: all but cancelled and failed payouts.
DailyUsage == Cardinality({r \in Requests : payout[r] \notin {"none", "failed"}})

\* CheckWithdrawalLimits, before and outside the transaction.
CheckLimits(r) ==
    /\ payout[r] = "none" /\ r \notin checked
    /\ DailyUsage + 1 <= DailyCount
    /\ checked' = checked \union {r}
    /\ UNCHANGED <<depositVars, payout, refunds, stuck, charges, balance>>

\* Mutant: the idempotency key is not looked up.
CreateWithdrawAgain(r) ==
    /\ r \in checked
    /\ checked' = checked \ {r}
    /\ IF balance < Withdrawn + Fee THEN UNCHANGED <<payout, balance>>
       ELSE /\ balance' = balance - Withdrawn - Fee
            /\ payout' = [payout EXCEPT ![r] = "pending"]
    /\ UNCHANGED <<depositVars, refunds, stuck, charges>>

\* HandleCreateWithdraw: a known key answers with the earlier payout; otherwise
\* amount and fee are debited and the payout inserted in one transaction.
CreateWithdraw(r) ==
    /\ r \in checked
    /\ checked' = checked \ {r}
    /\ IF (\E q \in Requests : payout[q] # "none" /\ Key(q) = Key(r)) \/ balance < Withdrawn + Fee
       THEN UNCHANGED <<payout, balance>>
       ELSE /\ balance' = balance - Withdrawn - Fee
            /\ payout' = [payout EXCEPT ![r] = "pending"]
    /\ UNCHANGED <<depositVars, refunds, stuck, charges>>

\* CreditIdempotent of the amount and of the fee, under two keys of one kind.
Return(r, kind) ==
    LET entry == [request |-> r, kind |-> kind] IN
    /\ refunds' = refunds \union {entry}
    /\ balance' = IF entry \in refunds THEN balance ELSE balance + Withdrawn + Fee

ApproveWithdrawal(r) ==
    /\ payout[r] = "pending"
    /\ payout' = [payout EXCEPT ![r] = "processing"]
    /\ UNCHANGED <<depositVars, checked, refunds, stuck, charges, balance>>

RejectWithdrawal(r) ==
    /\ payout[r] \in Held
    /\ payout' = [payout EXCEPT ![r] = "rejected"]
    /\ Return(r, "refund")
    /\ UNCHANGED <<depositVars, checked, stuck, charges>>

\* The admin has paid by hand and gives the transaction id.
CompleteWithdrawal(r) ==
    /\ payout[r] = "processing"
    /\ payout' = [payout EXCEPT ![r] = "succeeded"]
    /\ UNCHANGED <<depositVars, checked, refunds, stuck, charges, balance>>

FailWithdrawal(r) ==
    /\ payout[r] = "processing"
    /\ payout' = [payout EXCEPT ![r] = "failed"]
    /\ Return(r, "refund")
    /\ UNCHANGED <<depositVars, checked, stuck, charges>>

\* rollbackStuckPayouts finds payouts nobody has reviewed in time.
FindStuckPayout(r) ==
    /\ payout[r] = "pending" /\ r \notin stuck
    /\ stuck' = stuck \union {r}
    /\ UNCHANGED <<depositVars, payout, checked, refunds, charges, balance>>

\* Mutant: the status is not read again under the lock.
RollbackUnchecked(r) ==
    /\ r \in stuck
    /\ stuck' = stuck \ {r}
    /\ payout' = [payout EXCEPT ![r] = "failed"]
    /\ Return(r, "rollback")
    /\ UNCHANGED <<depositVars, checked, charges>>

\* processStuckPayout: under the lock, only what is still pending.
RollbackStuckPayout(r) ==
    /\ r \in stuck
    /\ stuck' = stuck \ {r}
    /\ IF payout[r] # "pending" THEN UNCHANGED <<payout, refunds, balance>>
       ELSE payout' = [payout EXCEPT ![r] = "failed"] /\ Return(r, "rollback")
    /\ UNCHANGED <<depositVars, checked, charges>>

\* handleChargeUserWallet: the key contains the time, so a repeated request is
\* a new charge; a debit needs the balance.
ChargeUserWallet ==
    /\ charges < MaxCharges
    /\ charges' = charges + 1
    /\ balance' = balance + Charged
    /\ UNCHANGED <<depositVars, payout, checked, refunds, stuck>>

-----------------------------------------------------------------------------

Deposit(i) ==
    \/ CreateDeposit(i) \/ ProviderOpens(i) \/ CreatePaymentReturns(i)
    \/ CreatePaymentFails(i) \/ CreateCrashes(i) \/ ProviderMoves(i)
    \/ JibitCallback(i) \/ PollAsks(i) \/ InquiryAsks(i) \/ CleanupOrphan(i)

Webhook(e) == HandleWebhook(e) \/ WebhookFails(e) \/ WebhookLost(e) \/ ReplayExpires(e)

Withdrawal(r) ==
    \/ CheckLimits(r) \/ CreateWithdraw(r) \/ ApproveWithdrawal(r)
    \/ RejectWithdrawal(r) \/ CompleteWithdrawal(r) \/ FailWithdrawal(r)
    \/ FindStuckPayout(r) \/ RollbackStuckPayout(r)

PayNext ==
    \/ \E i \in Intents : Deposit(i) \/ Age(i) \/ ExpiryAsks(i)
    \/ \E e \in inbox \union replay : Webhook(e)
    \/ \E a \in answers : PollWrites(a) \/ WorkerWrites(a)
    \/ \E r \in Requests : Withdrawal(r)
    \/ ChargeUserWallet

\* Time passes, requests end, and the expiry worker's ticker fires.  Webhooks
\* and admins owe nothing.
PayFairness ==
    /\ \A i \in Intents : WF_payVars(Age(i)) /\ WF_payVars(ExpiryAsks(i))
    /\ \A i \in Intents :
          WF_payVars(\E a \in answers : a.intent = i /\ (PollWrites(a) \/ WorkerWrites(a)))
    /\ \A i \in Intents : WF_payVars(CreatePaymentReturns(i) \/ CreatePaymentFails(i))

PaySpec == PayInit /\ [][PayNext]_payVars /\ PayFairness

-----------------------------------------------------------------------------

IntentStatuses == {"none", "pending", "processing"} \union IntentTerminal

ProviderStates == {"none", "waiting", "confirming"} \union ProviderTerminal

PayTypeOK ==
    /\ intent \in [Intents -> [status : IntentStatuses, provId : BOOLEAN, old : BOOLEAN]]
    /\ provider \in [Intents -> ProviderStates]
    /\ creating \subseteq Intents /\ linked \subseteq Intents
    /\ inbox \subseteq [intent : Intents, status : ProviderStates]
    /\ replay \subseteq [intent : Intents, status : ProviderStates]
    /\ answers \subseteq [by : {"poll", "expiry", "inquiry"}, intent : Intents,
                          status : ProviderStates]
    /\ posted \in [Intents -> Nat]
    /\ payout \in [Requests -> Held \union {"none", "succeeded", "rejected", "failed"}]
    /\ checked \subseteq Requests /\ stuck \subseteq Requests
    /\ refunds \subseteq [request : Requests, kind : {"refund", "rollback"}]
    /\ charges \in Nat

\* What a webhook on its way or an answer already read says of a finished payment
\* is still so when it is acted on; and a poll never holds a terminal answer.
ReportsTrue ==
    /\ \A e \in inbox : e.status \in Finished => provider[e.intent] = e.status
    /\ \A a \in answers : a.status \in Finished => provider[a.intent] = a.status
    /\ \A a \in answers : a.by = "poll" => MapStatus(a.status) \notin IntentTerminal

\* However often webhook, callback, inquiry and expiry find the same finished
\* payment, and however its status was overwritten in between, an intent is
\* credited at most once, and only if the provider says it is finished.
CreditedOnce ==
    \A i \in Intents :
        /\ posted[i] <= 1
        /\ posted[i] = 1 => provider[i] \in Finished

\* An intent shown as succeeded has been credited.
SucceededCredited == \A i \in Intents : intent[i].status = "succeeded" => posted[i] = 1

\* Intents and ledger tell one story: an intent is credited at most once, only
\* for a finished payment, and is never shown as succeeded without its credit.
DepositsBacked == PayTypeOK /\ ReportsTrue /\ CreditedOnce /\ SucceededCredited

\* A withdrawal whose money went back has ended: it is neither held nor paid.
ReturnedEnded ==
    \A e \in refunds :
        \/ payout[e.request] = "failed"
        \/ payout[e.request] = "rejected" /\ e.kind = "refund"

\* The deposits that were credited, and the withdrawals whose money is gone.
Credits == {i \in Intents : posted[i] > 0}

Kept == {r \in Requests : payout[r] \in Held \union {"succeeded"}}

\* The wallet holds exactly what came in, less every withdrawal that is held or
\* paid: one that ended any other way has been returned in full, once.
FundsAccounted ==
    /\ ReturnedEnded
    /\ balance \in Nat
    /\ balance = Amount * Cardinality(Credits) + Charged * charges
                 - (Withdrawn + Fee) * Cardinality(Kept)

\* One idempotency key never debits twice.
KeyDebitsOnce ==
    \A q, r \in Requests : payout[q] # "none" /\ payout[r] # "none" /\ Key(q) = Key(r) => q = r

\* A payment its provider reports finished, and whose id was stored, is
\* credited or failed for good, even if every webhook is lost: stale polls may
\* overwrite the status, the expiry worker restores it.
DepositResolved ==
    \A i \in Queryable :
        (provider[i] \in Finished /\ intent[i].provId)
            ~> [](intent[i].status = "succeeded" \/ intent[i].status = "failed")
=============================================================================
