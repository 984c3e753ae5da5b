--------------------------- MODULE SecurityCodes ---------------------------
(***************************************************************************)
(* The codes sent to a user: the one-time password of a phone login (Lua   *)
(* scripts on Redis keys), the code of a forgotten password and the code   *)
(* that verifies an address (rows in PostgreSQL).  Each is issued in two   *)
(* steps around the delivery, and checked by requests that may race.       *)
(* A code is the number of its issue; a guess is right when it names it.   *)
(***************************************************************************)
EXTENDS Integers, FiniteSets

CONSTANTS Clients,       \* requests in flight at a time
          MaxCodes,      \* bound on the codes issued
          MaxGuesses     \* CanonicalOTPMaxAttempts, securityCodeMaxAttempts

ASSUME CodesAssumption == IsFiniteSet(Clients) /\ MaxCodes \in Nat /\ MaxGuesses \in Nat \ {0}

Codes == 1 .. MaxCodes
Quiet == [op |-> "idle", code |-> 0, seen |-> {}]

VARIABLES
  otp,      \* the Redis keys of one phone: code, attempts, cooldown, pending
  reset,    \* rows of password_reset_codes, by code
  verif,    \* rows of verification_codes, by code
  tokens,   \* password-set tokens in Redis, by the code they were exchanged for
  flow,     \* the requests in flight
  made,     \* codes issued so far
  wrong,    \* (history) wrong guesses counted against each code
  accepted, \* (history) how often each code was accepted
  flags     \* users: the passwords set by a reset, the address verified

codeVars == <<otp, reset, verif, tokens, flow, made, wrong, accepted, flags>>

CodesInit ==
  /\ otp = [code |-> 0, attempts |-> 0, cooldown |-> FALSE, pending |-> 0]
  /\ reset = [c \in Codes |-> [state |-> "none", attempts |-> 0]]
  /\ verif = [c \in Codes |-> [state |-> "none", attempts |-> 0]]
  /\ tokens = {}
  /\ flow = [w \in Clients |-> Quiet]
  /\ made = 0
  /\ wrong = [c \in Codes |-> 0]
  /\ accepted = [c \in Codes |-> 0]
  /\ flags = [sets |-> 0, verified |-> FALSE]

Step(w, op, c) == flow' = [flow EXCEPT ![w] = [op |-> op, code |-> c, seen |-> {}]]
Finish(w) == flow' = [flow EXCEPT ![w] = Quiet]

-----------------------------------------------------------------------------
(* The one-time password of a phone. *)

\* SendOTP reserves the phone: no cooldown, no other reservation.
ReserveOTP(w) ==
  /\ flow[w] = Quiet /\ made < MaxCodes
  /\ ~otp.cooldown /\ otp.pending = 0
  /\ made' = made + 1
  /\ otp' = [otp EXCEPT !.pending = made + 1]
  /\ Step(w, "otpSend", made + 1)
  /\ UNCHANGED <<reset, verif, tokens, wrong, accepted, flags>>

\* The reservation's key expires while the provider is slow, or a cooldown ends.
OTPKeyExpires ==
  /\ \/ otp.pending # 0 /\ otp' = [otp EXCEPT !.pending = 0]
     \/ otp.cooldown /\ otp' = [otp EXCEPT !.cooldown = FALSE]
     \/ otp.code # 0 /\ otp' = [otp EXCEPT !.code = 0]
  /\ UNCHANGED <<reset, verif, tokens, flow, made, wrong, accepted, flags>>

\* Delivered: the code becomes the phone's code if the reservation is still ours.
ActivateOTP(w) ==
  /\ flow[w].op = "otpSend"
  /\ Finish(w)
  /\ otp' = IF otp.pending = flow[w].code
            THEN [code |-> flow[w].code, attempts |-> 0, cooldown |-> TRUE, pending |-> 0]
            ELSE otp
  /\ UNCHANGED <<reset, verif, tokens, made, wrong, accepted, flags>>

\* Not delivered.
CancelOTP(w) ==
  /\ flow[w].op = "otpSend"
  /\ Finish(w)
  /\ otp' = IF otp.pending = flow[w].code
            THEN [otp EXCEPT !.cooldown = TRUE, !.pending = 0] ELSE otp
  /\ UNCHANGED <<reset, verif, tokens, made, wrong, accepted, flags>>

\* VerifyOTP loads the digest and compares it with the guess outside any lock ...
LoadOTP(w) ==
  /\ flow[w] = Quiet /\ otp.code # 0
  /\ \/ Step(w, "otpWrong", otp.code)
     \/ Step(w, "otpRight", otp.code)
  /\ UNCHANGED <<otp, reset, verif, tokens, made, wrong, accepted, flags>>

\* ... then counts the failure, against the code it compared with only.
RecordOTPFailure(w) ==
  /\ flow[w].op = "otpWrong"
  /\ Finish(w)
  /\ LET c == flow[w].code n == otp.attempts + 1 IN
       IF otp.code # c THEN UNCHANGED <<otp, wrong>>
       ELSE /\ wrong' = [wrong EXCEPT ![c] = @ + 1]
            /\ otp' = IF n >= MaxGuesses
                      THEN [otp EXCEPT !.code = 0, !.attempts = 0, !.cooldown = FALSE]
                      ELSE [otp EXCEPT !.attempts = n]
  /\ UNCHANGED <<reset, verif, tokens, made, accepted, flags>>

\* A Consume that does not compare the key with the digest it was checked against.
ConsumeOTPUnchecked(w) ==
  /\ flow[w].op = "otpRight"
  /\ Finish(w)
  /\ otp' = [otp EXCEPT !.code = 0, !.attempts = 0, !.cooldown = FALSE]
  /\ accepted' = [accepted EXCEPT ![flow[w].code] = @ + 1]
  /\ UNCHANGED <<reset, verif, tokens, made, wrong, flags>>

\* ... or consumes the code, if it is still the one that was compared.
ConsumeOTP(w) ==
  /\ flow[w].op = "otpRight"
  /\ Finish(w)
  /\ IF otp.code = flow[w].code
     THEN /\ otp' = [otp EXCEPT !.code = 0, !.attempts = 0, !.cooldown = FALSE]
          /\ accepted' = [accepted EXCEPT ![flow[w].code] = @ + 1]
     ELSE UNCHANGED <<otp, accepted>>
  /\ UNCHANGED <<reset, verif, tokens, made, wrong, flags>>

OTPNext ==
  \/ \E w \in Clients : ReserveOTP(w) \/ ActivateOTP(w) \/ CancelOTP(w) \/ LoadOTP(w)
                        \/ RecordOTPFailure(w) \/ ConsumeOTP(w)
  \/ OTPKeyExpires

-----------------------------------------------------------------------------
(* The code of a forgotten password. *)

\* handleForgotPasswordRequest: the cooldown looks for a row of the last 60
\* seconds, which another request's transaction may be about to commit; the
\* row is written expired, and the session in Redis names it.
RequestReset(w) ==
  /\ flow[w] = Quiet /\ made < MaxCodes
  /\ made' = made + 1
  /\ reset' = [reset EXCEPT ![made + 1].state = "inactive"]
  /\ Step(w, "resetSend", made + 1)
  /\ UNCHANGED <<otp, verif, tokens, wrong, accepted, flags>>

\* Not delivered, or not activated: the session is dropped and the row is spent.
ResetNotDelivered(w) ==
  /\ flow[w].op = "resetSend"
  /\ Finish(w)
  /\ reset' = [reset EXCEPT ![flow[w].code].state = "used"]
  /\ UNCHANGED <<otp, verif, tokens, made, wrong, accepted, flags>>

\* Delivered: every other unused code of the user is spent, and this one made
\* valid unless another request has spent it.
ActivateReset(w) ==
  /\ flow[w].op = "resetSend"
  /\ Finish(w)
  /\ LET c == flow[w].code IN
       reset' = IF reset[c].state = "used" THEN reset
                ELSE [d \in Codes |->
                        IF d = c THEN [state |-> "active", attempts |-> 0]
                        ELSE IF reset[d].state \in {"inactive", "active"}
                             THEN [reset[d] EXCEPT !.state = "used"] ELSE reset[d]]
  /\ UNCHANGED <<otp, verif, tokens, made, wrong, accepted, flags>>

\* handleForgotPasswordVerify locks the row: a wrong code counts, and the last
\* one spends the row ...
WrongReset(c) ==
  /\ reset[c].state = "active" /\ reset[c].attempts < MaxGuesses
  /\ wrong' = [wrong EXCEPT ![c] = @ + 1]
  /\ reset' = [reset EXCEPT ![c].attempts = @ + 1,
                            ![c].state = IF reset[c].attempts + 1 >= MaxGuesses THEN "used" ELSE @]
  /\ UNCHANGED <<otp, verif, tokens, flow, made, accepted, flags>>

\* ... the right one spends it too, before the session in Redis is exchanged.
VerifyReset(w, c) ==
  /\ flow[w] = Quiet
  /\ reset[c].state = "active" /\ reset[c].attempts < MaxGuesses
  /\ reset' = [reset EXCEPT ![c].state = "used"]
  /\ accepted' = [accepted EXCEPT ![c] = @ + 1]
  /\ Step(w, "exchange", c)
  /\ UNCHANGED <<otp, verif, tokens, made, wrong, flags>>

\* The exchange script swaps the session for a password-set token, or fails
\* when the session has expired: the user starts again.
ExchangeSession(w) ==
  /\ flow[w].op = "exchange"
  /\ Finish(w)
  /\ tokens' \in {tokens, tokens \cup {flow[w].code}}
  /\ UNCHANGED <<otp, reset, verif, made, wrong, accepted, flags>>

\* handleForgotPasswordReset consumes the token; a password equal to the old
\* one, or sessions that cannot be deleted, leave it spent.
ConsumeSetToken(w, c) ==
  /\ flow[w] = Quiet /\ c \in tokens
  /\ tokens' = tokens \ {c}
  /\ \/ Step(w, "setPassword", c)
     \/ UNCHANGED flow
  /\ UNCHANGED <<otp, reset, verif, made, wrong, accepted, flags>>

\* After DeleteAllForUser: the password is stored and every unused code spent.
SetPassword(w) ==
  /\ flow[w].op = "setPassword"
  /\ Finish(w)
  /\ flags' = [flags EXCEPT !.sets = @ + 1]
  /\ reset' = [d \in Codes |-> IF reset[d].state \in {"inactive", "active"}
                               THEN [reset[d] EXCEPT !.state = "used"] ELSE reset[d]]
  /\ UNCHANGED <<otp, verif, tokens, made, wrong, accepted>>

\* Ten minutes pass over a valid code.
ResetExpires(c) ==
  /\ reset[c].state = "active"
  /\ reset' = [reset EXCEPT ![c].state = "expired"]
  /\ UNCHANGED <<otp, verif, tokens, flow, made, wrong, accepted, flags>>

ResetNext ==
  \/ \E w \in Clients : RequestReset(w) \/ ResetNotDelivered(w) \/ ActivateReset(w)
                        \/ ExchangeSession(w) \/ SetPassword(w)
  \/ \E c \in Codes : WrongReset(c) \/ ResetExpires(c)
                      \/ \E w \in Clients : VerifyReset(w, c) \/ ConsumeSetToken(w, c)

-----------------------------------------------------------------------------
(* The code that verifies an address. *)

\* issueVerificationCode: as for a reset, the row starts expired.
IssueVerification(w) ==
  /\ flow[w] = Quiet /\ made < MaxCodes /\ ~flags.verified
  /\ made' = made + 1
  /\ verif' = [verif EXCEPT ![made + 1].state = "inactive"]
  /\ Step(w, "verifSend", made + 1)
  /\ UNCHANGED <<otp, reset, tokens, wrong, accepted, flags>>

VerificationNotDelivered(w) ==
  /\ flow[w].op = "verifSend"
  /\ Finish(w)
  /\ verif' = [verif EXCEPT ![flow[w].code].state = "verified"]
  /\ UNCHANGED <<otp, reset, tokens, made, wrong, accepted, flags>>

\* Delivered: the activation's first statement expires, and locks, the codes
\* it sees valid ...
ExpireOthers(w) ==
  /\ flow[w].op = "verifSend"
  /\ flow' = [flow EXCEPT ![w] = [op |-> "verifActivate", code |-> flow[w].code,
                                  seen |-> {d \in Codes : verif[d].state = "active"}]]
  /\ UNCHANGED <<otp, reset, verif, tokens, made, wrong, accepted, flags>>

\* ... and its commit makes its own valid: a code that was activated in
\* between stays valid as well.
ActivateVerification(w) ==
  /\ flow[w].op = "verifActivate"
  /\ Finish(w)
  /\ verif' = [d \in Codes |->
                 IF d = flow[w].code THEN [state |-> "active", attempts |-> 0]
                 ELSE IF d \in flow[w].seen THEN [verif[d] EXCEPT !.state = "expired"] ELSE verif[d]]
  /\ UNCHANGED <<otp, reset, tokens, made, wrong, accepted, flags>>

\* verifyVerificationCode takes, and locks, the newest valid row of the user.
Newest(c) ==
  /\ verif[c].state = "active"
  /\ \A d \in Codes : d > c => verif[d].state # "active"
  /\ \A w \in Clients : c \notin flow[w].seen

WrongVerification(c) ==
  /\ Newest(c) /\ verif[c].attempts < MaxGuesses
  /\ wrong' = [wrong EXCEPT ![c] = @ + 1]
  /\ verif' = [verif EXCEPT ![c].attempts = @ + 1,
                            ![c].state = IF verif[c].attempts + 1 >= MaxGuesses THEN "expired" ELSE @]
  /\ UNCHANGED <<otp, reset, tokens, flow, made, accepted, flags>>

VerifyCode(c) ==
  /\ Newest(c) /\ verif[c].attempts < MaxGuesses
  /\ verif' = [verif EXCEPT ![c].state = "verified"]
  /\ accepted' = [accepted EXCEPT ![c] = @ + 1]
  /\ flags' = [flags EXCEPT !.verified = TRUE]
  /\ UNCHANGED <<otp, reset, tokens, flow, made, wrong>>

VerificationNext ==
  \/ \E w \in Clients : IssueVerification(w) \/ VerificationNotDelivered(w)
                        \/ ExpireOthers(w) \/ ActivateVerification(w)
  \/ \E c \in Codes : WrongVerification(c) \/ VerifyCode(c)

-----------------------------------------------------------------------------
\* No code is accepted twice, and none after it has met MaxGuesses wrong
\* guesses, although two requests may compare guesses with it at once and a
\* new code may replace it while a guess is being checked.
CodeAcceptedOnce ==
  \A c \in Codes : accepted[c] <= 1 /\ wrong[c] <= MaxGuesses

\* Every password set by the forgotten-password flow is paid for by an
\* accepted code of its own: verification, exchange and reset are three
\* requests, each of which may run twice.
ResetsBacked ==
  flags.sets + Cardinality(tokens) + Cardinality({w \in Clients : flow[w].op \in {"exchange", "setPassword"}})
    <= Cardinality({c \in Codes : accepted[c] = 1})
=============================================================================
