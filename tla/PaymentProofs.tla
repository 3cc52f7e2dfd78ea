---------------------------- MODULE PaymentProofs ----------------------------
(***************************************************************************)
(* Two ways of being paid.  For the payment providers, any merchant's       *)
(* terms, payments, tokens and bounds: a repeated capture has the answer   *)
(* it had, tokens are taken for the terms of their session, and Stripe     *)
(* takes a session's money and a shared payment token's once.  For x402,   *)
(* any calls, requirements, limits, policies and bounds: what is settled   *)
(* was allowed, what is served was paid, a signed payment is settled once. *)
(*                                                                         *)
(* x402 is a system of its own; its constants and variables are declared   *)
(* in its section, and its definitions are those of the instance Fetch.    *)
(***************************************************************************)
EXTENDS PaymentProvider, SequenceTheorems, TLAPS

(***************************************************************************)
(* The providers                                                           *)
(***************************************************************************)
Reason == {"expired", "other", "requires_authentication", "declined", "expired_card",
           "insufficient_funds", "limit_exceeded", "revoked", "seller_mismatch", "spt_expired",
           "spt_revoked", "spt_seller_mismatch", "amount_exceeded"}
CaptureId == TokenRecord \X Session \cup {<<s>> : s \in Session}
Result == {Captured(id) : id \in CaptureId} \cup {Failed(reason) : reason \in Reason}
Paying == UNION {Payment(s) : s \in Session}
Answer == [session : Session, token : TokenRecord, result : Result, decided : BOOLEAN,
           life : Nat, alone : BOOLEAN]
CallState == [at : {"idle", "validating", "verifying", "charging"}, session : Session \cup {"none"},
              payment : Paying \cup {[none |-> 0]}, alone : BOOLEAN]

Busy(c) == call[c].at # "idle"

TypeOK ==
  /\ provider \in {"mock", "reference", "stripe"} /\ restarts \in Nat
  /\ call \in [Call -> CallState]
  /\ \A c \in Call : Busy(c) => call[c].session \in Session /\ call[c].payment \in Payment(call[c].session)
  /\ \A c \in Call : call[c].at = "verifying" => provider = "reference"
  /\ \A c \in Call : call[c].at = "charging" => provider = "stripe"
  /\ captures \in [Session -> Result \cup {Unknown}]
  /\ answers \in Seq(Answer)
  /\ \A i \in DOMAIN answers : answers[i].life <= restarts

\* Stripe has one decision for a session; an answer is that, or none.
Decided(i) ==
  \E k \in stripe :
    /\ k.session = answers[i].session
    /\ answers[i].result = StripeResult(ReplyOf(k, answers[i].token), answers[i].token.kind = "spt",
                                        <<answers[i].session>>)

StripeKept ==
  /\ \A k, l \in stripe : k.session = l.session => k = l
  /\ provider = "stripe" => \A i \in DOMAIN answers :
       IF answers[i].decided THEN Decided(i) ELSE answers[i].result = Failed("other")

\* What was taken was decided, or allowed by the buyer; what was decided to be taken, was.
SpentOnce ==
  /\ \A x \in spent : \E k \in stripe : k.session = x.session /\ k.status \in Taken \cup Waiting
  /\ \A k \in stripe : k.status \in Taken => \E x \in spent : x.session = k.session
  /\ TakenOnce

\* In the life that is, what a capture alone of its session was answered is what the map has, and
\* no capture that read the map before is still to write it.
Counts(i) == provider # "stripe" /\ answers[i].life = restarts /\ answers[i].alone

MapKept ==
  /\ \A i \in DOMAIN answers : Counts(i) =>
       /\ captures[answers[i].session] = answers[i].result /\ answers[i].result # Unknown
       /\ \A c \in Call : call[c].at = "verifying" => call[c].session # answers[i].session
  /\ \A i, j \in DOMAIN answers : i < j /\ provider # "stripe" /\ Linked(i, j) =>
       answers[j].result = answers[i].result
  /\ \A c, d \in Call : Busy(c) /\ Busy(d) /\ c # d /\ call[c].session = call[d].session => ~call[c].alone

\* The reference provider's captures are of tokens for the session's terms.
ForSession(s, result) ==
  result.ok => /\ result.id[1].scope.session = s
               /\ result.id[1].scope.amount = Terms(s).amount
               /\ result.id[1].scope.currency = Terms(s).currency
Meant ==
  provider = "reference" =>
    /\ \A s \in Session : ForSession(s, captures[s])
    /\ \A i \in DOMAIN answers : ForSession(answers[i].session, answers[i].result)

IInv == TypeOK /\ StripeKept /\ SpentOnce /\ MapKept /\ Meant

(***************************************************************************)
(* Results                                                                 *)
(***************************************************************************)
LEMMA ResultsAre ==
  /\ \A t \in TokenRecord, s \in Session : Captured(<<t, s>>) \in Result
  /\ \A s \in Session : Captured(<<s>>) \in Result
  /\ \A reason \in Reason : Failed(reason) \in Result
  /\ \A result \in Result : result # Unknown
<1>1. \A id : Captured(id) # Unknown
  BY DEF Captured, Unknown
<1>2. \A reason \in Reason : Failed(reason) # Unknown
  BY DEF Failed, Unknown, Reason
<1>3. \A id \in CaptureId : Captured(id) \in Result
  BY DEF Result
<1>4. \A reason \in Reason : Failed(reason) \in Result
  BY DEF Result
<1>5. \A t \in TokenRecord, s \in Session : <<t, s>> \in CaptureId
  <2> HIDE DEF TokenRecord
  <2> QED BY DEF CaptureId
<1>6. \A s \in Session : <<s>> \in CaptureId
  BY DEF CaptureId
<1>7. ASSUME NEW result \in Result PROVE result # Unknown
  <2>1. \/ \E id \in CaptureId : result = Captured(id)
        \/ \E reason \in Reason : result = Failed(reason)
    BY DEF Result
  <2> QED BY <1>1, <1>2, <2>1
<1> QED BY <1>3, <1>4, <1>5, <1>6, <1>7

LEMMA StripeAnswers ==
  ASSUME NEW status, NEW spt \in BOOLEAN, NEW s \in Session
  PROVE  StripeResult(status, spt, <<s>>) \in Result
<1>1. PICK id : id = <<s>>
  OBVIOUS
<1>2. Captured(id) \in Result /\ \A reason \in Reason : Failed(reason) \in Result
  BY <1>1, ResultsAre
<1>3. paymentResult(status, id) \in Result
  BY <1>2 DEF paymentResult, Reason
<1>4. \/ sharedTokenResult(status, id) = paymentResult(status, id)
      \/ \E reason \in Reason : sharedTokenResult(status, id) = Failed(reason)
  BY DEF sharedTokenResult, Reason
<1>5. sharedTokenResult(status, id) \in Result
  BY <1>2, <1>3, <1>4
<1>6. PICK shared \in Result : shared = sharedTokenResult(status, id)
  BY <1>5
<1>7. neutralStripeResult(shared) = shared
      \/ \E reason \in Reason : neutralStripeResult(shared) = Failed(reason)
  BY DEF neutralStripeResult, Reason
<1>8. neutralStripeResult(shared) \in Result
  BY <1>2, <1>7
<1> QED BY <1>1, <1>3, <1>6, <1>8 DEF StripeResult

(***************************************************************************)
(* Types                                                                   *)
(***************************************************************************)
LEMMA PaymentsAre ==
  ASSUME ProviderAssumption, NEW s \in Session, NEW p \in Payment(s)
  PROVE  p \in Paying /\ p.token \in TokenRecord
  BY DEF ProviderAssumption, Paying

LEMMA IdleIs == Idle \in CallState /\ Idle.at = "idle"
  BY DEF Idle, CallState

\* A capture that returns adds its answer to those before.
LEMMA AnswerAdded ==
  ASSUME ProviderAssumption, TypeOK, NEW c \in Call, Busy(c), NEW result \in Result,
         NEW decided \in BOOLEAN, Answered(c, result, decided)
  PROVE  LET n == Len(answers) + 1
         IN /\ answers' \in Seq(Answer) /\ Len(answers') = n /\ n \in DOMAIN answers'
            /\ \A i \in DOMAIN answers' : i = n \/ i \in DOMAIN answers
            /\ \A i \in DOMAIN answers : i \in DOMAIN answers' /\ i < n /\ answers'[i] = answers[i]
            /\ answers'[n].session = call[c].session /\ answers'[n].token = call[c].payment.token
            /\ answers'[n].result = result /\ answers'[n].decided = decided
            /\ answers'[n].life = restarts /\ answers'[n].alone = call[c].alone
<1>1. PICK a : a = [session |-> call[c].session, token |-> call[c].payment.token,
                    result |-> result, decided |-> decided,
                    life |-> restarts, alone |-> call[c].alone]
  OBVIOUS
<1>2. call[c].session \in Session /\ call[c].payment.token \in TokenRecord /\ call[c].alone \in BOOLEAN
  BY PaymentsAre DEF TypeOK, CallState
<1>3. a \in Answer
  BY <1>1, <1>2 DEF Answer, TypeOK
<1>4. answers' = Append(answers, a) /\ answers \in Seq(Answer)
  BY <1>1 DEF Answered, TypeOK
<1> HIDE DEF Answer
<1>5. /\ answers' \in Seq(Answer) /\ Len(answers') = Len(answers) + 1
      /\ answers'[Len(answers) + 1] = a
      /\ \A i \in 1..Len(answers) : answers'[i] = answers[i]
  BY <1>3, <1>4
<1>6. DOMAIN answers = 1..Len(answers) /\ DOMAIN answers' = 1..Len(answers) + 1 /\ Len(answers) \in Nat
  BY <1>4, <1>5
<1>7. /\ a.session = call[c].session /\ a.token = call[c].payment.token /\ a.result = result
      /\ a.decided = decided /\ a.life = restarts /\ a.alone = call[c].alone
  BY <1>1
<1> QED BY <1>5, <1>6, <1>7

LEMMA AnswerIs ==
  ASSUME TypeOK, NEW i \in DOMAIN answers
  PROVE  /\ answers[i].session \in Session /\ answers[i].life \in Nat
         /\ answers[i].result \in Result /\ answers[i].life <= restarts
<1>1. answers[i] \in Answer
  <2> HIDE DEF Answer
  <2> QED BY DEF TypeOK
<1> QED BY <1>1 DEF Answer, TypeOK

LEMMA CallOver ==
  ASSUME TypeOK, NEW c \in Call, call' = [call EXCEPT ![c] = Idle]
  PROVE  /\ call' \in [Call -> CallState] /\ ~Busy(c)'
         /\ \A d \in Call \ {c} : call'[d] = call[d]
         /\ call'[c].at = "idle"
  BY IdleIs DEF TypeOK, Busy

LEMMA CallMoves ==
  ASSUME TypeOK, NEW c \in Call, NEW at \in {"idle", "validating", "verifying", "charging"},
         call' = [call EXCEPT ![c].at = at]
  PROVE  /\ call' \in [Call -> CallState] /\ call'[c].at = at
         /\ call'[c].session = call[c].session /\ call'[c].payment = call[c].payment
         /\ call'[c].alone = call[c].alone
         /\ \A d \in Call \ {c} : call'[d] = call[d]
  BY DEF TypeOK, CallState

\* A capture that begins makes those of its session overlap.
LEMMA CallBegins ==
  ASSUME TypeOK, NEW c \in Call, NEW s \in Session, NEW p \in Payment(s), capture(c, s, p)
  PROVE  /\ call' \in [Call -> CallState]
         /\ call'[c].at = "validating" /\ call'[c].session = s /\ call'[c].payment = p
         /\ call'[c].alone => \A d \in Call : Busy(d) => call[d].session # s
         /\ \A d \in Call \ {c} :
              /\ call'[d].at = call[d].at /\ call'[d].session = call[d].session
              /\ call'[d].payment = call[d].payment
              /\ Busy(d) /\ call[d].session = s => ~call'[d].alone
              /\ call'[d].alone => call[d].alone
<1>1. PICK others : others = {d \in Call : call[d].at # "idle" /\ call[d].session = s}
  OBVIOUS
<1>2. call' = [d \in Call |->
          IF d = c THEN [at |-> "validating", session |-> s, payment |-> p, alone |-> others = {}]
          ELSE IF d \in others THEN [call[d] EXCEPT !.alone = FALSE] ELSE call[d]]
  BY <1>1 DEF capture
<1>3. PICK new : new = [at |-> "validating", session |-> s, payment |-> p, alone |-> others = {}]
  OBVIOUS
<1>4. new \in CallState /\ new.at = "validating" /\ new.session = s /\ new.payment = p
      /\ (new.alone <=> others = {})
  <2>1. p \in Paying
    BY DEF Paying
  <2>2. (others = {}) \in BOOLEAN
    OBVIOUS
  <2> QED BY <1>3, <2>1, <2>2 DEF CallState
<1>5. call'[c] = new
  BY <1>2, <1>3
<1>6. ASSUME NEW d \in Call \ {c}
      PROVE  /\ call'[d] \in CallState
             /\ call'[d].at = call[d].at /\ call'[d].session = call[d].session
             /\ call'[d].payment = call[d].payment
             /\ Busy(d) /\ call[d].session = s => ~call'[d].alone
             /\ call'[d].alone => call[d].alone
  <2>1. call[d] \in CallState
    BY DEF TypeOK
  <2>2. CASE d \in others
    BY <1>2, <2>1, <2>2 DEF CallState
  <2>3. CASE d \notin others
    BY <1>1, <1>2, <2>1, <2>3 DEF Busy
  <2> QED BY <2>2, <2>3
<1>7. call' \in [Call -> CallState]
  <2>1. \A d \in Call : call'[d] \in CallState
    BY <1>4, <1>5, <1>6
  <2>2. call' = [d \in Call |-> call'[d]]
    BY <1>2
  <2> QED BY <2>1, <2>2
<1>8. call'[c].alone => \A d \in Call : Busy(d) => call[d].session # s
  BY <1>1, <1>4, <1>5 DEF Busy
<1> QED BY <1>4, <1>5, <1>6, <1>7, <1>8

LEMMA ReturnTyped ==
  ASSUME ProviderAssumption, TypeOK, NEW c \in Call, Busy(c), NEW result \in Result,
         NEW decided \in BOOLEAN, Answered(c, result, decided),
         captures' \in [Session -> Result \cup {Unknown}], UNCHANGED <<provider, restarts>>
  PROVE  TypeOK'
<1>1. PICK n : n = Len(answers) + 1
  OBVIOUS
<1>2. /\ answers' \in Seq(Answer)
      /\ \A i \in DOMAIN answers' : i = n \/ i \in DOMAIN answers
      /\ \A i \in DOMAIN answers : answers'[i] = answers[i]
      /\ answers'[n].life = restarts
  BY <1>1, AnswerAdded, Zenon
<1>3. /\ call' \in [Call -> CallState] /\ ~Busy(c)' /\ call'[c].at = "idle"
      /\ \A d \in Call \ {c} : call'[d] = call[d]
  BY CallOver DEF Answered
<1>4. \A d \in Call : Busy(d)' => d # c /\ Busy(d)
  BY <1>3 DEF Busy
<1>5. \A i \in DOMAIN answers' : answers'[i].life <= restarts
  BY <1>2 DEF TypeOK
<1> HIDE DEF Answer, CallState
<1> QED BY <1>2, <1>3, <1>4, <1>5 DEF TypeOK, Busy

LEMMA ThrowTyped ==
  ASSUME TypeOK, NEW c \in Call, Throws(c), UNCHANGED <<provider, restarts, captures>>
  PROVE  TypeOK'
<1>1. /\ call' \in [Call -> CallState] /\ ~Busy(c)' /\ call'[c].at = "idle"
      /\ \A d \in Call \ {c} : call'[d] = call[d]
  BY CallOver DEF Throws
<1> HIDE DEF Answer, CallState
<1> QED BY <1>1 DEF TypeOK, Busy, Throws

LEMMA MoveTyped ==
  ASSUME TypeOK, NEW c \in Call, Busy(c), NEW at \in {"verifying", "charging"}, At(c, at),
         provider = (IF at = "verifying" THEN "reference" ELSE "stripe"),
         UNCHANGED <<provider, restarts, captures>>
  PROVE  TypeOK'
<1>1. /\ call' \in [Call -> CallState] /\ call'[c].at = at
      /\ call'[c].session = call[c].session /\ call'[c].payment = call[c].payment
      /\ \A d \in Call \ {c} : call'[d] = call[d]
  BY CallMoves DEF At
<1>2. answers' = answers
  BY DEF At
<1> HIDE DEF Answer, CallState
<1> QED BY <1>1, <1>2 DEF TypeOK, Busy

\* What a capture may come to, from the map or by a verdict.
LEMMA AnswersAre ==
  ASSUME ProviderAssumption, TypeOK, NEW c \in Call, Busy(c)
  PROVE  /\ call[c].session \in Session /\ call[c].payment.token \in TokenRecord
         /\ Captured(<<call[c].payment.token, call[c].session>>) \in Result
         /\ \A verdict : referenceFailure(verdict) \in Result
         /\ \A failOn \in mockFailure : Failed(failOn) \in Result
         /\ remembered(call[c].session) # Unknown => remembered(call[c].session) \in Result
<1>1. call[c].session \in Session /\ call[c].payment.token \in TokenRecord
  BY PaymentsAre DEF TypeOK
<1>2. PICK s, t : s = call[c].session /\ t = call[c].payment.token
  OBVIOUS
<1>3. Captured(<<t, s>>) \in Result
  BY <1>1, <1>2, ResultsAre
<1>4. \A verdict : referenceFailure(verdict) \in Result
  <2>1. "expired" \in Reason /\ "other" \in Reason
    BY DEF Reason
  <2> QED BY <2>1, ResultsAre DEF referenceFailure
<1>5. \A failOn \in mockFailure : Failed(failOn) \in Result
  <2>1. mockFailure \subseteq Reason
    BY DEF mockFailure, Reason
  <2> QED BY <2>1, ResultsAre
<1>6. remembered(s) # Unknown => remembered(s) \in Result
  BY <1>1, <1>2 DEF remembered, TypeOK
<1> QED BY <1>1, <1>2, <1>3, <1>4, <1>5, <1>6

LEMMA RememberTyped ==
  ASSUME ProviderAssumption, TypeOK, NEW c \in Call, Busy(c), NEW result \in Result, Remember(c, result),
         UNCHANGED <<provider, restarts>>
  PROVE  TypeOK'
<1>1. captures' \in [Session -> Result \cup {Unknown}]
  BY DEF TypeOK, Remember
<1> QED BY <1>1, ReturnTyped DEF Remember, Returned

\* A capture's first step: it throws, or gives what is remembered, or remembers its own
\* result, or goes on.
LEMMA Validates ==
  ASSUME ProviderAssumption, TypeOK, NEW c \in Call, validateCaptureArgs(c)
  PROVE  /\ Busy(c) /\ UNCHANGED <<provider, clock, restarts, stripe, spent, issued>>
         /\ LET s == call[c].session IN
            \/ Throws(c) /\ UNCHANGED captures
            \/ /\ provider # "stripe" /\ remembered(s) \in Result /\ Returned(c, remembered(s))
               /\ UNCHANGED captures
            \/ /\ provider = "mock" /\ captures[s] = Unknown
               /\ \E result \in Result : Remember(c, result)
            \/ /\ provider = "reference" /\ captures[s] = Unknown
               /\ At(c, "verifying") /\ UNCHANGED captures
            \/ provider = "stripe" /\ At(c, "charging") /\ UNCHANGED captures
<1>1. Busy(c) /\ UNCHANGED <<provider, clock, restarts, stripe, spent, issued>>
  BY DEF validateCaptureArgs, Busy
<1>2. /\ Captured(<<call[c].payment.token, call[c].session>>) \in Result
      /\ \A failOn \in mockFailure : Failed(failOn) \in Result
      /\ remembered(call[c].session) # Unknown => remembered(call[c].session) \in Result
  BY <1>1, AnswersAre
<1>3. remembered(call[c].session) = captures[call[c].session]
  BY DEF remembered
<1> HIDE DEF Result, Unknown, Captured, Failed
<1> QED BY <1>1, <1>2, <1>3 DEF validateCaptureArgs

LEMMA ValidateTyped ==
  ASSUME ProviderAssumption, TypeOK, NEW c \in Call, validateCaptureArgs(c)
  PROVE  TypeOK'
<1>1. PICK s : s = call[c].session
  OBVIOUS
<1>2. /\ Busy(c) /\ UNCHANGED <<provider, restarts, stripe>>
      /\ \/ Throws(c) /\ UNCHANGED captures
         \/ remembered(s) \in Result /\ Returned(c, remembered(s)) /\ UNCHANGED captures
         \/ \E result \in Result : Remember(c, result)
         \/ provider = "reference" /\ At(c, "verifying") /\ UNCHANGED captures
         \/ provider = "stripe" /\ At(c, "charging") /\ UNCHANGED captures
  BY <1>1, Validates, Zenon
<1>3. UNCHANGED captures => captures' \in [Session -> Result \cup {Unknown}]
  BY DEF TypeOK
<1> QED BY <1>2, <1>3, ThrowTyped, ReturnTyped, RememberTyped, MoveTyped DEF Returned

LEMMA ReferenceResults ==
  ASSUME ProviderAssumption, TypeOK, NEW c \in Call, referenceCapture(c)
  PROVE  /\ Busy(c) /\ call[c].at = "verifying" /\ provider = "reference"
         /\ \E result \in Result :
              /\ Remember(c, result)
              /\ result.ok =>
                   /\ result.id = <<call[c].payment.token, call[c].session>>
                   /\ call[c].payment.token.scope = Scope(call[c].session, call[c].payment)
<1>1. Busy(c) /\ call[c].at = "verifying" /\ provider = "reference"
  BY DEF referenceCapture, Busy, TypeOK
<1>2. PICK verdict : verdict = verifyReferencePaymentToken(call[c].session, call[c].payment)
  OBVIOUS
<1>3. PICK result : result = IF verdict = "ok" THEN Captured(<<call[c].payment.token, call[c].session>>)
                             ELSE referenceFailure(verdict)
  OBVIOUS
<1>4. result \in Result
  BY <1>1, <1>3, AnswersAre
<1>5. Remember(c, result)
  BY <1>2, <1>3 DEF referenceCapture
<1>6. result.ok => /\ result.id = <<call[c].payment.token, call[c].session>> /\ verdict = "ok"
  BY <1>3 DEF Captured, referenceFailure, Failed
<1>7. verdict = "ok" => call[c].payment.token.scope = Scope(call[c].session, call[c].payment)
  BY <1>2 DEF verifyReferencePaymentToken
<1> QED BY <1>1, <1>4, <1>5, <1>6, <1>7

\* A capture that hears from Stripe, or not.
LEMMA StripeReturns ==
  ASSUME ProviderAssumption, TypeOK, NEW c \in Call, stripeCapture(c)
  PROVE  /\ Busy(c) /\ provider = "stripe"
         /\ UNCHANGED <<provider, clock, restarts, captures, asked, stripe, spent, issued>>
         /\ \/ Throws(c)
            \/ \E result \in Result, decided \in BOOLEAN :
                 /\ Answered(c, result, decided)
                 /\ IF decided
                    THEN \E k \in stripe :
                           /\ k.session = call[c].session
                           /\ result = StripeResult(ReplyOf(k, call[c].payment.token),
                                          call[c].payment.token.kind = "spt", <<call[c].session>>)
                    ELSE result = Failed("other")
<1>1. Busy(c) /\ provider = "stripe"
      /\ UNCHANGED <<provider, clock, restarts, captures, asked, stripe, spent, issued>>
  BY DEF stripeCapture, Busy, TypeOK
<1>2. PICK s \in Session : s = call[c].session
  BY <1>1 DEF TypeOK
<1>3. PICK token : token = call[c].payment.token
  OBVIOUS
<1>4. PICK spt \in BOOLEAN : spt = (token.kind = "spt")
  OBVIOUS
<1>5. CASE \E k \in stripe : k.session = s /\ Returned(c, StripeResult(ReplyOf(k, token), spt, <<s>>))
  <2>1. PICK k \in stripe : k.session = s /\ Returned(c, StripeResult(ReplyOf(k, token), spt, <<s>>))
    BY <1>5
  <2>2. PICK result \in Result : result = StripeResult(ReplyOf(k, token), spt, <<s>>)
    BY StripeAnswers
  <2>3. Answered(c, result, TRUE)
    BY <2>1, <2>2 DEF Returned
  <2> QED BY <1>1, <1>2, <1>3, <1>4, <2>1, <2>2, <2>3
<1>6. CASE Answered(c, Failed("other"), FALSE)
  <2>1. Failed("other") \in Result
    BY ResultsAre DEF Reason
  <2> QED BY <1>1, <1>6, <2>1
<1> QED BY <1>1, <1>2, <1>3, <1>4, <1>5, <1>6 DEF stripeCapture

LEMMA CaptureTyped ==
  ASSUME TypeOK, NEW c \in Call, NEW s \in Session, NEW p \in Payment(s), capture(c, s, p)
  PROVE  TypeOK'
<1>1. /\ call' \in [Call -> CallState]
      /\ call'[c].at = "validating" /\ call'[c].session = s /\ call'[c].payment = p
      /\ \A d \in Call \ {c} :
           /\ call'[d].at = call[d].at /\ call'[d].session = call[d].session
           /\ call'[d].payment = call[d].payment
  BY CallBegins
<1>2. UNCHANGED <<provider, restarts, captures, stripe, answers>>
  BY DEF capture
<1> HIDE DEF Answer, CallState
<1> QED BY <1>1, <1>2 DEF TypeOK, Busy

LEMMA StripeTyped ==
  ASSUME ProviderAssumption, TypeOK, NEW c \in Call, stripeCapture(c)
  PROVE  TypeOK'
<1>1. /\ Busy(c) /\ UNCHANGED <<provider, restarts, captures>>
      /\ Throws(c) \/ \E result \in Result, decided \in BOOLEAN : Answered(c, result, decided)
  BY StripeReturns
<1>2. captures' \in [Session -> Result \cup {Unknown}]
  BY <1>1 DEF TypeOK
<1> QED BY <1>1, <1>2, ThrowTyped, ReturnTyped

LEMMA ReferenceTyped ==
  ASSUME ProviderAssumption, TypeOK, NEW c \in Call, referenceCapture(c)
  PROVE  TypeOK'
<1>1. Busy(c) /\ UNCHANGED <<provider, restarts, stripe>> /\ \E result \in Result : Remember(c, result)
  BY ReferenceResults DEF referenceCapture
<1> QED BY <1>1, RememberTyped

LEMMA RestartTyped == ASSUME TypeOK, restart PROVE TypeOK'
<1>1. /\ call' \in [Call -> CallState] /\ \A c \in Call : call'[c].at = "idle"
      /\ captures' \in [Session -> Result \cup {Unknown}]
  BY IdleIs DEF restart
<1>2. \A i \in DOMAIN answers : answers[i].life <= restarts + 1
  <2>1. \A i \in DOMAIN answers : answers[i].life \in Nat
    BY AnswerIs
  <2> QED BY <2>1 DEF TypeOK
<1>3. restarts' = restarts + 1 /\ restarts' \in Nat /\ UNCHANGED <<provider, answers>>
  BY DEF restart, TypeOK
<1> HIDE DEF Answer, CallState
<1> QED BY <1>1, <1>2, <1>3 DEF TypeOK, Busy

LEMMA StillTyped ==
  ASSUME TypeOK, UNCHANGED <<provider, restarts, call, captures, answers>>
  PROVE  TypeOK'
  BY DEF TypeOK, Busy

(***************************************************************************)
(* Stripe's answers                                                        *)
(***************************************************************************)
LEMMA ReturnStripe ==
  ASSUME ProviderAssumption, TypeOK, StripeKept, NEW c \in Call, Busy(c), NEW result \in Result,
         NEW decided \in BOOLEAN, Answered(c, result, decided), UNCHANGED <<provider, stripe>>,
         provider = "stripe" =>
           IF decided
           THEN \E k \in stripe :
                  /\ k.session = call[c].session
                  /\ result = StripeResult(ReplyOf(k, call[c].payment.token),
                                           call[c].payment.token.kind = "spt", <<call[c].session>>)
           ELSE result = Failed("other")
  PROVE  StripeKept'
<1>1. PICK n : n = Len(answers) + 1
  OBVIOUS
<1>2. /\ \A i \in DOMAIN answers' : i = n \/ i \in DOMAIN answers
      /\ \A i \in DOMAIN answers : answers'[i] = answers[i]
      /\ answers'[n].session = call[c].session /\ answers'[n].token = call[c].payment.token
      /\ answers'[n].result = result /\ answers'[n].decided = decided
  BY <1>1, AnswerAdded, Zenon
<1>3. ASSUME provider = "stripe", NEW i \in DOMAIN answers'
      PROVE  IF answers'[i].decided THEN Decided(i)' ELSE answers'[i].result = Failed("other")
  <2>1. CASE i = n
    BY <1>2, <1>3, <2>1 DEF Decided, ReplyOf
  <2>2. CASE i # n
    <3>1. i \in DOMAIN answers /\ answers'[i] = answers[i]
      BY <1>2, <2>2
    <3>2. IF answers[i].decided THEN Decided(i) ELSE answers[i].result = Failed("other")
      BY <1>3, <3>1 DEF StripeKept
    <3> QED BY <3>1, <3>2 DEF Decided, ReplyOf
  <2> QED BY <2>1, <2>2
<1> QED BY <1>3 DEF StripeKept

LEMMA StillStripe ==
  ASSUME StripeKept, UNCHANGED <<provider, stripe, answers>>
  PROVE  StripeKept'
  BY DEF StripeKept, Decided, ReplyOf

LEMMA ChargeStripe ==
  ASSUME StripeKept, NEW q, stripeCharges(q)
  PROVE  StripeKept'
<1>1. PICK k : /\ k.session = q.session /\ stripe' = stripe \cup {k}
               /\ \A l \in stripe : l.session # q.session
  <2>1. PICK status : /\ \A l \in stripe : l.session # q.session
                      /\ stripe' = stripe \cup {[session |-> q.session, token |-> q.token, status |-> status]}
    BY DEF stripeCharges
  <2>2. PICK k : k = [session |-> q.session, token |-> q.token, status |-> status]
    OBVIOUS
  <2>3. k.session = q.session
    BY <2>2
  <2> QED BY <2>1, <2>2, <2>3
<1>2. UNCHANGED <<provider, answers>>
  BY DEF stripeCharges
<1>3. \A i \in DOMAIN answers : Decided(i) => Decided(i)'
  BY <1>1, <1>2 DEF Decided, ReplyOf
<1> QED BY <1>1, <1>2, <1>3 DEF StripeKept

\* A taking of a session's money where there was none, of a token that is not spent.
LEMMA TakesOnce ==
  ASSUME TakenOnce, NEW new, spent' = spent \cup {new}, \A x \in spent : x.session # new.session,
         new.token.kind = "spt" => Spent(new.token) = {}
  PROVE  TakenOnce'
  BY DEF TakenOnce, Spent

LEMMA StillSpent ==
  ASSUME SpentOnce, UNCHANGED <<stripe, spent>>
  PROVE  SpentOnce'
  BY DEF SpentOnce, TakenOnce

LEMMA ChargeSpends ==
  ASSUME SpentOnce, NEW q, stripeCharges(q)
  PROVE  SpentOnce'
<1>1. PICK status \in IF q.token.kind = "spt" THEN SptVerdict(q.session, q.token)
                                              ELSE Outcome \cup {"succeeded"} :
        /\ stripe' = stripe \cup {[session |-> q.session, token |-> q.token, status |-> status]}
        /\ spent' = IF status \in Taken
                    THEN spent \cup {[session |-> q.session, token |-> q.token,
                                      amount |-> Terms(q.session).amount]}
                    ELSE spent
  BY DEF stripeCharges
<1>2. PICK k : k = [session |-> q.session, token |-> q.token, status |-> status]
  OBVIOUS
<1>3. PICK new : new = [session |-> q.session, token |-> q.token, amount |-> Terms(q.session).amount]
  OBVIOUS
<1>4. /\ k.session = q.session /\ k.status = status /\ stripe' = stripe \cup {k}
      /\ new.session = q.session /\ new.token = q.token
      /\ spent' = IF status \in Taken THEN spent \cup {new} ELSE spent
  BY <1>1, <1>2, <1>3
<1>5. \A l \in stripe : l.session # q.session
  BY DEF stripeCharges
<1>6. \A x \in spent : x.session # q.session
  BY <1>5 DEF SpentOnce
<1>7. CASE status \in Taken
  <2>1. q.token.kind = "spt" => Spent(q.token) = {}
    <3> SUFFICES ASSUME q.token.kind = "spt" PROVE Spent(q.token) = {}
      OBVIOUS
    <3>1. status \in SptVerdict(q.session, q.token)
      BY <1>1
    <3> QED BY <1>7, <3>1 DEF SptVerdict, Taken
  <2>2. TakenOnce'
    BY <1>4, <1>6, <1>7, <2>1, TakesOnce DEF SpentOnce
  <2>3. \A x \in spent' : \E l \in stripe' : l.session = x.session /\ l.status \in Taken \cup Waiting
    BY <1>4, <1>7 DEF SpentOnce
  <2>4. \A l \in stripe' : l.status \in Taken => \E x \in spent' : x.session = l.session
    BY <1>4, <1>7 DEF SpentOnce
  <2> QED BY <2>2, <2>3, <2>4 DEF SpentOnce
<1>8. CASE status \notin Taken
  <2>1. spent' = spent
    BY <1>4, <1>8
  <2>2. TakenOnce'
    BY <2>1 DEF SpentOnce, TakenOnce
  <2> QED BY <1>4, <1>8, <2>1, <2>2 DEF SpentOnce
<1> QED BY <1>7, <1>8

LEMMA AuthenticateSpends ==
  ASSUME SpentOnce, NEW k \in stripe, authenticates(k)
  PROVE  SpentOnce'
<1>1. PICK new : new = [session |-> k.session, token |-> k.token, amount |-> Terms(k.session).amount]
  OBVIOUS
<1>2. /\ new.session = k.session /\ new.token = k.token /\ spent' = spent \cup {new}
      /\ \A x \in spent : x.session # k.session
      /\ k.token.kind = "spt" => Spent(k.token) = {}
      /\ k.status \in Waiting /\ stripe' = stripe
  BY <1>1 DEF authenticates
<1>3. TakenOnce'
  BY <1>2, TakesOnce DEF SpentOnce
<1> QED BY <1>2, <1>3 DEF SpentOnce

(***************************************************************************)
(* What the process remembers                                              *)
(***************************************************************************)
\* A capture that returns what the map then has, and no other that counts had another.
LEMMA ReturnKept ==
  ASSUME ProviderAssumption, TypeOK, MapKept, NEW c \in Call, Busy(c), NEW result \in Result,
         Returned(c, result), UNCHANGED <<provider, restarts>>, provider # "stripe",
         captures' = [captures EXCEPT ![call[c].session] = result],
         \A i \in DOMAIN answers :
           Counts(i) /\ answers[i].session = call[c].session => answers[i].result = result
  PROVE  MapKept'
<1>1. PICK n : n = Len(answers) + 1
  OBVIOUS
<1>2. /\ \A i \in DOMAIN answers' : i = n \/ i \in DOMAIN answers
      /\ \A i \in DOMAIN answers : i < n /\ answers'[i] = answers[i]
      /\ answers'[n].session = call[c].session /\ answers'[n].token = call[c].payment.token
      /\ answers'[n].result = result /\ answers'[n].life = restarts
      /\ answers'[n].alone = call[c].alone
  BY <1>1, AnswerAdded, Zenon DEF Returned
<1>3. /\ ~Busy(c)' /\ call'[c].at = "idle" /\ \A d \in Call \ {c} : call'[d] = call[d]
  BY CallOver DEF Returned, Answered
<1>4. call[c].session \in Session /\ result # Unknown
  BY ResultsAre DEF TypeOK
<1>5. /\ captures'[call[c].session] = result
      /\ \A s \in Session : s # call[c].session => captures'[s] = captures[s]
  BY <1>4 DEF TypeOK
<1>6. \A i \in DOMAIN answers : Counts(i)' <=> Counts(i)
  BY <1>2 DEF Counts
<1>7. ASSUME NEW i \in DOMAIN answers', Counts(i)'
      PROVE  /\ captures'[answers'[i].session] = answers'[i].result /\ answers'[i].result # Unknown
             /\ \A d \in Call : call'[d].at = "verifying" => call'[d].session # answers'[i].session
  <2>1. CASE i = n
    <3>1. call[c].alone
      BY <1>2, <1>7, <2>1 DEF Counts
    <3>2. \A d \in Call : call'[d].at = "verifying" => call'[d].session # call[c].session
      BY <1>3, <3>1 DEF MapKept, Busy
    <3> QED BY <1>2, <1>4, <1>5, <2>1, <3>2
  <2>2. CASE i # n
    <3>1. i \in DOMAIN answers /\ answers'[i] = answers[i]
      BY <1>2, <2>2
    <3>2. Counts(i)
      BY <1>6, <1>7, <3>1
    <3>3. answers[i].session \in Session
      BY <3>1, AnswerIs
    <3>4. captures'[answers[i].session] = answers[i].result /\ answers[i].result # Unknown
      BY <1>4, <1>5, <3>1, <3>2, <3>3 DEF MapKept
    <3>5. \A d \in Call : call'[d].at = "verifying" => call'[d].session # answers[i].session
      BY <1>3, <3>1, <3>2 DEF MapKept
    <3> QED BY <3>1, <3>4, <3>5
  <2> QED BY <2>1, <2>2
<1>8. ASSUME NEW i \in DOMAIN answers', NEW j \in DOMAIN answers', i < j, Linked(i, j)'
      PROVE  answers'[j].result = answers'[i].result
  <2>1. n \in Nat /\ \A k \in DOMAIN answers' : k \in Nat
    <3>1. answers' \in Seq(Answer)
      BY AnswerAdded, Zenon DEF Returned
    <3> HIDE DEF Answer
    <3> QED BY <1>1, <3>1 DEF TypeOK
  <2>2. i \in DOMAIN answers /\ answers'[i] = answers[i]
    BY <1>2, <1>8, <2>1
  <2>3. CASE j = n
    <3>1. Counts(i) /\ answers[i].session = call[c].session
      BY <1>2, <1>8, <2>2, <2>3 DEF Linked, Counts
    <3> QED BY <1>2, <2>2, <2>3, <3>1
  <2>4. CASE j # n
    <3>1. j \in DOMAIN answers /\ answers'[j] = answers[j]
      BY <1>2, <2>4
    <3>2. Linked(i, j)
      BY <1>8, <2>2, <3>1 DEF Linked
    <3> QED BY <1>8, <2>2, <3>1, <3>2 DEF MapKept
  <2> QED BY <2>3, <2>4
<1>9. \A d, e \in Call : Busy(d)' /\ Busy(e)' /\ d # e /\ call'[d].session = call'[e].session
        => ~call'[d].alone
  BY <1>3 DEF MapKept, Busy
<1> QED BY <1>7, <1>8, <1>9 DEF MapKept

\* A capture under Stripe, where the map has no part.
LEMMA StripeMapKept ==
  ASSUME ProviderAssumption, TypeOK, MapKept, NEW c \in Call, Busy(c), call' = [call EXCEPT ![c] = Idle],
         UNCHANGED provider, provider = "stripe"
  PROVE  MapKept'
<1>1. /\ ~Busy(c)' /\ call'[c].at = "idle" /\ \A d \in Call \ {c} : call'[d] = call[d]
  BY CallOver
<1>2. \A d, e \in Call : Busy(d)' /\ Busy(e)' /\ d # e /\ call'[d].session = call'[e].session
        => ~call'[d].alone
  BY <1>1 DEF MapKept, Busy
<1> QED BY <1>2 DEF MapKept, Counts

\* Calls whose captures and alone-ness do not grow, and nothing is answered.
LEMMA QuietKept ==
  ASSUME TypeOK, MapKept, UNCHANGED <<provider, restarts, captures, answers>>,
         \A c \in Call : /\ Busy(c)' => Busy(c) /\ call'[c].session = call[c].session
                         /\ call'[c].alone => call[c].alone
                         /\ call'[c].at = "verifying" =>
                              \/ call[c].at = "verifying"
                              \/ captures[call[c].session] = Unknown
  PROVE  MapKept'
<1>1. ASSUME NEW i \in DOMAIN answers, Counts(i)
      PROVE  /\ captures'[answers'[i].session] = answers'[i].result /\ answers'[i].result # Unknown
             /\ \A d \in Call : call'[d].at = "verifying" => call'[d].session # answers'[i].session
  <2>1. captures[answers[i].session] = answers[i].result /\ answers[i].result # Unknown
    BY <1>1 DEF MapKept
  <2>2. \A d \in Call : call'[d].at = "verifying" => Busy(d)'
    BY DEF Busy
  <2> QED BY <1>1, <2>1, <2>2 DEF MapKept
<1>2. \A d, e \in Call : Busy(d)' /\ Busy(e)' /\ d # e /\ call'[d].session = call'[e].session
        => ~call'[d].alone
  BY DEF MapKept
<1>3. \A i, j \in DOMAIN answers : Linked(i, j)' <=> Linked(i, j)
  BY DEF Linked
<1>4. \A i \in DOMAIN answers : Counts(i)' <=> Counts(i)
  BY DEF Counts
<1> QED BY <1>1, <1>2, <1>3, <1>4 DEF MapKept

LEMMA ThrowKept ==
  ASSUME TypeOK, MapKept, NEW c \in Call, Throws(c), UNCHANGED <<provider, restarts, captures>>
  PROVE  MapKept'
<1>1. /\ ~Busy(c)' /\ call'[c].at = "idle" /\ \A d \in Call \ {c} : call'[d] = call[d]
  BY CallOver DEF Throws
<1>2. \A d \in Call : /\ Busy(d)' => Busy(d) /\ call'[d].session = call[d].session /\ d # c
  BY <1>1 DEF Busy
<1>3. \A d, e \in Call : Busy(d)' /\ Busy(e)' /\ d # e /\ call'[d].session = call'[e].session
        => ~call'[d].alone
  BY <1>1, <1>2 DEF MapKept
<1>4. \A i \in DOMAIN answers : (Counts(i)' <=> Counts(i)) /\ \A j \in DOMAIN answers : Linked(i, j)' <=> Linked(i, j)
  BY DEF Counts, Linked, Throws
<1>5. \A d \in Call : call'[d].at = "verifying" => call[d].at = "verifying" /\ call'[d].session = call[d].session
  BY <1>1
<1> QED BY <1>3, <1>4, <1>5 DEF MapKept, Throws

LEMMA MoveKept ==
  ASSUME TypeOK, MapKept, NEW c \in Call, Busy(c), NEW at \in {"verifying", "charging"}, At(c, at),
         at = "verifying" => captures[call[c].session] = Unknown,
         UNCHANGED <<provider, restarts, captures>>
  PROVE  MapKept'
<1>1. /\ call'[c].at = at /\ call'[c].session = call[c].session
      /\ call'[c].alone = call[c].alone /\ \A d \in Call \ {c} : call'[d] = call[d]
  BY CallMoves DEF At
<1> QED BY <1>1, QuietKept DEF At, Busy

LEMMA BeginKept ==
  ASSUME TypeOK, MapKept, NEW c \in Call, NEW s \in Session, NEW p \in Payment(s), capture(c, s, p)
  PROVE  MapKept'
<1>1. /\ call'[c].at = "validating" /\ call'[c].session = s
      /\ call'[c].alone => \A d \in Call : Busy(d) => call[d].session # s
      /\ \A d \in Call \ {c} :
           /\ call'[d].at = call[d].at /\ call'[d].session = call[d].session
           /\ Busy(d) /\ call[d].session = s => ~call'[d].alone
           /\ call'[d].alone => call[d].alone
  BY CallBegins
<1>2. UNCHANGED <<provider, restarts, captures, answers>>
  BY DEF capture
<1>3. ASSUME NEW d \in Call, NEW e \in Call, Busy(d)', Busy(e)', d # e, call'[d].session = call'[e].session
      PROVE  ~call'[d].alone
  <2>1. CASE d = c
    <3>1. Busy(e) /\ call[e].session = s
      BY <1>1, <1>3, <2>1 DEF Busy
    <3> QED BY <1>1, <2>1, <3>1
  <2>2. CASE e = c
    <3>1. Busy(d) /\ call[d].session = s
      BY <1>1, <1>3, <2>2 DEF Busy
    <3> QED BY <1>1, <1>3, <2>2, <3>1
  <2>3. CASE d # c /\ e # c
    BY <1>1, <1>3, <2>3 DEF MapKept, Busy
  <2> QED BY <2>1, <2>2, <2>3
<1>4. \A d \in Call : call'[d].at = "verifying" => call[d].at = "verifying" /\ call'[d].session = call[d].session
  BY <1>1
<1>5. \A i \in DOMAIN answers : (Counts(i)' <=> Counts(i)) /\ \A j \in DOMAIN answers : Linked(i, j)' <=> Linked(i, j)
  BY <1>2 DEF Counts, Linked
<1> QED BY <1>2, <1>3, <1>4, <1>5 DEF MapKept

\* A result that is remembered where nothing that counts was.
LEMMA RememberKept ==
  ASSUME ProviderAssumption, TypeOK, MapKept, NEW c \in Call, Busy(c), NEW result \in Result,
         Remember(c, result), UNCHANGED <<provider, restarts>>, provider # "stripe",
         captures[call[c].session] = Unknown \/ call[c].at = "verifying"
  PROVE  MapKept'
<1>1. \A i \in DOMAIN answers : Counts(i) => answers[i].session # call[c].session
  BY DEF MapKept
<1> QED BY <1>1, ReturnKept DEF Remember

LEMMA ValidateKept ==
  ASSUME ProviderAssumption, TypeOK, MapKept, NEW c \in Call, validateCaptureArgs(c)
  PROVE  MapKept'
<1>1. PICK s : s = call[c].session
  OBVIOUS
<1>2. /\ Busy(c) /\ UNCHANGED <<provider, restarts, stripe>>
      /\ \/ Throws(c) /\ UNCHANGED captures
         \/ /\ provider # "stripe" /\ remembered(s) \in Result /\ Returned(c, remembered(s))
            /\ UNCHANGED captures
         \/ /\ provider = "mock" /\ captures[s] = Unknown
            /\ \E result \in Result : Remember(c, result)
         \/ provider = "reference" /\ captures[s] = Unknown /\ At(c, "verifying") /\ UNCHANGED captures
         \/ provider = "stripe" /\ At(c, "charging") /\ UNCHANGED captures
  BY <1>1, Validates, Zenon
<1>3. ASSUME provider # "stripe", remembered(s) \in Result, Returned(c, remembered(s)), UNCHANGED captures
      PROVE  MapKept'
  <2>1. PICK result \in Result : result = remembered(s)
    BY <1>3
  <2>2. captures' = [captures EXCEPT ![call[c].session] = result]
    BY <1>1, <1>3, <2>1 DEF remembered, TypeOK
  <2>3. \A i \in DOMAIN answers :
           Counts(i) /\ answers[i].session = call[c].session => answers[i].result = result
    BY <1>1, <2>1 DEF remembered, MapKept
  <2> QED BY <1>2, <1>3, <2>1, <2>2, <2>3, ReturnKept
<1>4. ASSUME Throws(c), UNCHANGED captures PROVE MapKept'
  BY <1>2, <1>4, ThrowKept
<1>5. ASSUME provider = "mock", captures[s] = Unknown, NEW result \in Result, Remember(c, result)
      PROVE  MapKept'
  BY <1>1, <1>2, <1>5, RememberKept
<1>6. ASSUME captures[s] = Unknown, At(c, "verifying"), UNCHANGED captures PROVE MapKept'
  BY <1>1, <1>2, <1>6, MoveKept
<1>7. ASSUME At(c, "charging"), UNCHANGED captures PROVE MapKept'
  BY <1>2, <1>7, MoveKept
<1> QED BY <1>2, <1>3, <1>4, <1>5, <1>6, <1>7

LEMMA RestartKept == ASSUME TypeOK, MapKept, restart PROVE MapKept'
<1>1. \A c \in Call : call'[c].at = "idle"
  BY IdleIs DEF restart
<1>2. \A i \in DOMAIN answers : answers[i].life # restarts + 1
  BY AnswerIs DEF TypeOK
<1>3. restarts' = restarts + 1 /\ UNCHANGED <<provider, answers>>
  BY DEF restart
<1>4. \A i, j \in DOMAIN answers : Linked(i, j)' <=> Linked(i, j)
  BY <1>3 DEF Linked
<1> QED BY <1>1, <1>2, <1>3, <1>4 DEF MapKept, Counts, Busy

(***************************************************************************)
(* What the reference provider takes                                       *)
(***************************************************************************)
LEMMA ReturnMeant ==
  ASSUME ProviderAssumption, TypeOK, Meant, NEW c \in Call, Busy(c), NEW result \in Result,
         Returned(c, result), UNCHANGED <<provider, restarts>>,
         captures' = [captures EXCEPT ![call[c].session] = result],
         provider = "reference" => ForSession(call[c].session, result)
  PROVE  Meant'
<1>1. PICK n : n = Len(answers) + 1
  OBVIOUS
<1>2. /\ \A i \in DOMAIN answers' : i = n \/ i \in DOMAIN answers
      /\ \A i \in DOMAIN answers : answers'[i] = answers[i]
      /\ answers'[n].session = call[c].session /\ answers'[n].result = result
  BY <1>1, AnswerAdded, Zenon DEF Returned
<1>3. call[c].session \in Session
  BY DEF TypeOK
<1>4. \A s \in Session : captures'[s] = IF s = call[c].session THEN result ELSE captures[s]
  BY <1>3 DEF TypeOK
<1> SUFFICES ASSUME provider = "reference" PROVE Meant'
  BY DEF Meant
<1>5. \A s \in Session : ForSession(s, captures'[s])
  BY <1>4 DEF Meant
<1>6. \A i \in DOMAIN answers' : ForSession(answers'[i].session, answers'[i].result)
  BY <1>2 DEF Meant
<1> QED BY <1>5, <1>6 DEF Meant, ForSession

LEMMA StillMeant ==
  ASSUME TypeOK, Meant, UNCHANGED <<provider, captures, answers>>
  PROVE  Meant'
  BY DEF Meant, ForSession

LEMMA ValidateMeant ==
  ASSUME ProviderAssumption, TypeOK, Meant, NEW c \in Call, validateCaptureArgs(c)
  PROVE  Meant'
<1>1. PICK s : s = call[c].session
  OBVIOUS
<1>2. /\ Busy(c) /\ UNCHANGED <<provider, restarts, stripe>>
      /\ \/ Throws(c) /\ UNCHANGED captures
         \/ remembered(s) \in Result /\ Returned(c, remembered(s)) /\ UNCHANGED captures
         \/ /\ provider = "mock"
            /\ \E result \in Result : Remember(c, result)
         \/ At(c, "verifying") /\ UNCHANGED captures
         \/ At(c, "charging") /\ UNCHANGED captures
  BY <1>1, Validates, Zenon
<1>3. ASSUME remembered(s) \in Result, Returned(c, remembered(s)), UNCHANGED captures
      PROVE  Meant'
  <2>1. PICK result \in Result : result = remembered(s)
    BY <1>3
  <2>2. captures' = [captures EXCEPT ![call[c].session] = result]
    BY <1>1, <1>3, <2>1 DEF remembered, TypeOK
  <2>3. provider = "reference" => ForSession(call[c].session, result)
    BY <1>1, <1>2, <2>1 DEF remembered, Meant, TypeOK
  <2> QED BY <1>2, <1>3, <2>1, <2>2, <2>3, ReturnMeant
<1>4. ASSUME provider = "mock", NEW result \in Result, Remember(c, result)
      PROVE  Meant'
  BY <1>2, <1>4, ReturnMeant DEF Remember
<1>5. ASSUME UNCHANGED <<captures, answers>> PROVE Meant'
  BY <1>2, <1>5, StillMeant
<1> QED BY <1>2, <1>3, <1>4, <1>5 DEF Throws, At

LEMMA ReferenceMeant ==
  ASSUME ProviderAssumption, TypeOK, Meant, NEW c \in Call, referenceCapture(c)
  PROVE  Meant'
<1>1. /\ Busy(c) /\ UNCHANGED <<provider, restarts>>
      /\ \E result \in Result :
           /\ Remember(c, result)
           /\ result.ok =>
                /\ result.id = <<call[c].payment.token, call[c].session>>
                /\ call[c].payment.token.scope = Scope(call[c].session, call[c].payment)
  BY ReferenceResults DEF referenceCapture
<1>2. PICK result \in Result :
           /\ Remember(c, result)
           /\ result.ok =>
                /\ result.id = <<call[c].payment.token, call[c].session>>
                /\ call[c].payment.token.scope = Scope(call[c].session, call[c].payment)
  BY <1>1
<1>3. ForSession(call[c].session, result)
  <2> SUFFICES ASSUME result.ok PROVE ForSession(call[c].session, result)
    BY DEF ForSession
  <2>1. result.id[1] = call[c].payment.token
    BY <1>2
  <2>2. result.id[1].scope = Scope(call[c].session, call[c].payment)
    BY <1>2, <2>1
  <2> QED BY <2>2 DEF ForSession, Scope
<1> QED BY <1>1, <1>2, <1>3, ReturnMeant DEF Remember

LEMMA RestartMeant == ASSUME Meant, restart PROVE Meant'
<1>1. \A s \in Session : ~captures'[s].ok
  BY DEF restart, Unknown
<1>2. UNCHANGED <<provider, answers>>
  BY DEF restart
<1> QED BY <1>1, <1>2 DEF Meant, ForSession

(***************************************************************************)
(* Every step                                                              *)
(***************************************************************************)
LEMMA InitKeeps == ASSUME Init PROVE IInv
<1>1. answers = <<>> /\ DOMAIN answers = {}
  BY DEF Init
<1>2. \A c \in Call : ~Busy(c) /\ call[c].at = "idle"
  BY IdleIs DEF Init, Busy
<1>3. call \in [Call -> CallState] /\ answers \in Seq(Answer)
      /\ captures \in [Session -> Result \cup {Unknown}]
  <2> HIDE DEF Answer, CallState, Result
  <2> QED BY IdleIs DEF Init
<1>4. TypeOK
  <2> HIDE DEF Answer, CallState, Result
  <2> QED BY <1>1, <1>2, <1>3 DEF Init, TypeOK
<1>5. StripeKept /\ SpentOnce
  BY <1>1 DEF Init, StripeKept, SpentOnce, TakenOnce
<1>6. MapKept
  BY <1>1, <1>2 DEF MapKept
<1>7. Meant
  BY <1>1 DEF Init, Meant, ForSession, Unknown
<1> QED BY <1>4, <1>5, <1>6, <1>7 DEF IInv

LEMMA StillKeeps ==
  ASSUME IInv, UNCHANGED <<provider, restarts, call, captures, stripe, spent, answers>>
  PROVE  IInv'
<1>1. MapKept'
  BY QuietKept DEF IInv, Busy
<1> QED BY <1>1, StillTyped, StillStripe, StillSpent, StillMeant DEF IInv

LEMMA CaptureKeeps ==
  ASSUME IInv, NEW c \in Call, NEW s \in Session, NEW p \in Payment(s), capture(c, s, p)
  PROVE  IInv'
<1>1. UNCHANGED <<provider, captures, answers, stripe, spent>>
  BY DEF capture
<1> QED BY <1>1, CaptureTyped, StillStripe, StillSpent, BeginKept, StillMeant DEF IInv

LEMMA ValidateKeeps ==
  ASSUME ProviderAssumption, IInv, NEW c \in Call, validateCaptureArgs(c)
  PROVE  IInv'
<1>1. /\ Busy(c) /\ UNCHANGED <<provider, stripe, spent>>
      /\ \/ Throws(c)
         \/ provider # "stripe" /\ \E result \in Result : Returned(c, result)
         \/ At(c, "verifying")
         \/ At(c, "charging")
  <2>1. PICK s : s = call[c].session
    OBVIOUS
  <2>2. /\ Busy(c) /\ UNCHANGED <<provider, clock, restarts, stripe, spent, issued>>
        /\ \/ Throws(c) /\ UNCHANGED captures
           \/ /\ provider # "stripe" /\ remembered(s) \in Result /\ Returned(c, remembered(s))
              /\ UNCHANGED captures
           \/ /\ provider = "mock" /\ captures[s] = Unknown
              /\ \E result \in Result : Remember(c, result)
           \/ /\ provider = "reference" /\ captures[s] = Unknown
              /\ At(c, "verifying") /\ UNCHANGED captures
           \/ provider = "stripe" /\ At(c, "charging") /\ UNCHANGED captures
    BY <2>1, Validates, Zenon DEF IInv
  <2> QED BY <2>2 DEF Remember
<1>2. StripeKept'
  BY <1>1, StillStripe, ReturnStripe DEF IInv, Throws, At, Returned
<1>3. SpentOnce'
  BY <1>1, StillSpent DEF IInv
<1> QED BY <1>2, <1>3, ValidateTyped, ValidateKept, ValidateMeant DEF IInv

LEMMA ReferenceKeeps ==
  ASSUME ProviderAssumption, IInv, NEW c \in Call, referenceCapture(c)
  PROVE  IInv'
<1>1. /\ Busy(c) /\ provider = "reference" /\ call[c].at = "verifying"
      /\ UNCHANGED <<provider, restarts, stripe, spent>>
      /\ \E result \in Result : Remember(c, result)
  BY ReferenceResults DEF IInv, referenceCapture
<1>2. StripeKept'
  BY <1>1, ReturnStripe DEF IInv, Remember, Returned
<1>3. MapKept'
  BY <1>1, RememberKept DEF IInv
<1>4. SpentOnce'
  BY <1>1, StillSpent DEF IInv
<1> QED BY <1>2, <1>3, <1>4, ReferenceTyped, ReferenceMeant DEF IInv

LEMMA ChargeKeeps ==
  ASSUME IInv, NEW q, stripeCharges(q)
  PROVE  IInv'
<1>1. UNCHANGED <<provider, restarts, call, captures, answers>>
  BY DEF stripeCharges
<1>2. MapKept'
  BY <1>1, QuietKept DEF IInv, Busy
<1> QED BY <1>1, <1>2, StillTyped, ChargeStripe, ChargeSpends, StillMeant DEF IInv

LEMMA AuthenticateKeeps ==
  ASSUME IInv, NEW k \in stripe, authenticates(k)
  PROVE  IInv'
<1>1. UNCHANGED <<provider, restarts, call, captures, stripe, answers>>
  BY DEF authenticates
<1>2. MapKept'
  BY <1>1, QuietKept DEF IInv, Busy
<1> QED BY <1>1, <1>2, StillTyped, StillStripe, AuthenticateSpends, StillMeant DEF IInv

LEMMA StripeKeeps ==
  ASSUME ProviderAssumption, IInv, NEW c \in Call, stripeCapture(c)
  PROVE  IInv'
<1>1. /\ Busy(c) /\ provider = "stripe"
      /\ UNCHANGED <<provider, restarts, captures, stripe, spent>>
      /\ \/ Throws(c)
         \/ \E result \in Result, decided \in BOOLEAN :
              /\ Answered(c, result, decided)
              /\ IF decided
                 THEN \E k \in stripe :
                        /\ k.session = call[c].session
                        /\ result = StripeResult(ReplyOf(k, call[c].payment.token),
                                       call[c].payment.token.kind = "spt", <<call[c].session>>)
                 ELSE result = Failed("other")
  BY StripeReturns DEF IInv
<1>2. call' = [call EXCEPT ![c] = Idle]
  BY <1>1 DEF Throws, Answered
<1>3. StripeKept'
  BY <1>1, StillStripe, ReturnStripe DEF IInv, Throws
<1>4. MapKept'
  BY <1>1, <1>2, StripeMapKept DEF IInv
<1>5. Meant' /\ SpentOnce'
  BY <1>1, StillSpent DEF IInv, Meant
<1> QED BY <1>3, <1>4, <1>5, StripeTyped DEF IInv

LEMMA RestartKeeps == ASSUME IInv, restart PROVE IInv'
<1>1. UNCHANGED <<provider, stripe, spent, answers>>
  BY DEF restart
<1> QED BY <1>1, RestartTyped, StillStripe, StillSpent, RestartKept, RestartMeant DEF IInv

LEMMA StepKeeps == ASSUME ProviderAssumption, IInv, [Next]_vars PROVE IInv'
<1>1. ASSUME NEW s \in Session, NEW p \in Payment(s), issueMandate(p) PROVE IInv'
  BY <1>1, StillKeeps DEF issueMandate
<1>2. ASSUME tick \/ UNCHANGED vars PROVE IInv'
  BY <1>2, StillKeeps DEF tick, vars
<1> QED BY <1>1, <1>2, CaptureKeeps, ValidateKeeps, ReferenceKeeps, ChargeKeeps,
           AuthenticateKeeps, StripeKeeps, RestartKeeps DEF Next

\* What Stripe's decision says of the money.
LEMMA DecisionsMean ==
  ASSUME NEW status, NEW spt \in BOOLEAN, NEW id, NEW result, result = StripeResult(status, spt, id)
  PROVE  /\ result.ok => status \in Taken
         /\ ~result.ok /\ result.reason \notin {"other", "requires_authentication"} =>
              status \notin Taken \cup Waiting \cup {"idempotency_error"}
<1>1. PICK plain : plain = paymentResult(status, id)
  OBVIOUS
<1>2. /\ plain.ok => status \in Taken
      /\ ~plain.ok /\ plain.reason \notin {"other", "requires_authentication"} =>
           status \notin Taken \cup Waiting \cup {"idempotency_error"}
  BY <1>1 DEF paymentResult, Captured, Failed, Taken, Waiting
<1>3. PICK shared : shared = sharedTokenResult(status, id)
  OBVIOUS
<1>4. shared = IF status \in {"requires_authentication", "spt_expired", "spt_revoked", "spt_seller_mismatch"}
               THEN Failed(status)
               ELSE IF status = "spt_max_amount_exceeded" THEN Failed("amount_exceeded") ELSE plain
  BY <1>1, <1>3 DEF sharedTokenResult
<1>5. /\ shared.ok => status \in Taken
      /\ ~shared.ok /\ shared.reason \notin {"other", "requires_authentication"} =>
           status \notin Taken \cup Waiting \cup {"idempotency_error"}
  BY <1>2, <1>4 DEF Failed, Taken, Waiting
<1>6. shared.ok = TRUE => shared = plain
  BY <1>4 DEF Failed
<1>7. PICK neutral : neutral = neutralStripeResult(shared)
  OBVIOUS
<1>8. CASE ~spt
  BY <1>1, <1>2, <1>8 DEF StripeResult
<1>9. CASE spt
  <2>1. result = neutral
    BY <1>3, <1>7, <1>9 DEF StripeResult
  <2>2. neutral = shared
        \/ (~neutral.ok /\ shared.reason \in {"spt_expired", "amount_exceeded", "spt_revoked", "spt_seller_mismatch"})
    BY <1>7 DEF neutralStripeResult, Failed
  <2>3. shared.reason \in {"spt_expired", "amount_exceeded", "spt_revoked", "spt_seller_mismatch"}
        => status \in {"spt_expired", "spt_max_amount_exceeded", "spt_revoked", "spt_seller_mismatch"}
    BY <1>1, <1>4 DEF Failed, paymentResult, Captured, Waiting
  <2> QED BY <1>5, <2>1, <2>2, <2>3 DEF Taken, Waiting
<1> QED BY <1>8, <1>9

LEMMA MoneyByInvariant == ASSUME IInv PROVE AnswersFitTheMoney
<1> SUFFICES ASSUME provider = "stripe", NEW i \in DOMAIN answers, NEW result, result = answers[i].result
             PROVE  /\ result.ok => {x \in spent : x.session = answers[i].session} # {}
                    /\ answers[i].decided /\ ~result.ok
                       /\ result.reason \notin {"other", "requires_authentication"} =>
                         {x \in spent : x.session = answers[i].session} = {}
  BY DEF AnswersFitTheMoney
<1>1. CASE ~answers[i].decided
  BY <1>1 DEF IInv, StripeKept, Failed
<1>2. CASE answers[i].decided
  <2>1. Decided(i)
    BY <1>2 DEF IInv, StripeKept
  <2>2. PICK k \in stripe : /\ k.session = answers[i].session
                            /\ answers[i].result = StripeResult(ReplyOf(k, answers[i].token),
                                 answers[i].token.kind = "spt", <<answers[i].session>>)
    BY <2>1 DEF Decided
  <2>3. PICK spt \in BOOLEAN : spt = (answers[i].token.kind = "spt")
    OBVIOUS
  <2>4. PICK status : status = ReplyOf(k, answers[i].token)
    OBVIOUS
  <2>5. PICK id : id = <<answers[i].session>>
    OBVIOUS
  <2>6. result = StripeResult(status, spt, id)
    BY <2>2, <2>3, <2>4, <2>5
  <2>7. /\ result.ok => status \in Taken
        /\ ~result.ok /\ result.reason \notin {"other", "requires_authentication"} =>
             status \notin Taken \cup Waiting \cup {"idempotency_error"}
    BY <2>6, DecisionsMean
  <2>8. status = k.status \/ status = "idempotency_error"
    BY <2>4 DEF ReplyOf
  <2>9. k.status \in Taken => \E x \in spent : x.session = k.session
    BY DEF IInv, SpentOnce
  <2>10. ASSUME NEW x \in spent, x.session = k.session PROVE k.status \in Taken \cup Waiting
    BY <2>10 DEF IInv, SpentOnce, StripeKept
  <2> QED BY <2>2, <2>7, <2>8, <2>9, <2>10 DEF Taken
<1> QED BY <1>1, <1>2

\* What the invariant says of two answers.
LEMMA FinalByInvariant == ASSUME IInv PROVE CaptureIsFinal
<1>1. ASSUME NEW i \in DOMAIN answers, NEW j \in DOMAIN answers, i < j, Linked(i, j),
             answers[i].decided, answers[j].decided
      PROVE  answers[j].result = answers[i].result
  <2>1. CASE provider = "stripe"
    <3>1. Decided(i) /\ Decided(j)
      BY <1>1, <2>1 DEF IInv, StripeKept
    <3>2. answers[i].session = answers[j].session /\ answers[i].token = answers[j].token
      BY <1>1, <2>1 DEF Linked
    <3> QED BY <3>1, <3>2 DEF Decided, IInv, StripeKept
  <2>2. CASE provider # "stripe"
    BY <1>1, <2>2 DEF IInv, MapKept
  <2> QED BY <2>1, <2>2
<1>2. RepeatsAgree
  BY <1>1 DEF RepeatsAgree
<1>3. TokensAreForTheSession
  BY DEF IInv, Meant, ForSession, TokensAreForTheSession
<1> QED BY <1>2, <1>3, MoneyByInvariant DEF CaptureIsFinal, IInv, SpentOnce

\* capture of the three providers (merchant/src/psp/mock.ts, psp/src/adapter.ts, stripe/src/adapter.ts):
\* a capture that is repeated has the answer it had, the reference provider takes tokens
\* for the session's terms only, Stripe takes a session's money once, and what Stripe
\* decided and the adapter tells fits the money.
THEOREM CapturesAreFinal == ASSUME ProviderAssumption PROVE Spec => []CaptureIsFinal
<1>1. Init => IInv
  BY InitKeeps
<1>2. IInv /\ [Next]_vars => IInv'
  BY StepKeeps
<1>3. IInv => CaptureIsFinal
  BY FinalByInvariant
<1> QED BY <1>1, <1>2, <1>3, PTL DEF Spec

(***************************************************************************)
(* x402                                                                    *)
(***************************************************************************)
CONSTANTS FetchCall, Resource(_), Requirement, FirstAsked, MaxAmount(_), Allows(_), Durable,
          MaxReprices, MaxPaywallRestarts, MaxFetchTime
VARIABLES routeAsks, reprices, fetchClock, challenge, signed, pc, route, outcome, store, settled, served,
          paywallRestarts, tainted

Fetch == INSTANCE PaidFetch WITH
  Call <- FetchCall, MaxRestarts <- MaxPaywallRestarts, MaxTime <- MaxFetchTime, asked <- routeAsks,
  clock <- fetchClock, restarts <- paywallRestarts

Refused == {"unsupported", "not_allowed", "signer_unavailable"}

Within(c) == Fetch!assertAmountWithinLimit(c, challenge[c])
Allowed(c) == Allows(challenge[c]) = "allowed"

\* A settlement pays what the payload k asks, for a route that asks q.
PaidFor(k, q) == \E d \in settled : Fetch!payload(d) = k /\ challenge[d] = q

\* Where a call is tells what was decided about its challenge, or the challenge it
\* repeats, and, at the paywall, that what the route asked is the challenge, or was paid.
Shape(c) ==
  /\ pc[c] \in {"deciding", "signing"} \/ Fetch!Sent(c) => Within(c)
  /\ pc[c] = "signing" \/ Fetch!Sent(c) => Allowed(c)
  /\ pc[c] # "done" => outcome[c] = "none"
  /\ c \in settled => Fetch!Sent(c) /\ pc[c] \in {"storing", "handling", "done"}
  /\ pc[c] \in {"settling", "storing"} => challenge[c] = route[c]
  /\ pc[c] = "storing" => c \in settled
  /\ pc[c] = "handling" => PaidFor(Fetch!payload(c), route[c])
  /\ c \in served => pc[c] = "done" /\ PaidFor(Fetch!payload(c), route[c])

Typed ==
  /\ DOMAIN pc = FetchCall /\ DOMAIN challenge = FetchCall /\ DOMAIN signed = FetchCall
  /\ DOMAIN route = FetchCall /\ DOMAIN outcome = FetchCall
  /\ settled \subseteq FetchCall /\ served \subseteq FetchCall

Shapes == \A c \in FetchCall : Shape(c)

\* What the paywall remembers was paid.
StoreIsPaid == \A e \in store : PaidFor(e[1], e[2])

FetchIInv == Typed /\ Shapes /\ StoreIsPaid

LEMMA FetchInitKeeps == Fetch!Init => FetchIInv
  BY DEF Fetch!Init, FetchIInv, Typed, Shapes, Shape, StoreIsPaid, Fetch!Sent, Fetch!AtPaywall

\* What was paid for stays so: a step adds settlements, and a call whose
\* payment it sets has none.
PaymentsStay == settled \subseteq settled' /\ \A d \in settled : challenge'[d] = challenge[d] /\ signed'[d] = signed[d]

LEMMA PaidStays ==
  ASSUME PaymentsStay, NEW k, NEW q, PaidFor(k, q)
  PROVE  PaidFor(k, q)'
  BY DEF PaymentsStay, PaidFor, Fetch!payload

\* A step that leaves the calls other than c where they are, or cuts them short.
LEMMA OthersKeep ==
  ASSUME NEW c \in FetchCall, Shape(c), PaymentsStay,
         c \in settled' <=> c \in settled, c \in served' <=> c \in served,
         pc'[c] = pc[c], challenge'[c] = challenge[c], signed'[c] = signed[c],
         route'[c] = route[c], outcome'[c] = outcome[c]
  PROVE  Shape(c)'
<1>1. PaidFor(Fetch!payload(c), route[c]) => PaidFor(Fetch!payload(c), route[c])'
  BY DEF PaymentsStay, PaidFor, Fetch!payload
<1> QED BY <1>1 DEF Shape, Within, Allowed, Fetch!Sent, Fetch!AtPaywall

\* Every action of one call, but the settlement and the store.
LEMMA CallKeeps ==
  ASSUME FetchIInv, NEW c \in FetchCall,
         Fetch!fetch(c) \/ Fetch!decide(c) \/ Fetch!issueMandate(c) \/ Fetch!receive(c) \/ Fetch!verify(c) \/ Fetch!settle(c)
           \/ Fetch!remember(c) \/ Fetch!handle(c)
  PROVE  FetchIInv'
<1> USE DEF FetchIInv
<1>1. Shape(c) /\ Typed
  BY DEF Shapes
<1>2. Typed'
  BY <1>1 DEF Typed, Fetch!fetch, Fetch!decide, Fetch!issueMandate, Fetch!receive, Fetch!verify, Fetch!settle, Fetch!remember, Fetch!handle, Fetch!Ends, Fetch!Answered, Fetch!Buying, Fetch!Sends
<1>3. settled \subseteq settled' /\ settled' \subseteq settled \cup {c} /\ served' \subseteq served \cup {c} /\ served \subseteq served'
  BY DEF Fetch!fetch, Fetch!decide, Fetch!issueMandate, Fetch!receive, Fetch!verify, Fetch!settle, Fetch!remember, Fetch!handle, Fetch!Buying
<1>4. PaymentsStay
  <2>1. CASE Fetch!fetch(c)
    <3>1. c \notin settled /\ (challenge' = [challenge EXCEPT ![c] = routeAsks] \/ challenge' = challenge)
      BY <1>1, <2>1 DEF Shape, Fetch!fetch
    <3>2. signed' = signed
      BY <2>1 DEF Fetch!fetch
    <3> QED BY <1>1, <1>3, <3>1, <3>2 DEF Typed, PaymentsStay
  <2>2. CASE Fetch!issueMandate(c)
    <3>1. c \notin settled /\ challenge' = challenge /\ \A d \in FetchCall \ {c} : signed'[d] = signed[d]
      BY <1>1, <2>2 DEF Shape, Typed, Fetch!issueMandate
    <3> QED BY <1>1, <1>3, <3>1 DEF Typed, PaymentsStay
  <2>3. CASE ~Fetch!fetch(c) /\ ~Fetch!issueMandate(c)
    <3>1. challenge' = challenge /\ signed' = signed
      BY <2>3 DEF Fetch!decide, Fetch!receive, Fetch!verify, Fetch!settle, Fetch!remember, Fetch!handle
    <3> QED BY <1>3, <3>1 DEF PaymentsStay
  <2> QED BY <2>1, <2>2, <2>3
<1>5. \A d \in FetchCall \ {c} : Shape(d)'
  <2> SUFFICES ASSUME NEW d \in FetchCall \ {c} PROVE Shape(d)'
    OBVIOUS
  <2>1. pc'[d] = pc[d] /\ challenge'[d] = challenge[d] /\ signed'[d] = signed[d] /\ route'[d] = route[d] /\ outcome'[d] = outcome[d]
    BY <1>1 DEF Typed, Fetch!fetch, Fetch!decide, Fetch!issueMandate, Fetch!receive, Fetch!verify, Fetch!settle, Fetch!remember, Fetch!handle, Fetch!Ends, Fetch!Answered, Fetch!Buying, Fetch!Sends
  <2> QED BY <1>3, <1>4, <2>1, OthersKeep DEF Shapes
<1>6. Shape(c)'
  <2> USE DEF Typed, Fetch!AtPaywall, Fetch!Sent
  <2>1. CASE Fetch!fetch(c)
    BY <1>1, <2>1 DEF Shape, Fetch!fetch, Fetch!Ends, Fetch!Buying, Within, Refused
  <2>2. CASE Fetch!decide(c)
    BY <1>1, <2>2 DEF Shape, Fetch!decide, Fetch!Ends, Fetch!Buying, Within, Allowed, Refused
  <2>3. CASE Fetch!issueMandate(c)
    BY <1>1, <2>3 DEF Shape, Fetch!issueMandate, Fetch!Ends, Fetch!Sends, Fetch!Buying, Within, Allowed, Refused
  <2>4. CASE Fetch!receive(c)
    <3>1. PICK what \in {"handling", "verifying"} :
            /\ pc'[c] = what /\ route'[c] = routeAsks /\ UNCHANGED <<Fetch!Buying, challenge, signed, outcome>>
            /\ what = "handling" => Fetch!serverIdempotencyKey(c, routeAsks) \in store
      BY <1>1, <2>4 DEF Fetch!receive
    <3>2. what = "handling" => PaidFor(Fetch!payload(c), routeAsks)
      <4> SUFFICES ASSUME what = "handling" PROVE PaidFor(Fetch!payload(c), routeAsks)
        OBVIOUS
      <4> DEFINE e == Fetch!serverIdempotencyKey(c, routeAsks)
      <4>1. e \in store /\ e[1] = Fetch!payload(c) /\ e[2] = routeAsks
        BY <3>1 DEF Fetch!serverIdempotencyKey
      <4> QED BY <4>1 DEF StoreIsPaid
    <3>3. (what = "handling" => PaidFor(Fetch!payload(c), route[c])')
      BY <3>1, <3>2 DEF PaidFor, Fetch!payload, Fetch!Buying
    <3> QED BY <1>1, <2>4, <3>1, <3>3 DEF Shape, Fetch!receive, Fetch!Buying, Within, Allowed
  <2>5. CASE Fetch!verify(c)
    BY <1>1, <2>5 DEF Shape, Fetch!verify, Fetch!Answered, Fetch!Ends, Fetch!Buying, Within, Allowed, Refused
  <2>6. CASE Fetch!settle(c)
    BY <1>1, <2>6 DEF Shape, Fetch!settle, Fetch!Answered, Fetch!Ends, Within, Allowed, Refused
  <2>7. CASE Fetch!remember(c)
    <3>1. PaidFor(Fetch!payload(c), route[c])'
      BY <1>1, <2>7 DEF Shape, Fetch!remember, PaidFor, Fetch!payload
    <3> QED BY <1>1, <2>7, <3>1 DEF Shape, Fetch!remember, Within, Allowed
  <2>8. CASE Fetch!handle(c)
    <3>1. PaidFor(Fetch!payload(c), route[c])'
      BY <1>1, <2>8 DEF Shape, Fetch!handle, PaidFor, Fetch!payload
    <3> QED BY <1>1, <2>8, <3>1 DEF Shape, Fetch!handle, Fetch!Answered, Fetch!Ends, Within, Allowed, Refused
  <2> QED BY <2>1, <2>2, <2>3, <2>4, <2>5, <2>6, <2>7, <2>8
<1>7. StoreIsPaid'
  <2>1. CASE Fetch!remember(c)
    <3> DEFINE e == Fetch!serverIdempotencyKey(c, route[c])
    <3>1. store' = store \cup {e} /\ e[1] = Fetch!payload(c) /\ e[2] = route[c]
      BY <2>1 DEF Fetch!remember, Fetch!serverIdempotencyKey
    <3>2. PaidFor(Fetch!payload(c), route[c])
      BY <1>1, <2>1 DEF Shape, Fetch!remember, PaidFor
    <3>3. \A d \in store' : PaidFor(d[1], d[2])
      BY <3>1, <3>2 DEF StoreIsPaid
    <3> QED BY <1>4, <3>3, PaidStays DEF StoreIsPaid
  <2>2. CASE ~Fetch!remember(c)
    <3>1. store' = store
      BY <2>2 DEF Fetch!fetch, Fetch!decide, Fetch!issueMandate, Fetch!receive, Fetch!verify, Fetch!settle, Fetch!handle, Fetch!Buying
    <3> QED BY <1>4, <3>1, PaidStays DEF StoreIsPaid
  <2> QED BY <2>1, <2>2
<1> QED BY <1>2, <1>5, <1>6, <1>7 DEF Shapes

\* A paid request presented again has the challenge that was decided on.
LEMMA RepeatKeeps ==
  ASSUME FetchIInv, NEW c \in FetchCall, NEW d \in FetchCall, Fetch!repeat(c, d)
  PROVE  FetchIInv'
<1> USE DEF FetchIInv
<1>1. /\ Typed /\ Shape(c) /\ Shape(d) /\ pc[c] = "idle" /\ c \notin settled /\ c \notin served
      /\ UNCHANGED <<routeAsks, store, settled, served, route, outcome>>
  BY DEF Shapes, Shape, Fetch!repeat, Fetch!Buying, Fetch!Sent, Fetch!AtPaywall
<1>2. /\ pc' = [pc EXCEPT ![c] = "received"] /\ challenge' = [challenge EXCEPT ![c] = challenge[d]]
      /\ signed' = [signed EXCEPT ![c] = signed[d]]
  BY DEF Fetch!repeat, Fetch!Sends
<1>3. Typed'
  BY <1>1, <1>2 DEF Typed
<1>4. PaymentsStay
  BY <1>1, <1>2 DEF Typed, PaymentsStay
<1>5. \A e \in FetchCall \ {c} : Shape(e)'
  <2> SUFFICES ASSUME NEW e \in FetchCall \ {c} PROVE Shape(e)'
    OBVIOUS
  <2>1. pc'[e] = pc[e] /\ challenge'[e] = challenge[e] /\ signed'[e] = signed[e] /\ route'[e] = route[e] /\ outcome'[e] = outcome[e]
    BY <1>1, <1>2 DEF Typed
  <2> QED BY <1>1, <1>4, <2>1, OthersKeep DEF Shapes
<1>6. Shape(c)'
  <2>1. pc'[c] = "received" /\ challenge'[c] = challenge[d] /\ outcome'[c] = "none"
    BY <1>1, <1>2 DEF Typed, Shape
  <2>2. Within(d) /\ Allowed(d) /\ MaxAmount(c) = MaxAmount(d)
    BY <1>1 DEF Shape, Fetch!repeat
  <2>3. Within(c)' /\ Allowed(c)'
    BY <2>1, <2>2 DEF Within, Allowed, Fetch!assertAmountWithinLimit
  <2> QED BY <1>1, <2>1, <2>3 DEF Shape
<1>7. StoreIsPaid'
  BY <1>1, <1>4, PaidStays DEF StoreIsPaid
<1> QED BY <1>3, <1>5, <1>6, <1>7 DEF Shapes

\* A restart ends the requests at the paywall, settled or not.
LEMMA FetchRestartKeeps == ASSUME FetchIInv, Fetch!restart PROVE FetchIInv'
<1> USE DEF FetchIInv
<1>1. PICK lost \in SUBSET {c \in FetchCall : pc[c] = "settling"} : settled' = settled \cup lost
  BY DEF Fetch!restart
<1>2. Typed'
  BY <1>1 DEF Typed, Fetch!restart
<1>3. \A k, q : PaidFor(k, q) => PaidFor(k, q)'
  BY <1>1 DEF Fetch!restart, PaidFor, Fetch!payload
<1>4. \A c \in FetchCall : Shape(c)'
  <2> SUFFICES ASSUME NEW c \in FetchCall PROVE Shape(c)'
    OBVIOUS
  <2>1. Shape(c) /\ challenge' = challenge /\ signed' = signed /\ route' = route /\ served' = served
    BY DEF Shapes, Fetch!restart
  <2>2. PaidFor(Fetch!payload(c), route[c]) => PaidFor(Fetch!payload(c), route[c])'
    BY <1>1, <2>1 DEF PaidFor, Fetch!payload
  <2>3. CASE pc[c] \in Fetch!AtPaywall
    <3>1. pc'[c] = "done" /\ outcome'[c] = "network_error"
      BY <2>3 DEF Fetch!restart, Fetch!Cut
    <3> QED BY <1>1, <2>1, <2>2, <2>3, <3>1 DEF Shape, Within, Allowed, Refused, Fetch!Sent, Fetch!AtPaywall
  <2>4. CASE pc[c] \notin Fetch!AtPaywall
    <3>1. pc'[c] = pc[c] /\ outcome'[c] = outcome[c] /\ (c \in settled' <=> c \in settled)
      BY <1>1, <2>4 DEF Fetch!restart, Fetch!Cut, Fetch!AtPaywall
    <3> QED BY <2>1, <2>2, <3>1 DEF Shape, Within, Allowed, Fetch!Sent, Fetch!AtPaywall
  <2> QED BY <2>3, <2>4
<1>5. StoreIsPaid'
  <2>1. store' \subseteq store
    BY DEF Fetch!restart
  <2> QED BY <1>3, <2>1 DEF StoreIsPaid
<1> QED BY <1>2, <1>4, <1>5 DEF Shapes

LEMMA FetchStepKeeps == FetchIInv /\ [Fetch!Next]_(Fetch!vars) => FetchIInv'
<1> SUFFICES ASSUME FetchIInv, [Fetch!Next]_(Fetch!vars) PROVE FetchIInv'
  OBVIOUS
<1>1. ASSUME Fetch!reprice \/ Fetch!tick \/ UNCHANGED Fetch!vars PROVE FetchIInv'
  BY <1>1 DEF FetchIInv, Typed, Shapes, Shape, StoreIsPaid, PaidFor, Fetch!payload, Within, Allowed, Fetch!Sent, Fetch!AtPaywall,
     Fetch!reprice, Fetch!tick, Fetch!vars
<1> QED BY <1>1, CallKeeps, RepeatKeeps, FetchRestartKeeps DEF Fetch!Next

\* wallet.decide, the limit and the paywall's order of steps (x402/src/buyer.ts,
\* server.ts): whatever the route comes to ask, what is settled was allowed, and a
\* route that ran was paid what it asked.
THEOREM PaysAsAgreed == Fetch!Spec => []Fetch!PaidAsAgreed
<1>1. FetchIInv => Fetch!PaidAsAgreed
  BY DEF FetchIInv, Typed, Shapes, Shape, PaidFor, Fetch!PaidAsAgreed, Within, Allowed, Refused, Fetch!Sent, Fetch!AtPaywall
<1> QED BY <1>1, FetchInitKeeps, FetchStepKeeps, PTL DEF Fetch!Spec
-----------------------------------------------------------------------------
(* Once per payload.                                                       *)

FetchBusy(c) == pc[c] \in Fetch!AtPaywall
Clean(c) == Fetch!payload(c) \notin tainted

\* The next step that can settle leads from here.
Settling(c) == pc[c] = "settling" \/ (pc[c] = "verifying" /\ challenge[c] = route[c])

\* A payload that is not tainted has one request at the paywall at most.
AloneThere ==
  \A c, d \in FetchCall : FetchBusy(c) /\ FetchBusy(d) /\ Fetch!payload(c) = Fetch!payload(d) /\ Clean(c) => c = d

\* Its settlement is stored, or about to be.
Stored ==
  \A c \in settled :
    Clean(c) => pc[c] = "storing" \/ <<Fetch!payload(c), challenge[c]>> \in store

\* Who is about to settle it is the first to.
Unpaid ==
  \A c \in FetchCall : Clean(c) /\ Settling(c) => \A d \in settled : Fetch!payload(d) # Fetch!payload(c)

OnceInv == FetchIInv /\ AloneThere /\ Stored /\ Unpaid /\ Fetch!RepeatsPayOnce

\* A step of c alone that settles and stores nothing and signs nothing.
LEMMA QuietKeepsOnce ==
  ASSUME OnceInv, NEW c \in FetchCall, UNCHANGED <<challenge, signed, store, settled, tainted>>,
         \A d \in FetchCall \ {c} : pc'[d] = pc[d] /\ route'[d] = route[d],
         FetchBusy(c)' => FetchBusy(c), pc[c] # "storing",
         Clean(c) /\ Settling(c)' => Settling(c) \/ \A d \in settled : Fetch!payload(d) # Fetch!payload(c)
  PROVE  AloneThere' /\ Stored' /\ Unpaid' /\ Fetch!RepeatsPayOnce'
<1> USE DEF OnceInv
<1>1. \A d \in FetchCall : Fetch!payload(d)' = Fetch!payload(d) /\ Clean(d)' = Clean(d)
  BY DEF Fetch!payload, Clean
<1>2. \A d \in FetchCall \ {c} : FetchBusy(d)' = FetchBusy(d) /\ Settling(d)' = Settling(d)
  BY DEF FetchBusy, Settling
<1>3. settled \subseteq FetchCall
  BY DEF FetchIInv, Typed
<1>4. AloneThere'
  <2>1. \A d \in FetchCall : FetchBusy(d)' => FetchBusy(d)
    BY <1>2
  <2> QED BY <1>1, <2>1 DEF AloneThere
<1>5. Stored'
  <2>1. \A d \in FetchCall : pc[d] = "storing" => pc'[d] = "storing"
    OBVIOUS
  <2> QED BY <1>1, <1>3, <2>1 DEF Stored
<1>6. Unpaid'
  <2> SUFFICES ASSUME NEW d \in FetchCall, Clean(d)', Settling(d)', NEW e \in settled'
               PROVE  Fetch!payload(e)' # Fetch!payload(d)'
    BY DEF Unpaid
  <2>1. Fetch!payload(e) # Fetch!payload(d)
    <3>1. CASE d = c
      BY <1>1, <3>1 DEF Unpaid
    <3>2. CASE d # c
      BY <1>1, <1>2, <3>2 DEF Unpaid
    <3> QED BY <3>1, <3>2
  <2> QED BY <1>1, <1>3, <2>1
<1>7. Fetch!RepeatsPayOnce'
  BY <1>1, <1>3 DEF Fetch!RepeatsPayOnce, Clean
<1> QED BY <1>4, <1>5, <1>6, <1>7

\* The first fetch gives an idle call its payload.
LEMMA FetchKeepsOnce ==
  ASSUME OnceInv, NEW c \in FetchCall, Fetch!fetch(c)
  PROVE  AloneThere' /\ Stored' /\ Unpaid' /\ Fetch!RepeatsPayOnce'
<1> USE DEF OnceInv
<1>1. /\ pc[c] = "idle" /\ c \notin settled /\ settled \subseteq FetchCall
      /\ UNCHANGED <<store, settled, tainted, route, signed>>
  BY DEF Fetch!fetch, Fetch!Buying, FetchIInv, Typed, Shapes, Shape
<1>2. \A d \in FetchCall \ {c} : /\ pc'[d] = pc[d] /\ challenge'[d] = challenge[d] /\ route'[d] = route[d]
                            /\ Fetch!payload(d)' = Fetch!payload(d) /\ Clean(d)' = Clean(d)
                            /\ FetchBusy(d)' = FetchBusy(d) /\ Settling(d)' = Settling(d)
  BY DEF Fetch!fetch, Fetch!Buying, Fetch!Ends, FetchIInv, Typed, Fetch!payload, Clean, FetchBusy, Settling
<1>3. pc'[c] \in {"deciding", "done"}
  BY DEF Fetch!fetch, Fetch!Ends, FetchIInv, Typed
<1>4. ~FetchBusy(c)' /\ ~Settling(c)'
  BY <1>3 DEF FetchBusy, Settling, Fetch!AtPaywall
<1>5. AloneThere'
  BY <1>2, <1>4 DEF AloneThere
<1>6. Stored'
  BY <1>1, <1>2 DEF Stored
<1>7. Unpaid'
  BY <1>1, <1>2, <1>4 DEF Unpaid
<1>8. \A d \in settled : Fetch!payload(d)' = Fetch!payload(d)
  BY <1>1, <1>2
<1>9. Fetch!RepeatsPayOnce'
  BY <1>1, <1>8 DEF Fetch!RepeatsPayOnce
<1> QED BY <1>5, <1>6, <1>7, <1>9

\* A payment sent while another of its payload is at the paywall taints it.
LEMMA SendKeepsOnce ==
  ASSUME OnceInv, NEW c \in FetchCall, c \notin settled, ~FetchBusy(c), Fetch!Sends(c),
         UNCHANGED <<store, settled, route>>,
         \A d \in FetchCall \ {c} : challenge'[d] = challenge[d] /\ signed'[d] = signed[d]
  PROVE  AloneThere' /\ Stored' /\ Unpaid' /\ Fetch!RepeatsPayOnce'
<1> USE DEF OnceInv
<1>1. /\ tainted \subseteq tainted' /\ settled \subseteq FetchCall \ {c} /\ pc' = [pc EXCEPT ![c] = "received"]
      /\ pc'[c] = "received"
  BY DEF Fetch!Sends, FetchIInv, Typed
<1>2. \A d \in FetchCall \ {c} : /\ pc'[d] = pc[d] /\ FetchBusy(d)' = FetchBusy(d) /\ Settling(d)' = Settling(d)
                              /\ Fetch!payload(d)' = Fetch!payload(d) /\ (Clean(d)' => Clean(d))
  BY <1>1 DEF FetchIInv, Typed, FetchBusy, Settling, Fetch!payload, Clean
<1>3. ASSUME Clean(c)', NEW d \in FetchCall \ {c}, FetchBusy(d)', Fetch!payload(d)' = Fetch!payload(c)' PROVE FALSE
  <2>1. d \in Fetch!SamePayload(c)'
    BY <1>3 DEF Fetch!SamePayload, FetchBusy
  <2>2. Fetch!payload(c)' \in tainted'
    BY <2>1 DEF Fetch!Sends
  <2> QED BY <1>3, <2>2 DEF Clean
<1>4. AloneThere'
  <2> SUFFICES ASSUME NEW d \in FetchCall, NEW e \in FetchCall, FetchBusy(d)', FetchBusy(e)', Fetch!payload(d)' = Fetch!payload(e)',
                      Clean(d)'
               PROVE  d = e
    BY DEF AloneThere
  <2>1. Clean(e)'
    BY DEF Clean
  <2>2. CASE d = c
    BY <1>3, <2>1, <2>2
  <2>3. CASE e = c
    BY <1>3, <2>1, <2>3
  <2>4. CASE d # c /\ e # c
    BY <1>2, <2>1, <2>4 DEF AloneThere
  <2> QED BY <2>2, <2>3, <2>4
<1>5. Stored'
  BY <1>1, <1>2 DEF Stored
<1>6. Unpaid'
  <2>1. ~Settling(c)'
    BY <1>1 DEF Settling
  <2> QED BY <1>1, <1>2, <2>1 DEF Unpaid
<1>7. Fetch!RepeatsPayOnce'
  <2>1. \A d \in settled : Fetch!payload(d)' = Fetch!payload(d) /\ (Clean(d)' => Clean(d))
    BY <1>1, <1>2
  <2> QED BY <2>1 DEF Fetch!RepeatsPayOnce, Clean
<1> QED BY <1>4, <1>5, <1>6, <1>7

\* The wallet signs, or cannot.
LEMMA IssueKeepsOnce ==
  ASSUME OnceInv, NEW c \in FetchCall, Fetch!issueMandate(c)
  PROVE  AloneThere' /\ Stored' /\ Unpaid' /\ Fetch!RepeatsPayOnce'
<1> USE DEF OnceInv
<1>1. pc[c] = "signing" /\ UNCHANGED <<store, settled, route, challenge>> /\ Typed /\ Shape(c)
  BY DEF Fetch!issueMandate, Fetch!Buying, FetchIInv, Shapes
<1>2. c \notin settled /\ ~FetchBusy(c)
  BY <1>1 DEF Shape, FetchBusy, Fetch!AtPaywall
<1>3. CASE Fetch!Sends(c) /\ \E date : signed' = [signed EXCEPT ![c] = date]
  <2>1. \A d \in FetchCall \ {c} : challenge'[d] = challenge[d] /\ signed'[d] = signed[d]
    BY <1>1, <1>3 DEF Typed
  <2> QED BY <1>1, <1>2, <1>3, <2>1, SendKeepsOnce
<1>4. CASE Fetch!Ends(c, "signer_unavailable") /\ UNCHANGED <<signed, tainted>>
  <2>1. pc'[c] = "done" /\ \A d \in FetchCall \ {c} : pc'[d] = pc[d] /\ route'[d] = route[d]
    BY <1>1, <1>4 DEF Fetch!Ends, Typed
  <2>2. ~FetchBusy(c)' /\ ~Settling(c)' /\ pc[c] # "storing"
    BY <1>1, <2>1 DEF FetchBusy, Settling, Fetch!AtPaywall
  <2> QED BY <1>1, <1>4, <2>1, <2>2, QuietKeepsOnce
<1> QED BY <1>3, <1>4 DEF Fetch!issueMandate

\* A paid request is presented again.
LEMMA RepeatKeepsOnce ==
  ASSUME OnceInv, NEW c \in FetchCall, NEW d \in FetchCall, Fetch!repeat(c, d)
  PROVE  AloneThere' /\ Stored' /\ Unpaid' /\ Fetch!RepeatsPayOnce'
<1> USE DEF OnceInv
<1>1. pc[c] = "idle" /\ UNCHANGED <<store, settled, route>> /\ Typed /\ Shape(c) /\ Fetch!Sends(c)
  BY DEF Fetch!repeat, Fetch!Buying, FetchIInv, Shapes
<1>2. c \notin settled /\ ~FetchBusy(c)
  BY <1>1 DEF Shape, FetchBusy, Fetch!AtPaywall
<1>3. \A e \in FetchCall \ {c} : challenge'[e] = challenge[e] /\ signed'[e] = signed[e]
  BY <1>1 DEF Fetch!repeat, Typed
<1> QED BY <1>1, <1>2, <1>3, SendKeepsOnce

\* The paywall looks up the payment: a settlement that was stored is found.
LEMMA ReceiveKeepsOnce ==
  ASSUME OnceInv, NEW c \in FetchCall, Fetch!receive(c)
  PROVE  AloneThere' /\ Stored' /\ Unpaid' /\ Fetch!RepeatsPayOnce'
<1> USE DEF OnceInv
<1>1. /\ pc[c] = "received" /\ UNCHANGED <<challenge, signed, store, settled, tainted>>
      /\ settled \subseteq FetchCall
  BY DEF Fetch!receive, Fetch!Buying, FetchIInv, Typed
<1>2. \A d \in FetchCall \ {c} : pc'[d] = pc[d] /\ route'[d] = route[d]
  BY DEF Fetch!receive, FetchIInv, Typed
<1>3. /\ pc'[c] \in {"handling", "verifying"} /\ route'[c] = routeAsks
      /\ pc'[c] = "verifying" => Fetch!serverIdempotencyKey(c, routeAsks) \notin store
  BY DEF Fetch!receive, FetchIInv, Typed
<1>4. FetchBusy(c)
  BY <1>1 DEF FetchBusy, Fetch!AtPaywall
<1>5. ASSUME Clean(c), Settling(c)', NEW d \in settled, Fetch!payload(d) = Fetch!payload(c) PROVE FALSE
  <2>1. challenge[c] = routeAsks /\ Fetch!serverIdempotencyKey(c, routeAsks) \notin store
    BY <1>1, <1>3, <1>5 DEF Settling
  <2>2. challenge[d] = challenge[c] /\ Clean(d)
    BY <1>5 DEF Fetch!payload, Clean
  <2>3. <<Fetch!payload(d), challenge[d]>> \notin store
    BY <1>5, <2>1, <2>2 DEF Fetch!serverIdempotencyKey
  <2>4. pc[d] = "storing" /\ d \in FetchCall
    BY <1>1, <1>5, <2>2, <2>3 DEF Stored
  <2>5. FetchBusy(d) /\ d # c
    BY <1>1, <2>4 DEF FetchBusy, Fetch!AtPaywall
  <2> QED BY <1>4, <1>5, <2>4, <2>5 DEF AloneThere
<1> QED BY <1>1, <1>2, <1>4, <1>5, QuietKeepsOnce

\* A settlement of a clean payload is the first.
LEMMA SettleKeepsOnce ==
  ASSUME OnceInv, NEW c \in FetchCall, Fetch!settle(c)
  PROVE  AloneThere' /\ Stored' /\ Unpaid' /\ Fetch!RepeatsPayOnce'
<1> USE DEF OnceInv
<1>1. /\ pc[c] = "settling" /\ UNCHANGED <<challenge, signed, store, tainted, route>>
      /\ settled \subseteq FetchCall
  BY DEF Fetch!settle, Fetch!Buying, FetchIInv, Typed
<1>2. \A d \in FetchCall \ {c} : pc'[d] = pc[d]
  BY DEF Fetch!settle, Fetch!Answered, Fetch!Ends, FetchIInv, Typed
<1>3. CASE settled' = settled
  <2>1. pc'[c] = "storing" \/ pc'[c] = "done"
    BY DEF Fetch!settle, Fetch!Answered, Fetch!Ends, FetchIInv, Typed
  <2>2. (FetchBusy(c)' => FetchBusy(c)) /\ ~Settling(c)'
    BY <1>1, <2>1 DEF FetchBusy, Fetch!AtPaywall, Settling
  <2> QED BY <1>1, <1>2, <1>3, <2>2, QuietKeepsOnce
<1>4. CASE settled' = settled \cup {c} /\ pc'[c] = "storing"
  <2>1. FetchBusy(c) /\ Settling(c) /\ ~Settling(c)' /\ FetchBusy(c)'
    <3>0. pc[c] = "settling"
      BY <1>1
    <3>1. FetchBusy(c) /\ Settling(c)
      BY <3>0 DEF FetchBusy, Fetch!AtPaywall, Settling
    <3>2. ~Settling(c)' /\ FetchBusy(c)'
      BY <1>4 DEF FetchBusy, Fetch!AtPaywall, Settling
    <3> QED BY <3>1, <3>2
  <2>2. \A d \in FetchCall : /\ Fetch!payload(d)' = Fetch!payload(d) /\ Clean(d)' = Clean(d)
                        /\ FetchBusy(d)' = FetchBusy(d) /\ (Settling(d)' => Settling(d))
    BY <1>1, <1>2, <2>1 DEF Fetch!payload, Clean, FetchBusy, Settling
  <2>3. AloneThere'
    BY <2>2 DEF AloneThere
  <2>4. Stored'
    BY <1>1, <1>2, <1>4, <2>2 DEF Stored
  <2>5. \A d \in FetchCall \ {c} : Clean(d) /\ Settling(d) => Fetch!payload(d) # Fetch!payload(c)
    <3>1. \A d \in FetchCall : Settling(d) => FetchBusy(d)
      BY DEF Settling, FetchBusy, Fetch!AtPaywall
    <3> QED BY <2>1, <3>1 DEF AloneThere
  <2>6. Unpaid'
    <3> SUFFICES ASSUME NEW d \in FetchCall, Clean(d)', Settling(d)', NEW e \in settled'
                 PROVE  Fetch!payload(e)' # Fetch!payload(d)'
      BY DEF Unpaid
    <3>1. d # c /\ Clean(d) /\ Settling(d) /\ e \in FetchCall
      BY <1>1, <1>4, <2>1, <2>2
    <3>2. Fetch!payload(e) # Fetch!payload(d)
      BY <1>4, <2>5, <3>1 DEF Unpaid
    <3> QED BY <2>2, <3>1, <3>2
  <2>7. Fetch!RepeatsPayOnce'
    <3>1. Clean(c) => \A d \in settled : Fetch!payload(d) # Fetch!payload(c)
      BY <2>1 DEF Unpaid
    <3> SUFFICES ASSUME NEW d \in settled', NEW e \in settled', Fetch!payload(d)' = Fetch!payload(e)',
                        Fetch!payload(d)' \notin tainted'
                 PROVE  d = e
      BY DEF Fetch!RepeatsPayOnce
    <3>2. /\ d \in FetchCall /\ e \in FetchCall /\ Fetch!payload(d) = Fetch!payload(e) /\ Fetch!payload(d) \notin tainted
      BY <1>1, <1>4, <2>2
    <3>3. CASE d = c
      BY <1>4, <3>1, <3>2, <3>3 DEF Clean
    <3>4. CASE e = c
      BY <1>4, <3>1, <3>2, <3>4 DEF Clean
    <3>5. CASE d # c /\ e # c
      BY <1>4, <3>2, <3>5 DEF Fetch!RepeatsPayOnce
    <3> QED BY <3>3, <3>4, <3>5
  <2> QED BY <2>3, <2>4, <2>6, <2>7
<1> QED BY <1>3, <1>4 DEF Fetch!settle, Fetch!Answered, Fetch!Ends, FetchIInv, Typed

\* The store gets what was settled, under the payload.
LEMMA RememberKeepsOnce ==
  ASSUME OnceInv, NEW c \in FetchCall, Fetch!remember(c)
  PROVE  AloneThere' /\ Stored' /\ Unpaid' /\ Fetch!RepeatsPayOnce'
<1> USE DEF OnceInv
<1>1. /\ pc[c] = "storing" /\ UNCHANGED <<challenge, signed, tainted, route, settled>>
      /\ settled \subseteq FetchCall /\ pc' = [pc EXCEPT ![c] = "handling"]
      /\ store' = store \cup {<<Fetch!payload(c), route[c]>>}
  BY DEF Fetch!remember, FetchIInv, Typed, Fetch!serverIdempotencyKey
<1>2. pc'[c] = "handling" /\ \A d \in FetchCall \ {c} : pc'[d] = pc[d]
  BY <1>1 DEF FetchIInv, Typed
<1>3. \A d \in FetchCall : /\ Fetch!payload(d)' = Fetch!payload(d) /\ Clean(d)' = Clean(d)
                      /\ (FetchBusy(d)' => FetchBusy(d)) /\ (Settling(d)' => Settling(d))
  BY <1>1, <1>2 DEF Fetch!payload, Clean, FetchBusy, Settling, Fetch!AtPaywall
<1>4. challenge[c] = route[c]
  BY <1>1 DEF FetchIInv, Shapes, Shape
<1>5. AloneThere'
  BY <1>3 DEF AloneThere
<1>6. Stored'
  BY <1>1, <1>2, <1>3, <1>4 DEF Stored
<1>7. Unpaid'
  BY <1>1, <1>3 DEF Unpaid
<1>8. Fetch!RepeatsPayOnce'
  BY <1>1, <1>3 DEF Fetch!RepeatsPayOnce
<1> QED BY <1>5, <1>6, <1>7, <1>8

\* A restart taints what it cuts short and, with a store in memory, what was settled.
LEMMA RestartKeepsOnce ==
  ASSUME OnceInv, Fetch!restart
  PROVE  AloneThere' /\ Stored' /\ Unpaid' /\ Fetch!RepeatsPayOnce'
<1> USE DEF OnceInv
<1>1. PICK lost \in SUBSET {c \in FetchCall : pc[c] = "settling"} : settled' = settled \cup lost
  BY DEF Fetch!restart
<1>2. /\ UNCHANGED <<challenge, signed, route>> /\ tainted \subseteq tainted' /\ settled \subseteq FetchCall
      /\ \A c \in Fetch!Cut : Fetch!payload(c) \in tainted'
      /\ Durable \/ \A c \in settled : Fetch!payload(c) \in tainted'
  BY DEF Fetch!restart, FetchIInv, Typed
<1>3. \A c \in FetchCall : ~FetchBusy(c)' /\ ~Settling(c)'
  <2>1. \A c \in FetchCall : pc'[c] = (IF c \in Fetch!Cut THEN "done" ELSE pc[c])
    BY DEF Fetch!restart
  <2> QED BY <2>1 DEF Fetch!Cut, FetchBusy, Settling, Fetch!AtPaywall
<1>4. \A c \in FetchCall : Fetch!payload(c)' = Fetch!payload(c) /\ (Clean(c)' => Clean(c) /\ c \notin Fetch!Cut)
  BY <1>2 DEF Fetch!payload, Clean
<1>5. lost \subseteq Fetch!Cut
  BY DEF Fetch!Cut, Fetch!AtPaywall
<1>6. \A c \in settled' : Clean(c)' => c \in settled /\ Clean(c) /\ c \notin Fetch!Cut /\ Durable
  BY <1>1, <1>2, <1>4, <1>5 DEF Clean
<1>7. AloneThere' /\ Unpaid'
  BY <1>3 DEF AloneThere, Unpaid
<1>8. Stored'
  <2> SUFFICES ASSUME NEW c \in settled', Clean(c)'
               PROVE  <<Fetch!payload(c)', challenge'[c]>> \in store'
    BY DEF Stored
  <2>1. c \in settled /\ Clean(c) /\ c \notin Fetch!Cut /\ Durable /\ c \in FetchCall
    BY <1>2, <1>6
  <2>2. pc[c] # "storing" /\ store' = store
    BY <2>1 DEF Fetch!Cut, Fetch!AtPaywall, Fetch!restart
  <2> QED BY <1>2, <1>4, <2>1, <2>2 DEF Stored
<1>9. Fetch!RepeatsPayOnce'
  <2> SUFFICES ASSUME NEW d \in settled', NEW e \in settled', Fetch!payload(d)' = Fetch!payload(e)', Clean(d)'
               PROVE  d = e
    BY DEF Fetch!RepeatsPayOnce, Clean
  <2>1. Clean(e)'
    BY DEF Clean
  <2>2. d \in settled /\ e \in settled /\ Clean(d)
    BY <1>6, <2>1
  <2> QED BY <1>2, <1>4, <2>2 DEF Fetch!RepeatsPayOnce, Clean
<1> QED BY <1>7, <1>8, <1>9

LEMMA StepKeepsOnce == OnceInv /\ [Fetch!Next]_(Fetch!vars) => OnceInv'
<1> SUFFICES ASSUME OnceInv, [Fetch!Next]_(Fetch!vars) PROVE OnceInv'
  OBVIOUS
<1>0. FetchIInv'
  BY FetchStepKeeps DEF OnceInv
<1>1. ASSUME NEW c \in FetchCall, Fetch!decide(c) \/ Fetch!verify(c) \/ Fetch!handle(c)
      PROVE  AloneThere' /\ Stored' /\ Unpaid' /\ Fetch!RepeatsPayOnce'
  <2>1. UNCHANGED <<challenge, signed, store, settled, tainted, route>>
    BY <1>1 DEF Fetch!decide, Fetch!verify, Fetch!handle, Fetch!Buying
  <2>2. \A d \in FetchCall \ {c} : pc'[d] = pc[d] /\ route'[d] = route[d]
    BY <1>1, <2>1 DEF Fetch!decide, Fetch!verify, Fetch!handle, Fetch!Answered, Fetch!Ends, OnceInv, FetchIInv, Typed
  <2>3. /\ pc[c] # "storing" /\ pc'[c] \in {"done", "signing", "settling"}
        /\ pc'[c] = "settling" => pc[c] = "verifying" /\ challenge[c] = route[c]
    BY <1>1 DEF Fetch!decide, Fetch!verify, Fetch!handle, Fetch!Answered, Fetch!Ends, OnceInv, FetchIInv, Typed
  <2>4. (FetchBusy(c)' => FetchBusy(c)) /\ (Settling(c)' => Settling(c))
    BY <2>3 DEF FetchBusy, Fetch!AtPaywall, Settling
  <2> QED BY <2>1, <2>2, <2>3, <2>4, QuietKeepsOnce
<1>2. ASSUME Fetch!reprice \/ Fetch!tick \/ UNCHANGED Fetch!vars
      PROVE  AloneThere' /\ Stored' /\ Unpaid' /\ Fetch!RepeatsPayOnce'
  BY <1>2 DEF Fetch!reprice, Fetch!tick, Fetch!vars, OnceInv, AloneThere, Stored, Unpaid, Fetch!RepeatsPayOnce, FetchBusy, Clean, Settling, Fetch!payload
<1>3. AloneThere' /\ Stored' /\ Unpaid' /\ Fetch!RepeatsPayOnce'
  BY <1>1, <1>2, FetchKeepsOnce, IssueKeepsOnce, RepeatKeepsOnce, ReceiveKeepsOnce, SettleKeepsOnce,
     RememberKeepsOnce, RestartKeepsOnce DEF Fetch!Next
<1> QED BY <1>0, <1>3 DEF OnceInv

\* The paywall's settlement store and the order of its steps (x402/src/server.ts): a signed
\* payment is settled once however often it is presented, unless its requests overlap or one
\* is cut short.  A payment signed again with another date is another payment.
THEOREM PaysOnce == Fetch!Spec => []Fetch!RepeatsPayOnce
<1>1. Fetch!Init => OnceInv
  <2> SUFFICES ASSUME Fetch!Init PROVE OnceInv
    OBVIOUS
  <2>1. FetchIInv /\ settled = {} /\ \A c \in FetchCall : pc[c] = "idle"
    BY FetchInitKeeps DEF Fetch!Init
  <2> QED BY <2>1 DEF OnceInv, AloneThere, Stored, Unpaid, Fetch!RepeatsPayOnce, FetchBusy, Settling, Fetch!AtPaywall
<1>2. OnceInv => Fetch!RepeatsPayOnce
  BY DEF OnceInv
<1> QED BY <1>1, <1>2, StepKeepsOnce, PTL DEF Fetch!Spec
==============================================================================
