--------------------------- MODULE ApprovalWebhook ---------------------------
(***************************************************************************)
(* The approval channel over a webhook: a prompt is posted to the          *)
(* approver, stored when the post is answered, decided by a signed         *)
(* callback and polled by the engine.  The approver may answer before the  *)
(* post has returned, twice, late, differently from two devices, and under *)
(* another policy.                                                         *)
(***************************************************************************)
EXTENDS Integers, FiniteSets

CONSTANTS
  Prompt,      \* approval prompts
  Ttl,         \* expires_at, from the moment of the prompt
  MaxTime,     \* bound on the clock
  MaxPolicies  \* bound on reloads of the policy

WebhookAssumption == Ttl \in Nat \ {0} /\ MaxTime \in Nat /\ MaxPolicies \in Nat \ {0}

VARIABLES
  time,     \* the channel's clock
  current,  \* the engine's policy hash
  post,     \* post[p]: "none", "posted", "stored", "failed"
  prompt,   \* prompt[p]: when it expires and the policy it was made under
  status,   \* status[p], as the channel keeps it
  told      \* history: told[p]: the final statuses the engine or the approver heard

vars == <<time, current, post, prompt, status, told>>

Init ==
  /\ time = 0 /\ current = 1
  /\ post = [p \in Prompt |-> "none"]
  /\ prompt = [p \in Prompt |-> [expires |-> 0, policy |-> 0]]
  /\ status = [p \in Prompt |-> "none"]
  /\ told = [p \in Prompt |-> {}]

\* prompt up to the await of the post.
promptPost(p) ==
  /\ post[p] = "none"
  /\ post' = [post EXCEPT ![p] = "posted"]
  /\ prompt' = [prompt EXCEPT ![p] = [expires |-> time + Ttl, policy |-> current]]
  /\ UNCHANGED <<time, current, status, told>>

\* The post is answered: only now is the prompt stored.
promptStored(p) ==
  /\ post[p] = "posted"
  /\ \/ post' = [post EXCEPT ![p] = "stored"] /\ status' = [status EXCEPT ![p] = "pending"]
     \/ post' = [post EXCEPT ![p] = "failed"] /\ UNCHANGED status
  /\ UNCHANGED <<time, current, prompt, told>>

statusFor(p) ==
  IF status[p] = "pending" /\ prompt[p].expires <= time THEN "expired" ELSE status[p]

Hears(p, s) == told' = [told EXCEPT ![p] = @ \cup {s}]

\* The engine's poll; a channel that does not know the prompt says expired.
poll(p) ==
  /\ post[p] = "stored"
  /\ status' = [status EXCEPT ![p] = statusFor(p)]
  /\ IF statusFor(p) = "pending" THEN UNCHANGED told ELSE Hears(p, statusFor(p))
  /\ UNCHANGED <<time, current, post, prompt>>

Authentic(cb) == cb.signed /\ cb.nonce = cb.prompt
Decided(s) == s \in {"approved", "denied"}

\* Mutant of handleCallback: an answer is not final.
handleCallbackAgain(cb) ==
  /\ post[cb.prompt] = "stored" /\ Authentic(cb)
  /\ statusFor(cb.prompt) # "expired"
  /\ cb.policy \in {0, current}
  /\ status' = [status EXCEPT ![cb.prompt] = cb.decision]
  /\ Hears(cb.prompt, cb.decision)
  /\ UNCHANGED <<time, current, post, prompt>>

\* A callback that is accepted; one that finds it expired stores that.
handleCallback(cb) ==
  /\ post[cb.prompt] = "stored" /\ Authentic(cb)
  /\ ~Decided(status[cb.prompt])
  /\ \/ /\ statusFor(cb.prompt) = "expired"
        /\ status' = [status EXCEPT ![cb.prompt] = "expired"]
        /\ Hears(cb.prompt, "expired")
     \/ /\ statusFor(cb.prompt) # "expired"
        /\ cb.policy \in {0, current}
        /\ status' = [status EXCEPT ![cb.prompt] = cb.decision]
        /\ Hears(cb.prompt, cb.decision)
  /\ UNCHANGED <<time, current, post, prompt>>

\* The callbacks a posted prompt can meet: of either decision, naming its policy or
\* none, signed or not, with its nonce or another's.
Callback ==
  {cb \in [prompt : Prompt, nonce : Prompt, signed : BOOLEAN,
           decision : {"approved", "denied"}, policy : 0..MaxPolicies] :
     /\ post[cb.prompt] # "none"
     /\ cb.policy \in {0, prompt[cb.prompt].policy}}

reload == current < MaxPolicies /\ current' = current + 1 /\ UNCHANGED <<time, post, prompt, status, told>>
tick == time < MaxTime /\ time' = time + 1 /\ UNCHANGED <<current, post, prompt, status, told>>

Next ==
  \/ \E p \in Prompt : promptPost(p) \/ promptStored(p) \/ poll(p)
  \/ \E cb \in Callback : handleCallback(cb)
  \/ reload \/ tick

Spec == Init /\ [][Next]_vars

(***************************************************************************)
(* Properties                                                              *)
(***************************************************************************)

\* The engine and the approver never part: whatever the callbacks' order, number
\* and age, all that is ever heard of a prompt's end is one decision or that it
\* expired, and it is what the channel keeps.
OneEnd ==
  \A p \in Prompt :
    told[p] # {} => told[p] = {status[p]} /\ status[p] \in {"approved", "denied", "expired"}
==============================================================================
