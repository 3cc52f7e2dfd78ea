-------------------------- MODULE MerchantCheckout --------------------------
(***************************************************************************)
(* The merchant's checkout server (packages/merchant/src/checkout): the    *)
(* mutating ACP and UCP routes over the session store, the idempotency     *)
(* store and a payment provider (PSP).                                     *)
(*                                                                         *)
(* A request is handled by one JavaScript process and gives way at each    *)
(* await: the idempotency store, the session store, the merchant policy,   *)
(* the PSP.  One action is one stretch between two awaits, so any other    *)
(* request, a crash and a restart may come in between.  ACP and UCP share  *)
(* the control: "ready" is ready_for_payment and ready_for_complete.       *)
(*                                                                         *)
(* Durable chooses the stores: FALSE is the pair of memory stores (one     *)
(* queue per session, everything lost with the process), TRUE the pair of  *)
(* file stores (one lock for all sessions, one per idempotency key, each a *)
(* queue in memory and a lock on disk that goes stale).                    *)
(***************************************************************************)
EXTENDS Integers, FiniteSets

CONSTANTS
  Request,      \* the HTTP requests; a retry is another request
  NoRequest,    \* not a request
  Session,      \* session ids
  Key,          \* values of the Idempotency-Key header
  Amount,       \* session totals
  OpOf,         \* OpOf[r]: create, update, complete or cancel
  SessionOf,    \* SessionOf[r]: the id in the path; for a create, the id it draws
  KeyOf,        \* KeyOf[r]: its idempotency key
  AmountOf,     \* AmountOf[r]: the total of its line items, 0 for none
  WellFormed,   \* the completions whose body passes the request schema
  Open,         \* the sessions that exist when the behaviour starts
  FirstAmount,  \* their total
  Durable,      \* file stores rather than memory stores
  Fault,        \* what may fail: "policy", "psp", "unread", "response", "expiry"
  MaxCrashes    \* bound on crashes

\* The routes that change a session; the others read, and leave everything as it is.
Op == {"create", "update", "complete", "cancel"}

\* The name of the file store's one lock, <dir>/.sessions.lock.
StoreLock == "sessions"

ASSUME RequestAssumption ==
  /\ NoRequest \notin Request
  /\ StoreLock \notin Key
  /\ Amount \subseteq Nat \ {0}
  /\ OpOf \in [Request -> Op]
  /\ SessionOf \in [Request -> Session]
  /\ KeyOf \in [Request -> Key]
  /\ AmountOf \in [Request -> Amount \cup {0}]
  /\ WellFormed \subseteq Request
\* A create draws a random id: no other create's, nor that of a stored session.
ASSUME FreshIdAssumption ==
  \A r \in Request : OpOf[r] = "create" =>
    /\ SessionOf[r] \notin Open
    /\ \A q \in Request \ {r} : OpOf[q] = "create" => SessionOf[q] # SessionOf[r]
ASSUME StoreAssumption ==
  /\ Open \subseteq Session
  /\ FirstAmount \in Amount
  /\ Durable \in BOOLEAN
  /\ Fault \subseteq {"policy", "psp", "unread", "response", "expiry"}
  /\ MaxCrashes \in Nat

VARIABLES
  crashes,      \* how often the process has crashed
  session,      \* the rows of the session store
  cache,        \* the idempotency store: the request whose response a key has
  inFlight,     \* its map of running requests, by key
  pc,           \* where each request is
  seen,         \* the row a request read with requireSession
  answer,       \* what a request answers
  call,         \* a completion's capture call, as the PSP sees it
  psp,          \* what the PSP has recorded under a session's capture key
  left,         \* locks on disk whose process is gone
  jammed,       \* in-memory lock queues that never move again
  overwritten   \* history: sessions an update replaced once they were claimed

locks == <<left, jammed>>
payment == <<call, psp>>
vars == <<crashes, session, cache, inFlight, pc, seen, answer, call, psp,
          left, jammed, overwritten>>

(***************************************************************************)
(* Rows, answers and charges                                               *)
(***************************************************************************)
Total == Amount \cup {0}

\* A session that is stored has an id and a status; one that has no file is NoRow.
Row == [status : {"none", "ready", "in_progress", "completed", "canceled"},
        total  : Total]

NoRow == [status |-> "none", total |-> 0]

\* A handler returns one kind (which is remembered) or throws another (not).
Returned == {"created", "updated", "completed", "cancelled",
             "declined", "refused", "denied"}
Thrown == {"conflict", "missing", "reused", "error"}

Answer == [kind : Returned \cup Thrown \cup {"none"}, session : Session, total : Total]

Says(r, kind, row) == [kind |-> kind, session |-> SessionOf[r], total |-> row.total]

\* What the PSP recorded, and a call to it with the amount it carries.  A call is
\* "unread" when the adapter's answer, ok: false, is not what the PSP did.
Charge == [result : {"none", "charged", "declined"}, total : Total]
Call == [result : {"none", "sent", "charged", "declined", "unread"}, total : Total]

Nothing == [result |-> "none", total |-> 0]

\* bodyHash(scope, body): the scope names the route and the session.
Hash(r) == [op      |-> OpOf[r],
            session |-> IF OpOf[r] = "create" THEN {} ELSE {SessionOf[r]},
            amount  |-> AmountOf[r],
            valid   |-> r \in WellFormed]

SameBody(q, r) == Hash(q) = Hash(r)

Where == {"idle", "joined", "locking", "get", "policy", "put", "claim",
          "claimed", "paying", "recording", "ended", "lost"}

\* The handler of r is running, inside remember().
Handling(r) == pc[r] \in {"get", "policy", "put", "claim", "claimed", "paying", "recording"}

(***************************************************************************)
(* Locks: a transition holds the session lock from the claim to the final  *)
(* write; a put or a get holds it for one write or read.  The memory store *)
(* has a queue per session and reads without it.                           *)
(***************************************************************************)
Holds(r) == pc[r] \in {"claimed", "paying"}

SameLock(s, t) == Durable \/ s = t

LockFree(s) ==
  /\ \A q \in Request : Holds(q) => ~SameLock(SessionOf[q], s)
  /\ Durable => StoreLock \notin left \cup jammed

\* Held for certain, or perhaps, at a crash.
HeldLocks == {KeyOf[r] : r \in {q \in Request : Handling(q)}}
               \cup {l \in {StoreLock} : \E r \in Request : Holds(r)}
TouchedLocks == {KeyOf[r] : r \in {q \in Request : pc[q] = "locking"}}
               \cup {l \in {StoreLock} : \E r \in Request : pc[r] \in {"get", "put", "claim"}}

Init ==
  /\ crashes = 0
  /\ session = [s \in Session |->
                 IF s \in Open THEN [status |-> "ready", total |-> FirstAmount] ELSE NoRow]
  /\ cache = [k \in Key |-> NoRequest]
  /\ inFlight = [k \in Key |-> NoRequest]
  /\ pc = [r \in Request |-> "idle"]
  /\ seen = [r \in Request |-> NoRow]
  /\ answer = [r \in Request |-> Says(r, "none", NoRow)]
  /\ call = [r \in Request |-> Nothing]
  /\ psp = [s \in Session |-> Nothing]
  /\ left = {} /\ jammed = {}
  /\ overwritten = {}

(***************************************************************************)
(* The idempotency store.  A request that meets a running one with its key *)
(* and body joins it, and ends with it.                                    *)
(***************************************************************************)
Goto(r, where) == pc' = [pc EXCEPT ![r] = where]

\* Mutant: the promise is not shared, a joiner is forgotten.
WithoutJoiners(r) == {r}

With(r) == {r} \cup {q \in Request : pc[q] = "joined" /\ KeyOf[q] = KeyOf[r]}

Settle(r, a) ==
  /\ pc' = [q \in Request |-> IF q \in With(r) THEN "ended" ELSE pc[q]]
  /\ answer' = [q \in Request |-> IF q \in With(r) THEN a ELSE answer[q]]
  /\ inFlight' = [inFlight EXCEPT ![KeyOf[r]] = NoRequest]

\* The handler throws: the error is mapped to a response and forgotten.
Throws(r, kind) == Settle(r, Says(r, kind, NoRow)) /\ UNCHANGED cache

\* The handler returns: the response goes to the store next.
Returns(r, kind, row) ==
  /\ Goto(r, "recording")
  /\ answer' = [answer EXCEPT ![r] = Says(r, kind, row)]
  /\ UNCHANGED <<cache, inFlight>>

Alone(r, a) ==
  /\ Goto(r, "ended")
  /\ answer' = [answer EXCEPT ![r] = a]
  /\ UNCHANGED inFlight

FirstStep(r) == CASE OpOf[r] = "create" -> "policy" [] OTHER -> "get"

Runs(r) == Goto(r, FirstStep(r))

Replays(r) == IF SameBody(cache[KeyOf[r]], r) THEN answer[cache[KeyOf[r]]]
                                              ELSE Says(r, "reused", NoRow)

\* Mutant: the map of running requests is not consulted.
ArriveBlind(r) ==
  /\ pc[r] = "idle"
  /\ \/ /\ cache[KeyOf[r]] # NoRequest
        /\ Alone(r, Replays(r))
     \/ /\ cache[KeyOf[r]] = NoRequest
        /\ inFlight' = [inFlight EXCEPT ![KeyOf[r]] = r]
        /\ Runs(r)
        /\ UNCHANGED answer
  /\ UNCHANGED <<crashes, session, cache, seen, payment, locks, overwritten>>

\* MemoryIdempotencyStore.remember; the file store looks at its records later.
Arrive(r) ==
  /\ pc[r] = "idle"
  /\ LET k == KeyOf[r] IN
       \/ /\ ~Durable /\ cache[k] # NoRequest
          /\ Alone(r, Replays(r))
       \/ /\ Durable \/ cache[k] = NoRequest
          /\ inFlight[k] # NoRequest /\ SameBody(inFlight[k], r)
          /\ Goto(r, "joined")
          /\ UNCHANGED <<answer, inFlight>>
       \/ /\ Durable \/ cache[k] = NoRequest
          /\ inFlight[k] # NoRequest /\ ~SameBody(inFlight[k], r)
          /\ Alone(r, Says(r, "reused", NoRow))
       \/ /\ ~Durable /\ cache[k] = NoRequest /\ inFlight[k] = NoRequest
          /\ inFlight' = [inFlight EXCEPT ![k] = r]
          /\ Runs(r)
          /\ UNCHANGED answer
       \/ /\ Durable /\ inFlight[k] = NoRequest
          /\ inFlight' = [inFlight EXCEPT ![k] = r]
          /\ Goto(r, "locking")
          /\ UNCHANGED answer
  /\ UNCHANGED <<crashes, session, cache, seen, payment, locks, overwritten>>

\* FileIdempotencyStore.rememberLocked, once it has the lock of the key.
KeyLocked(r) ==
  /\ pc[r] = "locking"
  /\ KeyOf[r] \notin left \cup jammed
  /\ \A q \in Request : Handling(q) => KeyOf[q] # KeyOf[r]
  /\ \/ /\ cache[KeyOf[r]] # NoRequest
        /\ Settle(r, Replays(r))
     \/ /\ cache[KeyOf[r]] = NoRequest
        /\ Runs(r)
        /\ UNCHANGED <<answer, inFlight>>
  /\ UNCHANGED <<crashes, session, cache, seen, payment, locks, overwritten>>

\* withPathLock when a lock on disk outlives the retries: lock() rejects and
\* releaseQueue is never called.
LockFails(r) ==
  /\ \E l \in left \ jammed :
       /\ \/ pc[r] = "locking" /\ l = KeyOf[r]
          \/ pc[r] \in {"get", "put", "claim"} /\ l = StoreLock
       /\ jammed' = jammed \cup {l}
  /\ Throws(r, "error")
  /\ UNCHANGED <<crashes, session, seen, payment, left, overwritten>>

\* Mutant: the response is sent and not stored.
RecordNothing(r) ==
  /\ pc[r] = "recording"
  /\ Settle(r, answer[r])
  /\ UNCHANGED <<crashes, session, cache, seen, payment, locks, overwritten>>

\* The response is in the store, then the callers get it.
Record(r) ==
  /\ pc[r] = "recording"
  /\ cache' = [cache EXCEPT ![KeyOf[r]] = r]
  /\ Settle(r, answer[r])
  /\ UNCHANGED <<crashes, session, seen, payment, locks, overwritten>>

\* Signing a UCP response, or writing the record, throws after the effect.
ResponseFails(r) ==
  /\ "response" \in Fault
  /\ pc[r] = "recording"
  /\ Throws(r, "error")
  /\ UNCHANGED <<crashes, session, seen, payment, locks, overwritten>>

(***************************************************************************)
(* The handlers                                                            *)
(***************************************************************************)
\* requireSession
Get(r) ==
  /\ pc[r] = "get"
  /\ Durable => LockFree(SessionOf[r])
  /\ \/ /\ session[SessionOf[r]].status = "none"
        /\ Throws(r, "missing")
        /\ UNCHANGED seen
     \/ /\ session[SessionOf[r]].status # "none"
        /\ seen' = [seen EXCEPT ![r] = session[SessionOf[r]]]
        /\ Goto(r, IF OpOf[r] = "cancel" THEN "claim" ELSE "policy")
        /\ UNCHANGED <<answer, inFlight, cache>>
  /\ UNCHANGED <<crashes, session, payment, locks, overwritten>>

\* evaluatePolicy: no objection, 403 or 409 (also a missing AP2 envelope), or
\* the policy throws, or the body of a create or update fails its schema.
Policy(r) ==
  /\ pc[r] = "policy"
  /\ \/ /\ Goto(r, IF OpOf[r] = "complete" THEN "claim" ELSE "put")
        /\ UNCHANGED <<answer, inFlight, cache>>
     \/ Returns(r, "denied", NoRow)
     \/ "policy" \in Fault /\ Throws(r, "error")
  /\ UNCHANGED <<crashes, session, seen, payment, locks, overwritten>>

\* applyCreateRequest and applyUpdateRequest: an update keeps what was read,
\* with the total of its line items if it has any.
NewRow(r) ==
  IF OpOf[r] = "create" THEN [status |-> "ready", total |-> AmountOf[r]]
  ELSE [seen[r] EXCEPT !.total = IF AmountOf[r] = 0 THEN @ ELSE AmountOf[r]]

\* store.put: no look at the row it replaces.
Put(r) ==
  LET s == SessionOf[r] IN
  /\ pc[r] = "put"
  /\ LockFree(s)
  /\ session' = [session EXCEPT ![s] = NewRow(r)]
  /\ overwritten' = IF session[s].status \in {"none", "ready"} THEN overwritten
                                                             ELSE overwritten \cup {s}
  /\ Returns(r, IF OpOf[r] = "create" THEN "created" ELSE "updated", NewRow(r))
  /\ UNCHANGED <<crashes, seen, payment, locks>>

\* Mutant: a completion expects the status it read, as a cancellation does.
ExpectedAsSeen(r) == seen[r].status

\* store.transition(id, expected, ...): the status must be the expected one.
Expected(r) == IF OpOf[r] = "cancel" THEN seen[r].status ELSE "ready"

Claim(r) ==
  LET row == session[SessionOf[r]] IN
  /\ pc[r] = "claim"
  /\ LockFree(SessionOf[r])
  /\ \/ /\ row.status # Expected(r)
        /\ Throws(r, IF row.status = "none" THEN "missing" ELSE "conflict")
        /\ UNCHANGED session
     \/ /\ row.status = Expected(r) /\ OpOf[r] = "complete"
        /\ session' = [session EXCEPT ![SessionOf[r]].status = "in_progress"]
        /\ Goto(r, "claimed")
        /\ UNCHANGED <<answer, inFlight, cache>>
     \/ /\ row.status = Expected(r) /\ OpOf[r] = "cancel"
        /\ session' = [session EXCEPT ![SessionOf[r]].status = "canceled"]
        /\ Returns(r, "cancelled", row)
  /\ UNCHANGED <<crashes, seen, payment, locks, overwritten>>

\* Mutant: status and kind are swapped.
EndsSwapped(r, status, kind) ==
  /\ session' = [session EXCEPT ![SessionOf[r]].status = kind]
  /\ Returns(r, status, session[SessionOf[r]])

\* The final write of a completion.
Ends(r, status, kind) ==
  LET s == SessionOf[r] IN
  /\ session' = [session EXCEPT ![s].status = status]
  /\ Returns(r, kind, session[s])

\* The handler or instrument is not supported, or the mandate fails to verify.
Refuse(r) ==
  /\ pc[r] = "claimed"
  /\ Ends(r, "canceled", "refused")
  /\ UNCHANGED <<crashes, seen, payment, locks, overwritten>>

\* capture(): the PSP's idempotency key is one per session.
Capture(r) ==
  /\ pc[r] = "claimed"
  /\ Goto(r, "paying")
  /\ call' = [call EXCEPT ![r] = [result |-> "sent", total |-> session[SessionOf[r]].total]]
  /\ UNCHANGED <<crashes, session, cache, inFlight, seen, answer, psp,
                 locks, overwritten>>

\* The PSP (external) settles a call: the first one under a key decides, a later
\* one gets the recorded result, or an error result if its parameters differ.
PspActs(r) ==
  LET s == SessionOf[r] IN
  /\ call[r].result = "sent"
  /\ \E result \in {"charged", "declined"} :
       /\ psp[s].result = "declined" => result = "declined"
       /\ call' = [call EXCEPT ![r].result = result]
       /\ psp' = IF psp[s].result = "none"
                   THEN [psp EXCEPT ![s] = [result |-> result, total |-> call[r].total]]
                   ELSE psp
  /\ UNCHANGED <<crashes, session, cache, inFlight, pc, seen, answer,
                 locks, overwritten>>

\* The adapter says ok: false whatever the PSP did or will do: the body of a 200
\* cannot be read, a server error, a payment that is processing or that the buyer
\* still has to authenticate.
AnswerUnread(r) ==
  /\ "unread" \in Fault
  /\ call[r].result = "sent"
  /\ call' = [call EXCEPT ![r].result = "unread"]
  /\ UNCHANGED <<crashes, session, cache, inFlight, pc, seen, answer, psp,
                 locks, overwritten>>

\* The PSP decides on such a call, before or after the merchant was answered.
PspSettles(r) ==
  LET s == SessionOf[r] IN
  /\ call[r].result = "unread" /\ psp[s].result = "none"
  /\ \E result \in {"charged", "declined"} :
       psp' = [psp EXCEPT ![s] = [result |-> result, total |-> call[r].total]]
  /\ UNCHANGED <<crashes, session, cache, inFlight, pc, seen, answer, call,
                 locks, overwritten>>

\* Mutant: ok is not looked at.
CaptureUnchecked(r) ==
  /\ pc[r] = "paying"
  /\ call[r].result # "sent"
  /\ Ends(r, "completed", "completed")
  /\ UNCHANGED <<crashes, seen, payment, locks, overwritten>>

\* The PSP's answer: applyCompleteRequest checks the body only now.
CaptureReturns(r) ==
  /\ pc[r] = "paying"
  /\ \/ call[r].result \in {"declined", "unread"} /\ Ends(r, "canceled", "declined")
     \/ call[r].result = "charged" /\ r \in WellFormed /\ Ends(r, "completed", "completed")
     \/ /\ call[r].result = "charged" /\ r \notin WellFormed
        /\ Throws(r, "error")
        /\ UNCHANGED session
  /\ UNCHANGED <<crashes, seen, payment, locks, overwritten>>

\* Mutant: an error of the call is taken for a refusal by the PSP.
ThrownIsDeclined(r) ==
  /\ Holds(r)
  /\ Ends(r, "canceled", "declined")
  /\ UNCHANGED <<crashes, seen, payment, locks, overwritten>>

\* The body's payment data is malformed, or the verifier or the PSP adapter throws
\* (a network error on the way there or back): the claimed row stays as it is.
CaptureThrows(r) ==
  /\ \/ pc[r] = "claimed" /\ (r \notin WellFormed \/ "psp" \in Fault)
     \/ pc[r] = "paying" /\ "psp" \in Fault
  /\ Throws(r, "error")
  /\ UNCHANGED <<crashes, session, seen, payment, locks, overwritten>>

(***************************************************************************)
(* The environment: records expire, the process crashes, locks go stale    *)
(***************************************************************************)
Expire(k) ==
  /\ "expiry" \in Fault
  /\ cache[k] # NoRequest
  /\ cache' = [cache EXCEPT ![k] = NoRequest]
  /\ UNCHANGED <<crashes, session, inFlight, pc, seen, answer, payment, locks,
                 overwritten>>

Crash ==
  /\ crashes < MaxCrashes
  /\ crashes' = crashes + 1
  /\ pc' = [r \in Request |-> IF pc[r] \in {"idle", "ended"} THEN pc[r] ELSE "lost"]
  /\ inFlight' = [k \in Key |-> NoRequest]
  /\ jammed' = {}
  /\ \/ /\ Durable
        /\ \E more \in SUBSET TouchedLocks : left' = left \cup HeldLocks \cup more
        /\ UNCHANGED <<session, cache>>
     \/ /\ ~Durable
        /\ session' = [s \in Session |-> NoRow]
        /\ cache' = [k \in Key |-> NoRequest]
        /\ UNCHANGED left
  /\ UNCHANGED <<seen, answer, payment, overwritten>>

\* 30 seconds without a live owner.
GoesStale(l) ==
  /\ l \in left
  /\ left' = left \ {l}
  /\ UNCHANGED <<crashes, session, cache, inFlight, pc, seen, answer, payment,
                 jammed, overwritten>>

Step(r) ==
  \/ KeyLocked(r) \/ LockFails(r) \/ Record(r) \/ ResponseFails(r)
  \/ Get(r) \/ Policy(r) \/ Put(r) \/ Claim(r)
  \/ Refuse(r) \/ Capture(r) \/ CaptureReturns(r) \/ CaptureThrows(r)

Next ==
  \/ \E r \in Request : Arrive(r) \/ Step(r) \/ PspActs(r) \/ AnswerUnread(r) \/ PspSettles(r)
  \/ \E k \in Key : Expire(k)
  \/ \E l \in Key \cup {StoreLock} : GoesStale(l)
  \/ Crash

\* Every await settles: the event loop runs what is ready, the PSP answers, a
\* lock nobody refreshes goes stale.  Arrivals, expiry and crashes need not be.
Fairness ==
  /\ \A r \in Request : WF_vars(Step(r)) /\ WF_vars(PspActs(r))
  /\ \A l \in Key \cup {StoreLock} : WF_vars(GoesStale(l))

Spec == Init /\ [][Next]_vars /\ Fairness

(***************************************************************************)
(* Properties                                                              *)
(***************************************************************************)
\* Every variable has its type.
TypeOK ==
  /\ crashes \in 0..MaxCrashes
  /\ session \in [Session -> Row]
  /\ cache \in [Key -> Request \cup {NoRequest}]
  /\ inFlight \in [Key -> Request \cup {NoRequest}]
  /\ pc \in [Request -> Where]
  /\ seen \in [Request -> Row]
  /\ answer \in [Request -> Answer]
  /\ call \in [Request -> Call]
  /\ psp \in [Session -> Charge]
  /\ left \subseteq Key \cup {StoreLock}
  /\ jammed \subseteq Key \cup {StoreLock}
  /\ overwritten \subseteq Session

Untouched == Session \ overwritten

Asking(s) == {r \in Request : SessionOf[r] = s /\ call[r].result # "none"}

\* Whatever keys, retries, cancellations, failures and crashes there are, the PSP is
\* asked to capture a session at most once, as long as no update replaces
\* a row that was already claimed (transition's compare-and-set and claim).
AskedOnce == \A s \in Untouched : Cardinality(Asking(s)) <= 1

\* A completed order has been charged, and for the total it shows.
CompletedIsCharged ==
  \A s \in Session : session[s].status = "completed" =>
    /\ psp[s].result = "charged"
    /\ s \in Untouched => psp[s].total = session[s].total

\* An answer about the session was not what the PSP did with it.
Unread(s) == \E r \in Request : SessionOf[r] = s /\ call[r].result = "unread"

\* A buyer told that the payment failed or was refused has not been charged, nor is
\* afterwards, whatever was lost, retried or cut short.  The adapter's reading of the
\* answer is the exception: a decline the PSP has not spoken is told for a payment
\* that may have been made (AnswerUnread).
FailureIsTrue ==
  \A r \in Request : LET s == answer[r].session IN
    (/\ answer[r].kind \in {"declined", "refused"} /\ s \in Untouched
     /\ answer[r].kind = "declined" => ~Unread(s))
      => psp[s].result # "charged"

\* A key has one handler running at most, the one its map entry names, and who
\* joined it waits for a handler that is there.
OneFlight ==
  /\ \A q, r \in Request :
       (Handling(q) /\ Handling(r) /\ KeyOf[q] = KeyOf[r]) => q = r
  /\ \A r \in Request : pc[r] = "joined" => inFlight[KeyOf[r]] \in Request

\* Two requests with one key and one body get the same response, if both get one.
AnswersAgree ==
  \A q, r \in Request :
    (/\ KeyOf[q] = KeyOf[r] /\ SameBody(q, r)
     /\ pc[q] = "ended" /\ pc[r] = "ended"
     /\ answer[q].kind \in Returned /\ answer[r].kind \in Returned)
      => answer[q] = answer[r]

\* A request is answered or lost with the process, unless a queue is jammed.
EveryRequestEnds ==
  \A r \in Request :
    (pc[r] # "idle") ~> (pc[r] \in {"ended", "lost"} \/ jammed # {})

\* docs/concepts/idempotency.md: "a retry after a network drop can safely receive the
\* same checkout or receipt response": the retry of a completion that charged the
\* buyer is not turned away.
RetryGetsReceipt ==
  \A q, r \in Request :
    (KeyOf[q] = KeyOf[r] /\ SameBody(q, r) /\ call[q].result = "charged")
      => answer[r].kind # "conflict"

\* docs/packages/merchant-checkout.md: completed is a "terminal successful" state.
CompletedIsTerminal ==
  [][\A s \in Session :
       session[s].status = "completed" => session'[s].status = "completed"]_vars
=============================================================================
