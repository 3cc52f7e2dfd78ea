----------------------- MODULE MerchantCheckoutProofs -----------------------
(***************************************************************************)
(* Proofs about MerchantCheckout for any requests, sessions, keys, totals, *)
(* stores and faults.                                                      *)
(***************************************************************************)
EXTENDS MerchantCheckout, FiniteSetTheorems, TLAPS

Status(s) == session[s].status
Asks(r) == call[r].result # "none"
Engaged(r) == pc[r] = "claimed" \/ Asks(r)

\* A create whose row is still to be written.
Fresh(r) == OpOf[r] = "create" /\ pc[r] \in {"idle", "locking", "policy", "put"}

Failing(a) == a.kind \in {"declined", "refused"}

\* The map entry of a key is the request that runs, or waits for its lock.
Flight(r) ==
  /\ pc[r] = "locking" \/ Handling(r) => inFlight[KeyOf[r]] = r
  /\ pc[r] = "joined" => inFlight[KeyOf[r]] \in Request

\* Where a request is tells which route it is on, and whether it has asked.
Route(r) ==
  /\ pc[r] = "get" => OpOf[r] # "create"
  /\ pc[r] = "policy" => OpOf[r] # "cancel"
  /\ pc[r] = "put" => OpOf[r] \in {"create", "update"}
  /\ pc[r] = "claim" => OpOf[r] \in {"complete", "cancel"}
  /\ Holds(r) => OpOf[r] = "complete"
  /\ Asks(r) => pc[r] \in {"paying", "recording", "ended", "lost"}
  /\ pc[r] = "paying" => Asks(r)

\* A request that has read, or claimed, a row finds one when it writes.
Present(r) ==
  /\ OpOf[r] # "create" /\ pc[r] \in {"policy", "put", "claim"} =>
       Status(SessionOf[r]) # "none" /\ seen[r].status # "none"
  /\ Holds(r) => Status(SessionOf[r]) # "none"

\* Nobody is ahead of the create that makes the session.
First(r) ==
  Fresh(r) =>
    /\ Status(SessionOf[r]) = "none"
    /\ \A q \in Request : SessionOf[q] = SessionOf[r] => ~Engaged(q)
    /\ \A q \in Request : Failing(answer[q]) => answer[q].session # SessionOf[r]

\* The heart of it: a claim is for ever, unless an update overwrites it.
Claimed(s) ==
  /\ \A q, r \in Request :
       SessionOf[q] = s /\ SessionOf[r] = s /\ Engaged(q) /\ Engaged(r) => q = r
  /\ \A r \in Request : SessionOf[r] = s /\ Engaged(r) => Status(s) # "ready"

\* What is asked is the total of the row, and the PSP's record is the call's.
Agreed(s) ==
  /\ \A r \in Request : SessionOf[r] = s /\ Asks(r) /\ Status(s) # "none" =>
       call[r].total = session[s].total
  /\ psp[s].result # "none" =>
       \E r \in Request : /\ SessionOf[r] = s /\ call[r].total = psp[s].total
                         /\ call[r].result \in {psp[s].result, "unread"}

\* After a refusal nobody has been charged, nor will be, unless the PSP's answer was
\* not read.
Over(s) ==
  \A a \in Request : Failing(answer[a]) /\ answer[a].session = s =>
    /\ Status(s) # "ready"
    /\ \A r \in Request : SessionOf[r] = s =>
         /\ pc[r] # "claimed" /\ call[r].result \in {"none", "declined", "unread"}
         /\ answer[a].kind = "refused" => call[r].result # "unread"

\* A charge that someone has seen is on record.
Paid ==
  /\ \A r \in Request : call[r].result = "charged" => psp[SessionOf[r]].result = "charged"
  /\ \A s \in Session : Status(s) = "completed" => psp[s].result = "charged"
  /\ \A r \in Request : seen[r].status = "completed" => psp[SessionOf[r]].result = "charged"

Flights == \A r \in Request : Flight(r)
Routes == \A r \in Request : Route(r)
Rows == \A r \in Request : Present(r) /\ First(r)
Claims == \A s \in Untouched : Claimed(s)
Agreements == \A s \in Untouched : Agreed(s)
Refusals == \A s \in Untouched : Over(s)

IInv == TypeOK /\ Flights /\ Routes /\ Rows /\ Claims /\ Agreements /\ Refusals /\ Paid

-----------------------------------------------------------------------------
(* Types.                                                                  *)

LEMMA SaysAnswer ==
  ASSUME NEW r \in Request, NEW kind \in Returned \cup Thrown \cup {"none"}, NEW row \in Row
  PROVE  Says(r, kind, row) \in Answer
  BY RequestAssumption DEF Says, Answer, Row

LEMMA NoRowIsRow == NoRow \in Row /\ Nothing \in Call /\ Nothing \in Charge
  BY DEF NoRow, Row, Total, Nothing, Call, Charge

LEMMA InitTypes == Init => TypeOK
<1> SUFFICES ASSUME Init PROVE TypeOK
  OBVIOUS
<1>1. \A r \in Request : Says(r, "none", NoRow) \in Answer
  BY SaysAnswer, NoRowIsRow
<1>2. [status |-> "ready", total |-> FirstAmount] \in Row
  BY StoreAssumption DEF Row, Total
<1>3. crashes \in 0..MaxCrashes
  BY StoreAssumption DEF Init
<1> QED BY <1>1, <1>2, <1>3, NoRowIsRow DEF Init, TypeOK, Where

LEMMA GotoType ==
  ASSUME TypeOK, NEW r, NEW where \in Where, Goto(r, where)
  PROVE  pc' \in [Request -> Where]
  BY DEF TypeOK, Goto

LEMMA FirstStepType == \A r : FirstStep(r) \in {"policy", "get"} /\ FirstStep(r) \in Where
  BY DEF FirstStep, Where

LEMMA SettleType ==
  ASSUME TypeOK, NEW r \in Request, NEW a \in Answer, Settle(r, a)
  PROVE  /\ pc' \in [Request -> Where] /\ answer' \in [Request -> Answer]
         /\ inFlight' \in [Key -> Request \cup {NoRequest}]
<1>1. \A q \in Request : (IF q \in With(r) THEN "ended" ELSE pc[q]) \in Where
  BY DEF TypeOK, Where
<1>2. \A q \in Request : (IF q \in With(r) THEN a ELSE answer[q]) \in Answer
  BY DEF TypeOK
<1> QED BY <1>1, <1>2 DEF Settle, TypeOK

LEMMA ThrowsType ==
  ASSUME TypeOK, NEW r \in Request, NEW kind \in Thrown, Throws(r, kind)
  PROVE  /\ pc' \in [Request -> Where] /\ answer' \in [Request -> Answer]
         /\ inFlight' \in [Key -> Request \cup {NoRequest}]
         /\ cache' = cache
  BY SettleType, SaysAnswer, NoRowIsRow DEF Throws

LEMMA ReturnsType ==
  ASSUME TypeOK, NEW r \in Request, NEW kind \in Returned, NEW row \in Row, Returns(r, kind, row)
  PROVE  /\ pc' \in [Request -> Where] /\ answer' \in [Request -> Answer]
         /\ inFlight' = inFlight /\ cache' = cache
<1>1. Says(r, kind, row) \in Answer
  BY SaysAnswer
<1> QED BY <1>1, GotoType DEF Returns, TypeOK, Where

LEMMA ReplaysType ==
  ASSUME TypeOK, NEW r \in Request, cache[KeyOf[r]] # NoRequest
  PROVE  Replays(r) \in Answer
<1>1. Says(r, "reused", NoRow) \in Answer
  BY SaysAnswer, NoRowIsRow DEF Thrown
<1>2. answer[cache[KeyOf[r]]] \in Answer
  BY RequestAssumption DEF TypeOK
<1> QED BY <1>1, <1>2 DEF Replays

LEMMA StoreTypes ==
  ASSUME TypeOK, NEW r \in Request,
         Arrive(r) \/ KeyLocked(r) \/ LockFails(r) \/ Record(r) \/ ResponseFails(r)
  PROVE  TypeOK'
<1>1. CASE Arrive(r)
  <2>1. Says(r, "reused", NoRow) \in Answer
    BY SaysAnswer, NoRowIsRow DEF Thrown
  <2>2. pc' \in [Request -> Where]
    BY <1>1, GotoType, FirstStepType DEF Arrive, Alone, Runs, Where
  <2>3. answer' \in [Request -> Answer]
    BY <1>1, <2>1, ReplaysType DEF Arrive, Alone, TypeOK
  <2>4. inFlight' \in [Key -> Request \cup {NoRequest}]
    BY <1>1 DEF Arrive, Alone, TypeOK
  <2> QED BY <1>1, <2>2, <2>3, <2>4 DEF Arrive, TypeOK, payment, locks
<1>2. CASE KeyLocked(r)
  <2>1. /\ pc' \in [Request -> Where] /\ answer' \in [Request -> Answer]
        /\ inFlight' \in [Key -> Request \cup {NoRequest}]
    <3>1. CASE Settle(r, Replays(r)) /\ cache[KeyOf[r]] # NoRequest
      BY <3>1, ReplaysType, SettleType
    <3>2. CASE Runs(r) /\ UNCHANGED <<answer, inFlight>>
      BY <3>2, GotoType, FirstStepType DEF Runs, TypeOK
    <3> QED BY <1>2, <3>1, <3>2 DEF KeyLocked
  <2> QED BY <1>2, <2>1 DEF KeyLocked, TypeOK, payment, locks
<1>3. CASE LockFails(r)
  <2>1. PICK l \in left \ jammed : jammed' = jammed \cup {l}
    BY <1>3 DEF LockFails
  <2>2. Throws(r, "error") /\ UNCHANGED <<crashes, session, seen, payment, left, overwritten>>
    BY <1>3 DEF LockFails
  <2> QED BY <2>1, <2>2, ThrowsType DEF TypeOK, payment, Thrown
<1>4. CASE Record(r)
  <2>1. cache' \in [Key -> Request \cup {NoRequest}]
    BY <1>4 DEF Record, TypeOK
  <2>2. /\ pc' \in [Request -> Where] /\ answer' \in [Request -> Answer]
        /\ inFlight' \in [Key -> Request \cup {NoRequest}]
    BY <1>4, SettleType DEF Record, TypeOK
  <2> QED BY <1>4, <2>1, <2>2 DEF Record, TypeOK, payment, locks
<1>5. CASE ResponseFails(r)
  <2>1. Throws(r, "error") /\ UNCHANGED <<crashes, session, seen, payment, locks, overwritten>>
    BY <1>5 DEF ResponseFails
  <2> QED BY <2>1, ThrowsType DEF TypeOK, payment, locks, Thrown
<1> QED BY <1>1, <1>2, <1>3, <1>4, <1>5

LEMMA NewRowType == ASSUME TypeOK, NEW r \in Request PROVE NewRow(r) \in Row
<1>1. seen[r] \in Row /\ AmountOf[r] \in Total
  BY RequestAssumption DEF TypeOK, Total
<1> QED BY <1>1 DEF NewRow, Row

LEMMA EndsType ==
  ASSUME TypeOK, NEW r \in Request, NEW status \in {"canceled", "completed"},
         NEW kind \in Returned, Ends(r, status, kind)
  PROVE  /\ pc' \in [Request -> Where] /\ answer' \in [Request -> Answer]
         /\ inFlight' = inFlight /\ cache' = cache /\ session' \in [Session -> Row]
<1>1. SessionOf[r] \in Session /\ session[SessionOf[r]] \in Row
  BY RequestAssumption DEF TypeOK
<1>2. session' \in [Session -> Row]
  BY <1>1 DEF Ends, TypeOK, Row
<1>3. Returns(r, kind, session[SessionOf[r]])
  BY DEF Ends
<1> QED BY <1>1, <1>2, <1>3, ReturnsType

LEMMA HandlerTypes ==
  ASSUME TypeOK, NEW r \in Request,
         \/ Get(r) \/ Policy(r) \/ Put(r) \/ Claim(r)
         \/ Refuse(r) \/ Capture(r) \/ CaptureReturns(r) \/ CaptureThrows(r)
  PROVE  TypeOK'
<1>0. SessionOf[r] \in Session /\ session[SessionOf[r]] \in Row
  BY RequestAssumption DEF TypeOK
<1>1. CASE Get(r)
  <2>1. seen' \in [Request -> Row]
    BY <1>0, <1>1 DEF Get, TypeOK
  <2>2. /\ pc' \in [Request -> Where] /\ answer' \in [Request -> Answer]
        /\ inFlight' \in [Key -> Request \cup {NoRequest}] /\ cache' = cache
    <3>1. CASE Throws(r, "missing")
      BY <3>1, ThrowsType DEF Thrown
    <3>2. CASE ~Throws(r, "missing")
      BY <1>1, <3>2, GotoType DEF Get, TypeOK, Where
    <3> QED BY <3>1, <3>2
  <2> QED BY <1>1, <2>1, <2>2 DEF Get, TypeOK, payment, locks
<1>2. CASE Policy(r)
  <2>1. /\ pc' \in [Request -> Where] /\ answer' \in [Request -> Answer]
        /\ inFlight' \in [Key -> Request \cup {NoRequest}] /\ cache' = cache
    <3>1. CASE Throws(r, "error")
      BY <3>1, ThrowsType DEF Thrown
    <3>2. CASE Returns(r, "denied", NoRow)
      BY <3>2, ReturnsType, NoRowIsRow DEF Returned, TypeOK
    <3>3. CASE ~Throws(r, "error") /\ ~Returns(r, "denied", NoRow)
      BY <1>2, <3>3, GotoType DEF Policy, TypeOK, Where
    <3> QED BY <3>1, <3>2, <3>3
  <2> QED BY <1>2, <2>1 DEF Policy, TypeOK, payment, locks
<1>3. CASE Put(r)
  <2>1. NewRow(r) \in Row
    BY NewRowType
  <2>2. session' \in [Session -> Row] /\ overwritten' \subseteq Session
    BY <1>0, <1>3, <2>1 DEF Put, TypeOK
  <2>3. \E kind \in Returned : Returns(r, kind, NewRow(r))
    BY <1>3 DEF Put, Returned
  <2>4. /\ pc' \in [Request -> Where] /\ answer' \in [Request -> Answer]
        /\ inFlight' = inFlight /\ cache' = cache
    BY <2>1, <2>3, ReturnsType
  <2> QED BY <1>3, <2>2, <2>4 DEF Put, TypeOK, payment, locks
<1>4. CASE Claim(r)
  <2>1. session' \in [Session -> Row]
    <3>1. \A status \in {"in_progress", "canceled"} :
            [session EXCEPT ![SessionOf[r]].status = status] \in [Session -> Row]
      BY <1>0 DEF TypeOK, Row
    <3> QED BY <1>4, <3>1 DEF Claim, TypeOK
  <2>2. /\ pc' \in [Request -> Where] /\ answer' \in [Request -> Answer]
        /\ inFlight' \in [Key -> Request \cup {NoRequest}] /\ cache' = cache
    <3>1. CASE Throws(r, "missing") \/ Throws(r, "conflict")
      BY <3>1, ThrowsType DEF Thrown
    <3>2. CASE Goto(r, "claimed") /\ UNCHANGED <<answer, inFlight, cache>>
      BY <3>2, GotoType DEF TypeOK, Where
    <3>3. CASE Returns(r, "cancelled", session[SessionOf[r]])
      BY <1>0, <3>3, ReturnsType DEF Returned, TypeOK
    <3> QED BY <1>4, <3>1, <3>2, <3>3 DEF Claim
  <2> QED BY <1>4, <2>1, <2>2 DEF Claim, TypeOK, payment, locks
<1>5. CASE Refuse(r)
  <2>1. Ends(r, "canceled", "refused") /\ UNCHANGED <<crashes, seen, payment, locks, overwritten>>
    BY <1>5 DEF Refuse
  <2> QED BY <2>1, EndsType DEF TypeOK, payment, locks, Returned
<1>6. CASE Capture(r)
  <2>1. [result |-> "sent", total |-> session[SessionOf[r]].total] \in Call
    BY <1>0 DEF Row, Call
  <2>2. call' \in [Request -> Call] /\ pc' \in [Request -> Where]
    BY <1>6, <2>1, GotoType DEF Capture, TypeOK, Where
  <2> QED BY <1>6, <2>2 DEF Capture, TypeOK, locks
<1>7. CASE CaptureReturns(r)
  <2>0. UNCHANGED <<crashes, seen, payment, locks, overwritten>>
    BY <1>7 DEF CaptureReturns
  <2>1. CASE Ends(r, "canceled", "declined") \/ Ends(r, "completed", "completed")
    BY <2>0, <2>1, EndsType DEF TypeOK, payment, locks, Returned
  <2>2. CASE Throws(r, "error") /\ UNCHANGED session
    BY <2>0, <2>2, ThrowsType DEF TypeOK, payment, locks, Thrown
  <2> QED BY <1>7, <2>1, <2>2 DEF CaptureReturns
<1>8. CASE CaptureThrows(r)
  <2>1. Throws(r, "error") /\ UNCHANGED <<crashes, session, seen, payment, locks, overwritten>>
    BY <1>8 DEF CaptureThrows
  <2> QED BY <2>1, ThrowsType DEF TypeOK, payment, locks, Thrown
<1> QED BY <1>1, <1>2, <1>3, <1>4, <1>5, <1>6, <1>7, <1>8

LEMMA WorldTypes ==
  ASSUME TypeOK,
         \/ \E r \in Request : PspActs(r) \/ AnswerUnread(r) \/ PspSettles(r)
         \/ \E k \in Key : Expire(k)
         \/ \E l \in Key \cup {StoreLock} : GoesStale(l)
         \/ Crash
         \/ UNCHANGED vars
  PROVE  TypeOK'
<1>1. ASSUME NEW r \in Request, PspActs(r) PROVE TypeOK'
  <2>0. SessionOf[r] \in Session /\ call[r] \in Call
    BY RequestAssumption DEF TypeOK
  <2>1. PICK result \in {"charged", "declined"} :
          /\ call' = [call EXCEPT ![r].result = result]
          /\ psp' = IF psp[SessionOf[r]].result = "none"
                      THEN [psp EXCEPT ![SessionOf[r]] = [result |-> result, total |-> call[r].total]]
                      ELSE psp
    BY <1>1 DEF PspActs
  <2>2. call' \in [Request -> Call]
    BY <2>0, <2>1 DEF TypeOK, Call
  <2>3. [result |-> result, total |-> call[r].total] \in Charge
    BY <2>0 DEF Call, Charge
  <2>4. psp' \in [Session -> Charge]
    BY <2>0, <2>1, <2>3 DEF TypeOK
  <2> QED BY <1>1, <2>2, <2>4 DEF PspActs, TypeOK, locks
<1>6. ASSUME NEW r \in Request, AnswerUnread(r) PROVE TypeOK'
  <2>1. call[r] \in Call
    BY DEF TypeOK
  <2>2. call' \in [Request -> Call]
    BY <1>6, <2>1 DEF AnswerUnread, TypeOK, Call
  <2> QED BY <1>6, <2>2 DEF AnswerUnread, TypeOK, locks
<1>7. ASSUME NEW r \in Request, PspSettles(r) PROVE TypeOK'
  <2>1. SessionOf[r] \in Session /\ call[r] \in Call
    BY RequestAssumption DEF TypeOK
  <2>2. \A result \in {"charged", "declined"} : [result |-> result, total |-> call[r].total] \in Charge
    BY <2>1 DEF Call, Charge
  <2>3. psp' \in [Session -> Charge]
    BY <1>7, <2>1, <2>2 DEF PspSettles, TypeOK
  <2> QED BY <1>7, <2>3 DEF PspSettles, TypeOK, locks
<1>2. ASSUME NEW k \in Key, Expire(k) PROVE TypeOK'
  BY <1>2 DEF Expire, TypeOK, payment, locks
<1>3. ASSUME NEW l \in Key \cup {StoreLock}, GoesStale(l) PROVE TypeOK'
  BY <1>3 DEF GoesStale, TypeOK, payment
<1>4. CASE Crash
  <2>1. pc' \in [Request -> Where]
    <3>1. \A r \in Request : (IF pc[r] \in {"idle", "ended"} THEN pc[r] ELSE "lost") \in Where
      BY DEF TypeOK, Where
    <3> QED BY <1>4, <3>1 DEF Crash
  <2>2. crashes' \in 0..MaxCrashes
    BY <1>4, StoreAssumption DEF Crash, TypeOK
  <2>3. session' \in [Session -> Row] /\ cache' \in [Key -> Request \cup {NoRequest}]
        /\ inFlight' \in [Key -> Request \cup {NoRequest}]
    BY <1>4, NoRowIsRow DEF Crash, TypeOK
  <2>4. HeldLocks \subseteq Key \cup {StoreLock} /\ TouchedLocks \subseteq Key \cup {StoreLock}
    BY RequestAssumption DEF HeldLocks, TouchedLocks
  <2>5. left' \subseteq Key \cup {StoreLock} /\ jammed' = {}
    BY <1>4, <2>4 DEF Crash, TypeOK
  <2> QED BY <1>4, <2>1, <2>2, <2>3, <2>5 DEF Crash, TypeOK, payment
<1>5. CASE UNCHANGED vars
  BY <1>5 DEF vars, TypeOK, payment, locks
<1> QED BY <1>1, <1>2, <1>3, <1>4, <1>5, <1>6, <1>7

LEMMA TypesStay == TypeOK /\ [Next]_vars => TypeOK'
<1> SUFFICES ASSUME TypeOK, [Next]_vars PROVE TypeOK'
  OBVIOUS
<1>1. ASSUME NEW r \in Request, Arrive(r) \/ Step(r) PROVE TypeOK'
  BY <1>1, StoreTypes, HandlerTypes DEF Step
<1> QED BY <1>1, WorldTypes DEF Next

\* Every handler and fault of merchant/src/checkout keeps the types of the state.
THEOREM TypeCorrect == Spec => []TypeOK
  BY InitTypes, TypesStay, PTL DEF Spec

-----------------------------------------------------------------------------
(* The map of running requests.                                            *)

InFlight(r) == pc[r] = "locking" \/ Handling(r)

\* A request that runs leaves the map, with the ones that joined it.
LEMMA SettleKeepsFlights ==
  ASSUME TypeOK, Flights, NEW r \in Request, InFlight(r), NEW a, Settle(r, a)
  PROVE  Flights'
<1>1. /\ inFlight[KeyOf[r]] = r /\ KeyOf[r] \in Key /\ NoRequest \notin Request
      /\ \A k \in Key \ {KeyOf[r]} : inFlight'[k] = inFlight[k]
  BY RequestAssumption DEF Flights, Flight, InFlight, Settle, TypeOK
<1>2. \A q \in Request : pc'[q] = IF q \in With(r) THEN "ended" ELSE pc[q]
  BY DEF Settle
<1> SUFFICES ASSUME NEW q \in Request PROVE Flight(q)'
  BY DEF Flights
<1>3. CASE q \in With(r)
  BY <1>2, <1>3 DEF Flight, Handling
<1>4. CASE q \notin With(r)
  <2>1. pc'[q] = pc[q] /\ q # r /\ (pc[q] = "joined" => KeyOf[q] # KeyOf[r])
    BY <1>2, <1>4 DEF With
  <2>2. InFlight(q) => inFlight[KeyOf[q]] = q
    BY DEF Flights, Flight, InFlight
  <2>3. InFlight(q) \/ pc[q] = "joined" => KeyOf[q] \in Key \ {KeyOf[r]}
    BY <1>1, <2>1, <2>2, RequestAssumption
  <2> QED BY <1>1, <2>1, <2>3 DEF Flights, Flight, InFlight, Handling
<1> QED BY <1>3, <1>4

LEMMA GoingKeepsFlights ==
  ASSUME Flights, inFlight' = inFlight,
         \A q \in Request : \/ pc'[q] = pc[q]
                            \/ pc'[q] # "joined" /\ InFlight(q)
                            \/ pc'[q] \in {"ended", "lost", "idle"}
  PROVE  Flights'
  BY DEF Flights, Flight, InFlight, Handling

LEMMA GotoMoves ==
  ASSUME TypeOK, NEW r \in Request, NEW where, Goto(r, where)
  PROVE  pc'[r] = where /\ \A q \in Request \ {r} : pc'[q] = pc[q]
  BY DEF Goto, TypeOK

LEMMA ArriveKeepsFlights ==
  ASSUME TypeOK, Flights, NEW r \in Request, Arrive(r)
  PROVE  Flights'
<1>0. pc[r] = "idle" /\ KeyOf[r] \in Key
  BY RequestAssumption DEF Arrive
<1>1. \A q \in Request \ {r} : pc'[q] = pc[q]
  BY GotoMoves DEF Arrive, Alone, Runs
<1>2. CASE inFlight[KeyOf[r]] = NoRequest /\ inFlight' = [inFlight EXCEPT ![KeyOf[r]] = r]
  <2>1. /\ inFlight'[KeyOf[r]] = r
        /\ \A k \in Key \ {KeyOf[r]} : inFlight'[k] = inFlight[k]
    BY <1>0, <1>2 DEF TypeOK
  <2>2. pc'[r] # "joined"
    BY <1>0, <1>2, GotoMoves, FirstStepType, RequestAssumption DEF Arrive, Alone, Runs
  <2>3. Flight(r)'
    BY <2>1, <2>2 DEF Flight
  <2>4. ASSUME NEW q \in Request \ {r} PROVE Flight(q)'
    <3>1. KeyOf[q] \in Key /\ NoRequest \notin Request
      BY RequestAssumption
    <3>2. InFlight(q) \/ pc[q] = "joined" => KeyOf[q] # KeyOf[r]
      BY <1>2, <3>1 DEF Flights, Flight, InFlight
    <3> QED BY <1>1, <2>1, <3>1, <3>2 DEF Flights, Flight, InFlight, Handling
  <2> QED BY <2>3, <2>4 DEF Flights
<1>3. CASE inFlight' = inFlight /\ pc'[r] = "joined" /\ inFlight[KeyOf[r]] \in Request
  BY <1>1, <1>3 DEF Flights, Flight, Handling
<1>4. CASE inFlight' = inFlight /\ pc'[r] = "ended"
  BY <1>1, <1>4, GoingKeepsFlights
<1>5. \/ inFlight[KeyOf[r]] = NoRequest /\ inFlight' = [inFlight EXCEPT ![KeyOf[r]] = r]
      \/ inFlight' = inFlight /\ pc'[r] = "joined" /\ inFlight[KeyOf[r]] \in Request
      \/ inFlight' = inFlight /\ pc'[r] = "ended"
  BY <1>0, GotoMoves DEF Arrive, Alone, TypeOK
<1> QED BY <1>2, <1>3, <1>4, <1>5

LEMMA StepKeepsFlights ==
  ASSUME TypeOK, Flights, NEW r \in Request, Step(r)
  PROVE  Flights'
<1>1. InFlight(r)
  BY DEF Step, InFlight, Handling, Holds, KeyLocked, LockFails, Record, ResponseFails, Get, Policy, Put,
         Claim, Refuse, Capture, CaptureReturns, CaptureThrows
<1>2. \/ \E a : Settle(r, a)
      \/ inFlight' = inFlight /\ \E where \in Where \ {"joined"} : Goto(r, where)
  <2>1. \A kind : Throws(r, kind) => \E a : Settle(r, a)
    BY DEF Throws
  <2>2. \A kind, row : Returns(r, kind, row) => inFlight' = inFlight /\ Goto(r, "recording")
    BY DEF Returns
  <2>3. FirstStep(r) \in Where \ {"joined"}
    BY FirstStepType
  <2>4. CASE KeyLocked(r)
    BY <2>3, <2>4 DEF KeyLocked, Runs
  <2>5. CASE LockFails(r) \/ Record(r) \/ ResponseFails(r) \/ CaptureThrows(r)
    BY <2>1, <2>5 DEF LockFails, Record, ResponseFails, CaptureThrows
  <2>6. CASE Get(r) \/ Policy(r)
    BY <2>1, <2>2, <2>6 DEF Get, Policy, Where
  <2>7. CASE Put(r) \/ Claim(r)
    BY <2>1, <2>2, <2>7 DEF Put, Claim, Where
  <2>8. CASE Refuse(r) \/ Capture(r) \/ CaptureReturns(r)
    BY <2>1, <2>2, <2>8 DEF Refuse, Capture, CaptureReturns, Ends, Where
  <2> QED BY <2>4, <2>5, <2>6, <2>7, <2>8 DEF Step
<1>3. CASE \E a : Settle(r, a)
  BY <1>1, <1>3, SettleKeepsFlights
<1>4. CASE inFlight' = inFlight /\ \E where \in Where \ {"joined"} : Goto(r, where)
  BY <1>1, <1>4, GotoMoves, GoingKeepsFlights
<1> QED BY <1>2, <1>3, <1>4

LEMMA FlightsStay == TypeOK /\ Flights /\ [Next]_vars => Flights'
<1> SUFFICES ASSUME TypeOK, Flights, [Next]_vars PROVE Flights'
  OBVIOUS
<1>1. CASE Crash
  <2>1. \A r \in Request : pc'[r] \in {"idle", "ended", "lost"}
    BY <1>1 DEF Crash
  <2> QED BY <2>1 DEF Flights, Flight, Handling
<1>2. ASSUME NEW r \in Request, PspActs(r) \/ AnswerUnread(r) \/ PspSettles(r) PROVE Flights'
  BY <1>2, GoingKeepsFlights DEF PspActs, AnswerUnread, PspSettles
<1>3. ASSUME NEW k \in Key, Expire(k) PROVE Flights'
  BY <1>3, GoingKeepsFlights DEF Expire
<1>4. ASSUME NEW l \in Key \cup {StoreLock}, GoesStale(l) PROVE Flights'
  BY <1>4, GoingKeepsFlights DEF GoesStale
<1>5. CASE UNCHANGED vars
  BY <1>5, GoingKeepsFlights DEF vars
<1> QED BY <1>1, <1>2, <1>3, <1>4, <1>5, ArriveKeepsFlights, StepKeepsFlights DEF Next

\* MemoryIdempotencyStore.remember, FileIdempotencyStore.remember: a key has one
\* handler at most, and who joined it waits for one that is there.
THEOREM HandlersAreSingle == Spec => []OneFlight
<1>1. Init => Flights
  BY DEF Init, Flights, Flight, Handling
<1>2. Flights => OneFlight
  BY DEF Flights, Flight, OneFlight
<1> QED BY <1>1, <1>2, InitTypes, TypesStay, FlightsStay, PTL DEF Spec

-----------------------------------------------------------------------------
(* Steps that write no session and ask nothing.                            *)

Reads(q) ==
  /\ pc[q] = "get" /\ Status(SessionOf[q]) # "none"
  /\ pc'[q] = IF OpOf[q] = "cancel" THEN "claim" ELSE "policy"
  /\ seen'[q] = session[SessionOf[q]]

Moves(q) ==
  \/ pc'[q] = pc[q]
  \/ pc'[q] \in {"ended", "recording"}
  \/ pc[q] = "idle" /\ pc'[q] \in {"joined", "locking"}
  \/ pc[q] \in {"idle", "locking"} /\ pc'[q] = FirstStep(q)
  \/ pc[q] = "policy" /\ pc'[q] = IF OpOf[q] = "complete" THEN "claim" ELSE "put"

\* Every answer that says the payment failed was there before.
Repeats(b, a) == b.session = a.session /\ b.kind = a.kind

NoNewFailure ==
  \A q \in Request : Failing(answer'[q]) =>
    \E p \in Request : Failing(answer[p]) /\ Repeats(answer[p], answer'[q])

Quiet ==
  /\ UNCHANGED <<session, call, psp, overwritten>>
  /\ \A q \in Request : Reads(q) \/ (Moves(q) /\ seen'[q] = seen[q])
  /\ NoNewFailure

LEMMA QuietRoutes ==
  ASSUME IInv, Quiet
  PROVE  Routes'
<1> SUFFICES ASSUME NEW r \in Request PROVE Route(r)'
  BY DEF Routes
<1>1. Route(r) /\ OpOf[r] \in Op /\ call' = call
  BY RequestAssumption DEF IInv, Routes, Quiet
<1>2. CASE Reads(r)
  BY <1>1, <1>2 DEF Reads, Route, Holds, Asks, Op
<1>3. CASE Moves(r)
  BY <1>1, <1>3 DEF Moves, Route, Holds, Asks, Op, FirstStep
<1> QED BY <1>2, <1>3 DEF Quiet

\* Nobody new is engaged, and no create is fresh again.
LEMMA QuietEngages ==
  ASSUME IInv, Quiet, NEW r \in Request
  PROVE  (Engaged(r)' => Engaged(r)) /\ (Fresh(r)' => Fresh(r)) /\ (pc'[r] = "claimed" => pc[r] = "claimed")
<1>1. Route(r) /\ OpOf[r] \in Op /\ call' = call
  BY RequestAssumption DEF IInv, Routes, Quiet
<1>2. CASE Reads(r)
  BY <1>1, <1>2 DEF Reads, Route, Engaged, Asks, Fresh
<1>3. CASE Moves(r)
  BY <1>1, <1>3 DEF Moves, Route, Engaged, Asks, Fresh, FirstStep
<1> QED BY <1>2, <1>3 DEF Quiet

LEMMA QuietRows ==
  ASSUME IInv, Quiet
  PROVE  Rows'
<1> SUFFICES ASSUME NEW r \in Request PROVE Present(r)' /\ First(r)'
  BY DEF Rows
<1>1. Route(r) /\ Present(r) /\ First(r) /\ OpOf[r] \in Op /\ session' = session
  BY RequestAssumption DEF IInv, Routes, Rows, Quiet
<1>2. Present(r)'
  <2>1. CASE Reads(r)
    BY <1>1, <2>1 DEF Reads, Present, Status, Holds
  <2>2. CASE Moves(r) /\ seen'[r] = seen[r]
    BY <1>1, <2>2 DEF Moves, Present, Status, FirstStep, Op, Holds
  <2> QED BY <2>1, <2>2 DEF Quiet
<1>3. First(r)'
  <2> SUFFICES ASSUME Fresh(r)' PROVE First(r)'
    BY DEF First
  <2>1. Fresh(r)
    BY QuietEngages
  <2>2. \A q \in Request : SessionOf[q] = SessionOf[r] => ~Engaged(q)'
    BY <1>1, <2>1, QuietEngages DEF First
  <2>3. \A q \in Request : Failing(answer'[q]) => answer'[q].session # SessionOf[r]
    BY <1>1, <2>1 DEF First, Quiet, NoNewFailure, Repeats
  <2> QED BY <1>1, <2>1, <2>2, <2>3 DEF First, Status, Failing
<1> QED BY <1>2, <1>3

LEMMA QuietSessions ==
  ASSUME IInv, Quiet
  PROVE  Claims' /\ Agreements' /\ Refusals' /\ Paid'
<1>1. UNCHANGED <<session, call, psp, Untouched>>
  BY DEF Quiet, Untouched
<1>2. ASSUME NEW s \in Untouched PROVE Claimed(s)'
  <2>1. Claimed(s)
    BY DEF IInv, Claims
  <2> QED BY <1>1, <2>1, QuietEngages DEF Claimed, Status
<1>3. ASSUME NEW s \in Untouched PROVE Agreed(s)'
  BY <1>1 DEF IInv, Agreements, Agreed, Status, Asks
<1>4. ASSUME NEW s \in Untouched PROVE Over(s)'
  <2> SUFFICES ASSUME NEW a \in Request, Failing(answer'[a]), answer'[a].session = s
               PROVE  /\ Status(s)' # "ready"
                      /\ \A r \in Request : SessionOf[r] = s =>
                           /\ pc'[r] # "claimed" /\ call'[r].result \in {"none", "declined", "unread"}
                           /\ answer'[a].kind = "refused" => call'[r].result # "unread"
    BY DEF Over, Failing
  <2>1. PICK p \in Request : /\ Failing(answer[p]) /\ answer[p].session = s
                             /\ answer[p].kind = answer'[a].kind
    BY DEF Quiet, NoNewFailure, Repeats
  <2>2. Over(s)
    BY DEF IInv, Refusals
  <2> QED BY <1>1, <2>1, <2>2, QuietEngages DEF Over, Status
<1>5. Paid'
  <2>1. Paid
    BY DEF IInv
  <2>2. \A r \in Request : seen'[r] = seen[r] \/ seen'[r] = session[SessionOf[r]]
    BY DEF Quiet, Reads
  <2>3. \A r \in Request : SessionOf[r] \in Session
    BY RequestAssumption
  <2> QED BY <1>1, <2>1, <2>2, <2>3 DEF Paid, Status
<1> QED BY <1>1, <1>2, <1>3, <1>4, <1>5 DEF Claims, Agreements, Refusals

LEMMA SettleIsQuiet ==
  ASSUME TypeOK, NEW r \in Request, NEW a, Settle(r, a),
         Failing(a) => \E p \in Request : Failing(answer[p]) /\ Repeats(answer[p], a)
  PROVE  NoNewFailure /\ \A q \in Request : Moves(q)
  BY DEF Settle, NoNewFailure, Repeats, Moves

LEMMA ThrowsIsQuiet ==
  ASSUME TypeOK, NEW r \in Request, NEW kind \in Thrown, Throws(r, kind)
  PROVE  NoNewFailure /\ \A q \in Request : Moves(q)
<1>1. ~Failing(Says(r, kind, NoRow))
  BY DEF Failing, Says, Thrown
<1> QED BY <1>1, SettleIsQuiet DEF Throws

\* A repeated answer is one that was given.
LEMMA ReplaysIsOld ==
  ASSUME TypeOK, NEW r \in Request, cache[KeyOf[r]] # NoRequest, Failing(Replays(r))
  PROVE  \E p \in Request : Failing(answer[p]) /\ Repeats(answer[p], Replays(r))
<1>1. cache[KeyOf[r]] \in Request
  BY RequestAssumption DEF TypeOK
<1>2. Replays(r) = answer[cache[KeyOf[r]]]
  BY DEF Replays, Failing, Says
<1> QED BY <1>1, <1>2 DEF Repeats

LEMMA StoreIsQuiet ==
  ASSUME TypeOK, NEW r \in Request,
         \/ Arrive(r) \/ KeyLocked(r) \/ LockFails(r) \/ Record(r) \/ ResponseFails(r)
         \/ CaptureThrows(r)
  PROVE  Quiet
<1>0. UNCHANGED <<session, call, psp, overwritten, seen>>
  BY DEF Arrive, KeyLocked, LockFails, Record, ResponseFails, CaptureThrows, payment
<1>1. CASE Arrive(r)
  <2>1. \A q \in Request : Moves(q)
    BY <1>1, GotoMoves DEF Arrive, Alone, Runs, Moves
  <2>2. NoNewFailure
    <3>1. ~Failing(Says(r, "reused", NoRow))
      BY DEF Failing, Says
    <3>2. CASE answer' = answer
      BY <3>2 DEF NoNewFailure, Repeats
    <3>3. ASSUME NEW a, answer' = [answer EXCEPT ![r] = a],
                 Failing(a) => \E p \in Request : Failing(answer[p]) /\ Repeats(answer[p], a)
          PROVE  NoNewFailure
      BY <3>3 DEF NoNewFailure, Repeats, TypeOK
    <3> QED BY <1>1, <3>1, <3>2, <3>3, ReplaysIsOld DEF Arrive, Alone
  <2> QED BY <1>0, <2>1, <2>2 DEF Quiet
<1>2. CASE KeyLocked(r)
  <2>1. CASE cache[KeyOf[r]] # NoRequest /\ Settle(r, Replays(r))
    BY <1>0, <2>1, SettleIsQuiet, ReplaysIsOld DEF Quiet
  <2>2. CASE Runs(r) /\ UNCHANGED <<answer, inFlight>>
    <3>1. \A q \in Request : Moves(q)
      BY <1>2, <2>2, GotoMoves DEF KeyLocked, Runs, Moves
    <3> QED BY <1>0, <2>2, <3>1 DEF Quiet, NoNewFailure, Repeats
  <2> QED BY <1>2, <2>1, <2>2 DEF KeyLocked
<1>3. CASE LockFails(r) \/ ResponseFails(r) \/ CaptureThrows(r)
  BY <1>0, <1>3, ThrowsIsQuiet DEF LockFails, ResponseFails, CaptureThrows, Quiet, Thrown
<1>4. CASE Record(r)
  BY <1>0, <1>4, SettleIsQuiet DEF Record, Quiet, Repeats
<1> QED BY <1>1, <1>2, <1>3, <1>4

LEMMA ReturnsAnswers ==
  ASSUME TypeOK, NEW r \in Request, NEW kind, NEW row, Returns(r, kind, row)
  PROVE  /\ pc'[r] = "recording" /\ \A q \in Request \ {r} : pc'[q] = pc[q]
         /\ answer'[r].kind = kind /\ answer'[r].session = SessionOf[r]
         /\ \A q \in Request \ {r} : answer'[q] = answer[q]
<1>1. answer'[r] = Says(r, kind, row) /\ \A q \in Request \ {r} : answer'[q] = answer[q]
  BY DEF Returns, TypeOK
<1> QED BY <1>1, GotoMoves DEF Returns, Says

LEMMA ReturnsIsQuiet ==
  ASSUME TypeOK, NEW r \in Request, NEW kind \in Returned \ {"declined", "refused"}, NEW row, Returns(r, kind, row)
  PROVE  NoNewFailure /\ \A q \in Request : Moves(q)
  BY ReturnsAnswers DEF NoNewFailure, Repeats, Failing, Moves

LEMMA ReadIsQuiet ==
  ASSUME TypeOK, NEW r \in Request, Get(r) \/ Policy(r)
  PROVE  Quiet
<1>0. UNCHANGED <<session, call, psp, overwritten>>
  BY DEF Get, Policy, payment
<1>1. CASE Get(r)
  <2>1. CASE Throws(r, "missing") /\ UNCHANGED seen
    BY <1>0, <2>1, ThrowsIsQuiet DEF Quiet, Thrown
  <2>2. CASE ~(Throws(r, "missing") /\ UNCHANGED seen)
    <3>1. Reads(r) /\ answer' = answer /\ \A q \in Request \ {r} : pc'[q] = pc[q] /\ seen'[q] = seen[q]
      BY <1>1, <2>2, GotoMoves DEF Get, Reads, TypeOK, Status
    <3> QED BY <1>0, <3>1 DEF Quiet, Moves, NoNewFailure, Repeats
  <2> QED BY <2>1, <2>2
<1>2. CASE Policy(r)
  <2>0. UNCHANGED seen
    BY <1>2 DEF Policy
  <2>1. CASE Throws(r, "error")
    BY <1>0, <2>0, <2>1, ThrowsIsQuiet DEF Quiet, Thrown
  <2>2. CASE Returns(r, "denied", NoRow)
    BY <1>0, <2>0, <2>2, ReturnsIsQuiet DEF Quiet, Returned
  <2>3. CASE ~Throws(r, "error") /\ ~Returns(r, "denied", NoRow)
    <3>1. answer' = answer /\ \A q \in Request : Moves(q)
      BY <1>2, <2>3, GotoMoves DEF Policy, Moves
    <3> QED BY <1>0, <2>0, <3>1 DEF Quiet, NoNewFailure, Repeats
  <2> QED BY <2>1, <2>2, <2>3
<1> QED BY <1>1, <1>2

-----------------------------------------------------------------------------
(* The writes of a session.                                                *)

\* A write by r, which then records its answer, of anything but a failure, or
\* goes on to the capture.
Writes(r) ==
  /\ UNCHANGED <<call, psp, seen>>
  /\ pc'[r] \in {"recording", "claimed"} /\ pc[r] # "claimed"
  /\ \A q \in Request \ {r} : pc'[q] = pc[q]
  /\ \A s \in Session \ {SessionOf[r]} : session'[s] = session[s]

LEMMA PutWrites ==
  ASSUME TypeOK, NEW r \in Request, Put(r)
  PROVE  /\ Writes(r) /\ NoNewFailure /\ pc'[r] = "recording"
         /\ session'[SessionOf[r]] = NewRow(r)
<1>1. PICK kind \in {"created", "updated"} : Returns(r, kind, NewRow(r))
  BY DEF Put
<1>2. kind \in Returned \ {"declined", "refused"}
  BY DEF Returned
<1>3. NoNewFailure /\ pc'[r] = "recording" /\ \A q \in Request \ {r} : pc'[q] = pc[q]
  BY <1>1, <1>2, ReturnsIsQuiet, ReturnsAnswers
<1>4. session'[SessionOf[r]] = NewRow(r) /\ \A s \in Session \ {SessionOf[r]} : session'[s] = session[s]
  BY RequestAssumption DEF Put, TypeOK
<1> QED BY <1>3, <1>4 DEF Put, Writes, payment

\* An update overwrites a claim for all to see; a create comes before all else.
LEMMA PutKeeps ==
  ASSUME IInv, TypeOK', Flights', NEW r \in Request, Put(r)
  PROVE  IInv'
<1> DEFINE t == SessionOf[r]
<1>0. /\ Writes(r) /\ NoNewFailure /\ pc'[r] = "recording" /\ pc[r] = "put"
      /\ session'[t] = NewRow(r) /\ t \in Session /\ TypeOK
      /\ overwritten \subseteq overwritten'
      /\ (t \in Untouched' => Status(t) \in {"none", "ready"})
  BY PutWrites, RequestAssumption DEF IInv, Put, Status, Untouched
<1>1. OpOf[r] \in {"create", "update"} /\ Present(r) /\ First(r)
  BY <1>0 DEF IInv, Routes, Route, Rows
<1>2. NewRow(r).status # "none"
  <2>1. CASE OpOf[r] = "create"
    BY <2>1 DEF NewRow
  <2>2. CASE OpOf[r] = "update"
    <3>1. seen[r].status # "none" /\ seen[r] \in Row
      BY <1>0, <1>1, <2>2 DEF Present, TypeOK
    <3>2. NewRow(r).status = seen[r].status
      BY <2>2, <3>1 DEF NewRow, Row
    <3> QED BY <3>1, <3>2
  <2> QED BY <1>1, <2>1, <2>2
<1>3. t \in Untouched' => /\ \A q \in Request : SessionOf[q] = t => ~Engaged(q)
                          /\ \A q \in Request : Failing(answer[q]) => answer[q].session # t
  <2>1. CASE OpOf[r] = "create"
    BY <1>0, <1>1, <2>1 DEF First, Fresh
  <2>2. CASE OpOf[r] = "update"
    <3>1. t \in Untouched' => Status(t) = "ready" /\ t \in Untouched
      BY <1>0, <1>1, <2>2 DEF Present, Untouched
    <3> QED BY <3>1 DEF IInv, Claims, Claimed, Refusals, Over
  <2> QED BY <1>1, <2>1, <2>2
<1>4. \A q \in Request : (Engaged(q)' <=> Engaged(q)) /\ (Fresh(q)' => Fresh(q) /\ q # r)
                        /\ (Asks(q)' <=> Asks(q))
  BY <1>0 DEF Writes, Engaged, Asks, Fresh
<1>5. Routes'
  BY <1>0 DEF IInv, Routes, Route, Writes, Holds, Asks
<1>6. Rows'
  <2> SUFFICES ASSUME NEW q \in Request PROVE Present(q)' /\ First(q)'
    BY DEF Rows
  <2>1. Present(q) /\ First(q) /\ SessionOf[q] \in Session
    BY RequestAssumption DEF IInv, Rows
  <2>2. Present(q)'
    BY <1>0, <1>2, <2>1 DEF Present, Writes, Status, Holds
  <2>3. First(q)'
    <3> SUFFICES ASSUME Fresh(q)' PROVE First(q)'
      BY DEF First
    <3>1. Fresh(q) /\ q # r
      BY <1>4
    <3>2. SessionOf[q] # t
      <4>1. CASE OpOf[r] = "create"
        BY <3>1, <4>1, FreshIdAssumption DEF Fresh
      <4>2. CASE OpOf[r] = "update"
        BY <1>0, <1>1, <2>1, <3>1, <4>2 DEF First, Present
      <4> QED BY <1>1, <4>1, <4>2
    <3>3. Status(SessionOf[q])' = "none"
      BY <1>0, <2>1, <3>1, <3>2 DEF First, Writes, Status
    <3>4. \A p \in Request : SessionOf[p] = SessionOf[q] => ~Engaged(p)'
      BY <1>4, <2>1, <3>1 DEF First
    <3>5. \A p \in Request : Failing(answer'[p]) => answer'[p].session # SessionOf[q]
      BY <1>0, <2>1, <3>1 DEF First, NoNewFailure, Repeats
    <3> QED BY <3>3, <3>4, <3>5 DEF First, Failing
  <2> QED BY <2>2, <2>3
<1>7. ASSUME NEW s \in Untouched', s # t
      PROVE  Claimed(s)' /\ Agreed(s)' /\ Over(s)'
  <2>1. s \in Untouched /\ session'[s] = session[s] /\ call' = call /\ psp' = psp
    BY <1>0, <1>7 DEF Untouched, Writes
  <2>2. Claimed(s) /\ Agreed(s) /\ Over(s)
    BY <2>1 DEF IInv, Claims, Agreements, Refusals
  <2>3. Claimed(s)' /\ Agreed(s)'
    BY <1>4, <2>1, <2>2 DEF Claimed, Agreed, Status
  <2>4. Over(s)'
    BY <1>0, <2>1, <2>2 DEF Over, Status, NoNewFailure, Repeats, Failing, Writes
  <2> QED BY <2>3, <2>4
<1>8. ASSUME t \in Untouched'
      PROVE  Claimed(t)' /\ Agreed(t)' /\ Over(t)'
  <2>1. \A q \in Request : SessionOf[q] = t => ~Engaged(q)' /\ ~Asks(q)'
    BY <1>3, <1>4, <1>8 DEF Engaged
  <2>2. \A q \in Request : ~(Failing(answer'[q]) /\ answer'[q].session = t)
    BY <1>0, <1>3, <1>8 DEF NoNewFailure, Repeats
  <2>3. psp'[t].result = "none"
    <3>1. t \in Untouched /\ psp' = psp /\ call' = call
      BY <1>0, <1>8 DEF Untouched, Writes
    <3> QED BY <2>1, <3>1 DEF IInv, Agreements, Agreed, Asks
  <2> QED BY <2>1, <2>2, <2>3 DEF Claimed, Agreed, Over, Failing
<1>9. Paid'
  <2>1. Paid
    BY DEF IInv
  <2>2. NewRow(r).status = "completed" => psp[t].result = "charged"
    <3>1. CASE OpOf[r] = "create"
      BY <3>1 DEF NewRow
    <3>2. CASE OpOf[r] # "create"
      <4>1. seen[r] \in Row
        BY <1>0 DEF TypeOK
      <4> QED BY <2>1, <3>2, <4>1 DEF NewRow, Paid, Row
    <3> QED BY <3>1, <3>2
  <2> QED BY <1>0, <2>1, <2>2 DEF Paid, Status, Writes
<1> QED BY <1>5, <1>6, <1>7, <1>8, <1>9 DEF IInv, Claims, Agreements, Refusals

\* A write by r of the status of its session, before or after its capture.
Marks(r, status) ==
  /\ UNCHANGED <<call, psp, seen, overwritten>>
  /\ session'[SessionOf[r]] = [session[SessionOf[r]] EXCEPT !.status = status]
  /\ \A s \in Session \ {SessionOf[r]} : session'[s] = session[s]
  /\ \A q \in Request \ {r} : pc'[q] = pc[q]
  /\ \A q \in Request : Failing(answer'[q]) =>
       \/ answer'[q].session = SessionOf[r]
       \/ \E p \in Request : Failing(answer[p]) /\ Repeats(answer[p], answer'[q])

LEMMA MarksKeepRows ==
  ASSUME IInv, NEW r \in Request, NEW status \in {"in_progress", "canceled", "completed"},
         Marks(r, status), pc'[r] \in {"recording", "claimed"},
         \A q \in Request : Fresh(q) => SessionOf[q] # SessionOf[r]
  PROVE  Rows'
<1> DEFINE t == SessionOf[r]
<1>0. t \in Session /\ session[t] \in Row /\ session'[t].status = status
  BY RequestAssumption DEF IInv, TypeOK, Marks, Row
<1> SUFFICES ASSUME NEW q \in Request PROVE Present(q)' /\ First(q)'
  BY DEF Rows
<1>1. Present(q) /\ First(q) /\ SessionOf[q] \in Session
  BY RequestAssumption DEF IInv, Rows
<1>2. Present(q)'
  BY <1>0, <1>1 DEF Present, Marks, Status, Holds
<1>3. First(q)'
  <2> SUFFICES ASSUME Fresh(q)' PROVE First(q)'
    BY DEF First
  <2>1. Fresh(q) /\ SessionOf[q] # t
    BY DEF Fresh, Marks
  <2>2. Status(SessionOf[q])' = "none"
    BY <1>1, <2>1 DEF First, Marks, Status
  <2>3. \A p \in Request : SessionOf[p] = SessionOf[q] => ~Engaged(p)'
    <3>1. \A p \in Request : SessionOf[p] = SessionOf[q] => ~Engaged(p) /\ p # r
      BY <1>1, <2>1 DEF First
    <3> QED BY <3>1 DEF Marks, Engaged, Asks
  <2>4. \A p \in Request : Failing(answer'[p]) => answer'[p].session # SessionOf[q]
    BY <1>1, <2>1 DEF First, Marks, Repeats
  <2> QED BY <2>2, <2>3, <2>4 DEF First, Failing
<1> QED BY <1>2, <1>3

LEMMA MarksKeepOthers ==
  ASSUME IInv, NEW r \in Request, NEW status, Marks(r, status),
         NEW s \in Untouched', s # SessionOf[r]
  PROVE  Claimed(s)' /\ Agreed(s)' /\ Over(s)'
<1>1. s \in Untouched /\ session'[s] = session[s] /\ call' = call /\ psp' = psp
  BY DEF Untouched, Marks
<1>2. Claimed(s) /\ Agreed(s) /\ Over(s)
  BY <1>1 DEF IInv, Claims, Agreements, Refusals
<1>3. \A q \in Request : SessionOf[q] = s => pc'[q] = pc[q] /\ (Engaged(q)' <=> Engaged(q))
                        /\ (Asks(q)' <=> Asks(q))
  BY <1>1 DEF Marks, Engaged, Asks
<1>4. Claimed(s)' /\ Agreed(s)'
  BY <1>1, <1>2, <1>3 DEF Claimed, Agreed, Status
<1>5. Over(s)'
  BY <1>1, <1>2, <1>3 DEF Over, Status, Failing, Marks, Repeats
<1> QED BY <1>4, <1>5

\* The compare-and-set of a completion: nobody has claimed the session before.
LEMMA ClaimKeeps ==
  ASSUME IInv, TypeOK', Flights', NEW r \in Request, Claim(r), session' # session,
         OpOf[r] = "complete"
  PROVE  IInv'
<1> DEFINE t == SessionOf[r]
<1>0. /\ t \in Session /\ session[t] \in Row /\ TypeOK /\ pc[r] = "claim"
      /\ Status(t) = "ready" /\ pc'[r] = "claimed" /\ Marks(r, "in_progress")
      /\ answer' = answer /\ Untouched' = Untouched
  <2>1. t \in Session /\ session[t] \in Row /\ TypeOK
    BY RequestAssumption DEF IInv, TypeOK
  <2>2. /\ pc[r] = "claim" /\ Status(t) = "ready" /\ Goto(r, "claimed") /\ answer' = answer
        /\ session' = [session EXCEPT ![t].status = "in_progress"]
        /\ UNCHANGED <<call, psp, seen, overwritten>>
    BY DEF Claim, Expected, Status, payment
  <2>3. pc'[r] = "claimed" /\ \A q \in Request \ {r} : pc'[q] = pc[q]
    BY <2>1, <2>2, GotoMoves
  <2>4. Marks(r, "in_progress")
    BY <2>1, <2>2, <2>3 DEF Marks, TypeOK, Repeats
  <2> QED BY <2>1, <2>2, <2>3, <2>4 DEF Untouched
<1>1. session'[t].status = "in_progress" /\ session'[t].total = session[t].total
  BY <1>0 DEF Marks, Row
<1>2. ~Asks(r) /\ \A q \in Request : Fresh(q) => SessionOf[q] # t
  BY <1>0 DEF IInv, Routes, Route, Rows, First
<1>3. Routes'
  BY <1>0 DEF IInv, Routes, Route, Marks, Holds, Asks
<1>4. Rows'
  BY <1>0, <1>2, MarksKeepRows
<1>5. ASSUME t \in Untouched'
      PROVE  Claimed(t)' /\ Agreed(t)' /\ Over(t)'
  <2>1. Claimed(t) /\ Agreed(t) /\ Over(t)
    BY <1>0, <1>5 DEF IInv, Claims, Agreements, Refusals
  <2>2. \A q \in Request : SessionOf[q] = t => ~Engaged(q) /\ ~Asks(q)
    BY <1>0, <2>1 DEF Claimed, Engaged
  <2>3. \A q \in Request : SessionOf[q] = t /\ Engaged(q)' => q = r
    BY <1>0, <2>2 DEF Marks, Engaged, Asks
  <2>4. Claimed(t)'
    BY <1>1, <2>3 DEF Claimed, Status
  <2>5. Agreed(t)'
    BY <1>0, <2>1, <2>2 DEF Agreed, Marks, Asks
  <2>6. Over(t)'
    BY <1>0, <2>1 DEF Over
  <2> QED BY <2>4, <2>5, <2>6
<1>6. Paid'
  BY <1>0, <1>1 DEF IInv, Paid, Status, Marks
<1> QED BY <1>0, <1>3, <1>4, <1>5, <1>6, MarksKeepOthers DEF IInv, Claims, Agreements, Refusals

LEMMA CancelKeeps ==
  ASSUME IInv, TypeOK', Flights', NEW r \in Request, Claim(r), session' # session,
         OpOf[r] = "cancel"
  PROVE  IInv'
<1> DEFINE t == SessionOf[r]
<1>0. /\ t \in Session /\ session[t] \in Row /\ TypeOK /\ pc[r] = "claim"
      /\ Status(t) # "none" /\ pc'[r] = "recording" /\ Marks(r, "canceled")
      /\ NoNewFailure /\ Untouched' = Untouched
  <2>1. t \in Session /\ session[t] \in Row /\ TypeOK
    BY RequestAssumption DEF IInv, TypeOK
  <2>2. /\ pc[r] = "claim" /\ Returns(r, "cancelled", session[t])
        /\ session' = [session EXCEPT ![t].status = "canceled"]
        /\ UNCHANGED <<call, psp, seen, overwritten>>
    BY DEF Claim, payment
  <2>3. pc'[r] = "recording" /\ NoNewFailure /\ \A q \in Request \ {r} : pc'[q] = pc[q]
    BY <2>1, <2>2, ReturnsAnswers, ReturnsIsQuiet DEF Returned
  <2>4. Marks(r, "canceled")
    BY <2>1, <2>2, <2>3 DEF Marks, TypeOK, NoNewFailure, Repeats
  <2>5. Status(t) # "none"
    BY <2>2 DEF IInv, Rows, Present
  <2> QED BY <2>1, <2>2, <2>3, <2>4, <2>5 DEF Untouched
<1>1. session'[t].status = "canceled" /\ session'[t].total = session[t].total
  BY <1>0 DEF Marks, Row
<1>2. ~Asks(r) /\ \A q \in Request : Fresh(q) => SessionOf[q] # t
  BY <1>0 DEF IInv, Routes, Route, Rows, First
<1>3. Routes'
  BY <1>0 DEF IInv, Routes, Route, Marks, Holds, Asks
<1>4. Rows'
  BY <1>0, <1>2, MarksKeepRows
<1>5. ASSUME t \in Untouched'
      PROVE  Claimed(t)' /\ Agreed(t)' /\ Over(t)'
  <2>1. Claimed(t) /\ Agreed(t) /\ Over(t)
    BY <1>0, <1>5 DEF IInv, Claims, Agreements, Refusals
  <2>2. \A q \in Request : (Engaged(q)' => Engaged(q)) /\ (Asks(q)' <=> Asks(q))
                          /\ (pc'[q] = "claimed" => pc[q] = "claimed")
    BY <1>0 DEF Marks, Engaged, Asks
  <2>3. Claimed(t)'
    BY <1>1, <2>1, <2>2 DEF Claimed, Status
  <2>4. Agreed(t)'
    BY <1>0, <1>1, <2>1, <2>2 DEF Agreed, Marks, Status
  <2>5. Over(t)'
    BY <1>0, <1>1, <2>1, <2>2 DEF Over, Marks, Status, NoNewFailure, Repeats, Failing
  <2> QED BY <2>3, <2>4, <2>5
<1>6. Paid'
  BY <1>0, <1>1 DEF IInv, Paid, Status, Marks
<1> QED BY <1>0, <1>3, <1>4, <1>5, <1>6, MarksKeepOthers DEF IInv, Claims, Agreements, Refusals

\* The final write of the completion that claimed the session: it completes with a
\* charge on record; after a refusal or a decline the session has no charge and
\* nobody else who could make one.
LEMMA EndsKeeps ==
  ASSUME IInv, TypeOK', Flights', NEW r \in Request, Holds(r),
         NEW status \in {"canceled", "completed"}, NEW kind \in {"refused", "declined", "completed"},
         Ends(r, status, kind), UNCHANGED <<call, psp, seen, overwritten>>,
         status = "completed" => kind = "completed" /\ call[r].result = "charged",
         status = "canceled" => kind # "completed" /\ call[r].result \in {"none", "declined", "unread"},
         kind = "refused" => call[r].result # "unread"
  PROVE  IInv'
<1> DEFINE t == SessionOf[r]
<1>0. /\ t \in Session /\ session[t] \in Row /\ TypeOK
      /\ pc'[r] = "recording" /\ Marks(r, status) /\ Untouched' = Untouched
      /\ answer'[r].kind = kind /\ answer'[r].session = t
      /\ \A q \in Request \ {r} : answer'[q] = answer[q]
  <2>1. t \in Session /\ session[t] \in Row /\ TypeOK
    BY RequestAssumption DEF IInv, TypeOK
  <2>2. Returns(r, kind, session[t]) /\ session' = [session EXCEPT ![t].status = status]
    BY DEF Ends
  <2>3. /\ pc'[r] = "recording" /\ answer'[r].kind = kind /\ answer'[r].session = t
        /\ \A q \in Request \ {r} : pc'[q] = pc[q] /\ answer'[q] = answer[q]
    BY <2>1, <2>2, ReturnsAnswers
  <2>4. Marks(r, status)
    BY <2>1, <2>2, <2>3 DEF Marks, TypeOK, Repeats
  <2> QED BY <2>1, <2>3, <2>4 DEF Untouched
<1>1. session'[t].status = status /\ session'[t].total = session[t].total
  BY <1>0 DEF Marks, Row
<1>2. Engaged(r)
  BY DEF IInv, Routes, Route, Holds, Engaged
<1>3. \A q \in Request : Fresh(q) => SessionOf[q] # t
  BY <1>2 DEF IInv, Rows, First
<1>4. Routes'
  BY <1>0 DEF IInv, Routes, Route, Marks, Holds, Asks
<1>5. Rows'
  BY <1>0, <1>3, MarksKeepRows
<1>6. ASSUME t \in Untouched'
      PROVE  Claimed(t)' /\ Agreed(t)' /\ Over(t)'
  <2>1. Claimed(t) /\ Agreed(t) /\ Over(t)
    BY <1>0, <1>6 DEF IInv, Claims, Agreements, Refusals
  <2>2. \A q \in Request : (Engaged(q)' => Engaged(q)) /\ (Asks(q)' <=> Asks(q))
                          /\ (pc'[q] = "claimed" => pc[q] = "claimed" /\ q # r)
    BY <1>0 DEF Marks, Engaged, Asks
  <2>3. Claimed(t)'
    BY <1>1, <2>1, <2>2 DEF Claimed, Status
  <2>4. Agreed(t)'
    <3>1. Status(t) # "none"
      BY DEF IInv, Rows, Present
    <3> QED BY <1>0, <1>1, <2>1, <2>2, <3>1 DEF Agreed, Marks, Status
  <2>5. Over(t)'
    <3>1. \A q \in Request : SessionOf[q] = t => q = r \/ (pc[q] # "claimed" /\ ~Asks(q))
      BY <1>2, <2>1 DEF Claimed, Engaged
    <3>2. CASE status = "canceled"
      <4>1. /\ Status(t)' # "ready" /\ call' = call
            /\ \A q \in Request : SessionOf[q] = t =>
                 pc'[q] # "claimed" /\ call[q].result \in {"none", "declined", "unread"}
        <5>1. /\ \A q \in Request \ {r} : pc'[q] = pc[q]
              /\ \A q \in Request \ {r} : SessionOf[q] = t =>
                   call[q].result \notin {"sent", "charged"}
          BY <1>0, <1>2, <2>1, <3>1, <3>2 DEF Claimed, Engaged, Asks, Marks
        <5> QED BY <1>0, <1>1, <3>1, <3>2, <5>1 DEF Marks, Status, TypeOK, Call
      <4>2. ASSUME NEW a \in Request, Failing(answer'[a]), answer'[a].session = t,
                   answer'[a].kind = "refused"
            PROVE  \A q \in Request : SessionOf[q] = t => call[q].result # "unread"
        <5>1. CASE a = r
          BY <1>0, <1>2, <2>1, <3>1, <4>2, <5>1 DEF Claimed, Engaged, Asks
        <5>2. CASE a # r
          BY <1>0, <2>1, <4>2, <5>2 DEF Over
        <5> QED BY <5>1, <5>2
      <4> QED BY <4>1, <4>2 DEF Over
    <3>3. CASE status = "completed"
      <4>1. ~\E a \in Request : Failing(answer[a]) /\ answer[a].session = t
        BY <2>1, <3>3 DEF Over
      <4>2. ~\E a \in Request : Failing(answer'[a]) /\ answer'[a].session = t
        BY <1>0, <3>3, <4>1 DEF Ends, Returns, Says, Failing, TypeOK
      <4> QED BY <4>2 DEF Over, Failing
    <3> QED BY <3>2, <3>3
  <2> QED BY <2>3, <2>4, <2>5
<1>7. Paid'
  BY <1>0, <1>1 DEF IInv, Paid, Status, Marks
<1> QED BY <1>0, <1>4, <1>5, <1>6, <1>7, MarksKeepOthers DEF IInv, Claims, Agreements, Refusals

-----------------------------------------------------------------------------
(* The capture, the PSP and the crash.                                     *)

LEMMA CaptureKeeps ==
  ASSUME IInv, TypeOK', Flights', NEW r \in Request, Capture(r)
  PROVE  IInv'
<1> DEFINE t == SessionOf[r]
<1>0. /\ t \in Session /\ TypeOK /\ pc[r] = "claimed" /\ pc'[r] = "paying"
      /\ \A q \in Request \ {r} : pc'[q] = pc[q] /\ call'[q] = call[q]
      /\ call'[r] = [result |-> "sent", total |-> session[t].total]
      /\ UNCHANGED <<session, psp, seen, answer, overwritten, Untouched>>
  <2>1. t \in Session /\ TypeOK
    BY RequestAssumption DEF IInv
  <2>2. pc'[r] = "paying" /\ \A q \in Request \ {r} : pc'[q] = pc[q]
    BY <2>1, GotoMoves DEF Capture
  <2> QED BY <2>1, <2>2 DEF Capture, TypeOK, Untouched
<1>1. ~Asks(r) /\ Asks(r)'
  BY <1>0 DEF IInv, Routes, Route, Asks
<1>2. \A q \in Request : (Engaged(q)' <=> Engaged(q)) /\ (Fresh(q)' => Fresh(q))
                        /\ (q # r => (Asks(q)' <=> Asks(q)))
  BY <1>0, <1>1 DEF Engaged, Asks, Fresh
<1>3. Routes'
  BY <1>0, <1>1 DEF IInv, Routes, Route, Holds, Asks
<1>4. Rows'
  BY <1>0, <1>2 DEF IInv, Rows, Present, First, Holds, Status
<1>5. ASSUME NEW s \in Untouched' PROVE Claimed(s)'
  BY <1>0, <1>2 DEF IInv, Claims, Claimed, Status
<1>6. ASSUME NEW s \in Untouched' PROVE Agreed(s)'
  <2>1. Agreed(s) /\ Claimed(s)
    BY <1>0 DEF IInv, Claims, Agreements
  <2>2. CASE s # t
    <3>1. \A q \in Request : SessionOf[q] = s => q # r /\ call'[q] = call[q]
      BY <1>0, <2>2
    <3> QED BY <1>0, <2>1, <3>1 DEF Agreed, Asks, Status
  <2>3. CASE s = t
    <3>1. \A q \in Request : SessionOf[q] = t => q = r \/ ~Asks(q)
      BY <1>0, <2>1, <2>3 DEF Claimed, Engaged
    <3>2. psp[t].result = "none"
      BY <1>1, <2>1, <2>3, <3>1 DEF Agreed, Asks
    <3> QED BY <1>0, <1>2, <2>3, <3>1, <3>2 DEF Agreed, Status
  <2> QED BY <2>2, <2>3
<1>7. ASSUME NEW s \in Untouched' PROVE Over(s)'
  <2>1. Over(s)
    BY <1>0 DEF IInv, Refusals
  <2>2. CASE s # t
    BY <1>0, <2>1, <2>2 DEF Over, Status
  <2>3. CASE s = t
    BY <1>0, <2>1, <2>3 DEF Over
  <2> QED BY <2>2, <2>3
<1>8. Paid'
  BY <1>0 DEF IInv, Paid, Status
<1> QED BY <1>3, <1>4, <1>5, <1>6, <1>7, <1>8 DEF IInv, Claims, Agreements, Refusals

\* Of an untouched session there is one call, and its first answer is the record.
LEMMA PspKeeps ==
  ASSUME IInv, TypeOK', Flights', NEW r \in Request, PspActs(r)
  PROVE  IInv'
<1> DEFINE t == SessionOf[r]
<1>0. /\ t \in Session /\ TypeOK /\ call[r].result = "sent" /\ call[r] \in Call /\ psp[t] \in Charge
      /\ UNCHANGED <<pc, session, seen, answer, overwritten, Untouched>>
  BY RequestAssumption DEF IInv, TypeOK, PspActs, Untouched
<1>1. PICK result \in {"charged", "declined"} :
        /\ psp[t].result = "declined" => result = "declined"
        /\ call' = [call EXCEPT ![r].result = result]
        /\ psp' = IF psp[t].result = "none"
                    THEN [psp EXCEPT ![t] = [result |-> result, total |-> call[r].total]]
                    ELSE psp
  BY DEF PspActs
<1>2. /\ call'[r] = [result |-> result, total |-> call[r].total]
      /\ \A q \in Request \ {r} : call'[q] = call[q]
      /\ \A s \in Session \ {t} : psp'[s] = psp[s]
      /\ psp'[t] = IF psp[t].result = "none" THEN call'[r] ELSE psp[t]
  BY <1>0, <1>1 DEF TypeOK, Call
<1>3. \A q \in Request : (Asks(q)' <=> Asks(q)) /\ (Engaged(q)' <=> Engaged(q))
                        /\ (Fresh(q)' <=> Fresh(q))
  BY <1>0, <1>2 DEF Asks, Engaged, Fresh
<1>4. Routes'
  BY <1>0, <1>3 DEF IInv, Routes, Route, Holds
<1>5. Rows'
  BY <1>0, <1>3 DEF IInv, Rows, Present, First, Holds, Status
<1>6. ASSUME NEW s \in Untouched' PROVE Claimed(s)'
  BY <1>0, <1>3 DEF IInv, Claims, Claimed, Status
<1>7. ASSUME NEW s \in Untouched' PROVE Agreed(s)'
  <2>1. Agreed(s) /\ Claimed(s) /\ s \in Session
    BY <1>0 DEF IInv, Claims, Agreements, Untouched
  <2>2. \A q \in Request : call'[q].total = call[q].total
    BY <1>2
  <2>3. psp'[s].result # "none" =>
          \E q \in Request : /\ SessionOf[q] = s /\ call'[q].total = psp'[s].total
                            /\ call'[q].result \in {psp'[s].result, "unread"}
    <3>1. CASE s # t
      <4>1. \A q \in Request : SessionOf[q] = s => call'[q] = call[q]
        BY <1>2, <3>1
      <4> QED BY <1>2, <2>1, <3>1, <4>1 DEF Agreed
    <3>2. CASE s = t /\ psp[t].result = "none"
      BY <1>2, <3>2
    <3>3. CASE s = t /\ psp[t].result # "none"
      <4>1. PICK q \in Request : SessionOf[q] = t /\ call[q].result \in {psp[t].result, "unread"}
        BY <2>1, <3>3 DEF Agreed
      <4>2. q = r
        BY <1>0, <2>1, <3>3, <4>1 DEF Claimed, Engaged, Asks
      <4> QED BY <1>0, <4>1, <4>2 DEF Charge
    <3> QED BY <3>1, <3>2, <3>3
  <2> QED BY <1>0, <1>3, <2>1, <2>2, <2>3 DEF Agreed, Status
<1>8. ASSUME NEW s \in Untouched' PROVE Over(s)'
  <2>1. Over(s)
    BY <1>0 DEF IInv, Refusals
  <2>2. CASE s # t
    BY <1>0, <1>2, <2>1, <2>2 DEF Over, Status
  <2>3. CASE s = t
    BY <1>0, <2>1, <2>3 DEF Over
  <2> QED BY <2>2, <2>3
<1>9. Paid'
  <2>1. \A s \in Session : psp[s].result = "charged" => psp'[s].result = "charged"
    BY <1>2
  <2>2. call'[r].result = "charged" => psp'[t].result = "charged"
    BY <1>0, <1>1, <1>2 DEF Charge
  <2>3. \A q \in Request : SessionOf[q] \in Session
    BY RequestAssumption
  <2> QED BY <1>0, <1>2, <2>1, <2>2, <2>3 DEF IInv, Paid, Status
<1> QED BY <1>4, <1>5, <1>6, <1>7, <1>8, <1>9 DEF IInv, Claims, Agreements, Refusals

\* An answer that is not read is one more end of the call; the PSP's record is not touched.
LEMMA UnreadKeeps ==
  ASSUME IInv, TypeOK', Flights', NEW r \in Request, AnswerUnread(r)
  PROVE  IInv'
<1> DEFINE t == SessionOf[r]
<1>0. /\ t \in Session /\ TypeOK /\ call[r].result = "sent" /\ call[r] \in Call /\ psp[t] \in Charge
      /\ UNCHANGED <<pc, session, seen, answer, overwritten, Untouched, psp>>
  BY RequestAssumption DEF IInv, TypeOK, AnswerUnread, Untouched
<1>1. /\ call'[r] = [result |-> "unread", total |-> call[r].total]
      /\ \A q \in Request \ {r} : call'[q] = call[q]
  BY <1>0 DEF AnswerUnread, TypeOK, Call
<1>2. \A q \in Request : (Asks(q)' <=> Asks(q)) /\ (Engaged(q)' <=> Engaged(q))
                        /\ (Fresh(q)' <=> Fresh(q)) /\ call'[q].total = call[q].total
  BY <1>0, <1>1 DEF Asks, Engaged, Fresh
<1>3. Routes'
  BY <1>0, <1>2 DEF IInv, Routes, Route, Holds
<1>4. Rows'
  BY <1>0, <1>2 DEF IInv, Rows, Present, First, Holds, Status
<1>5. ASSUME NEW s \in Untouched' PROVE Claimed(s)'
  BY <1>0, <1>2 DEF IInv, Claims, Claimed, Status
<1>6. ASSUME NEW s \in Untouched' PROVE Agreed(s)'
  <2>1. Agreed(s)
    BY <1>0 DEF IInv, Agreements
  <2>2. \A q \in Request : call'[q].result \in {call[q].result, "unread"}
    BY <1>0, <1>1
  <2> QED BY <1>0, <1>2, <2>1, <2>2 DEF Agreed, Status
<1>7. ASSUME NEW s \in Untouched' PROVE Over(s)'
  <2>1. Over(s)
    BY <1>0 DEF IInv, Refusals
  <2>2. CASE s # t
    BY <1>0, <1>1, <2>1, <2>2 DEF Over, Status
  <2>3. CASE s = t
    BY <1>0, <2>1, <2>3 DEF Over
  <2> QED BY <2>2, <2>3
<1>8. Paid'
  BY <1>0, <1>1 DEF IInv, Paid, Status
<1> QED BY <1>3, <1>4, <1>5, <1>6, <1>7, <1>8 DEF IInv, Claims, Agreements, Refusals

\* What the PSP decides late is on record under the one call of the session.
LEMMA SettlesKeeps ==
  ASSUME IInv, TypeOK', Flights', NEW r \in Request, PspSettles(r)
  PROVE  IInv'
<1> DEFINE t == SessionOf[r]
<1>0. /\ t \in Session /\ TypeOK /\ call[r].result = "unread" /\ psp[t].result = "none"
      /\ UNCHANGED <<pc, session, seen, answer, overwritten, Untouched, call>>
  BY RequestAssumption DEF IInv, TypeOK, PspSettles, Untouched
<1>1. PICK result \in {"charged", "declined"} :
        psp' = [psp EXCEPT ![t] = [result |-> result, total |-> call[r].total]]
  BY DEF PspSettles
<1>2. /\ psp'[t] = [result |-> result, total |-> call[r].total]
      /\ \A s \in Session \ {t} : psp'[s] = psp[s]
  BY <1>0, <1>1 DEF TypeOK
<1>3. Routes' /\ Rows'
  BY <1>0 DEF IInv, Routes, Route, Rows, Present, First, Fresh, Holds, Status, Asks, Engaged
<1>4. ASSUME NEW s \in Untouched' PROVE Claimed(s)' /\ Over(s)'
  BY <1>0 DEF IInv, Claims, Claimed, Refusals, Over, Status, Engaged, Asks
<1>5. ASSUME NEW s \in Untouched' PROVE Agreed(s)'
  <2>1. Agreed(s) /\ s \in Session
    BY <1>0 DEF IInv, Agreements, Untouched
  <2>2. CASE s # t
    BY <1>0, <1>2, <2>1, <2>2 DEF Agreed, Asks, Status
  <2>3. CASE s = t
    BY <1>0, <1>2, <2>1, <2>3 DEF Agreed, Asks, Status
  <2> QED BY <2>2, <2>3
<1>6. Paid'
  <2>1. \A s \in Session : psp[s].result = "charged" => psp'[s].result = "charged"
    BY <1>0, <1>2
  <2>2. \A q \in Request : SessionOf[q] \in Session
    BY RequestAssumption
  <2> QED BY <1>0, <2>1, <2>2 DEF IInv, Paid, Status
<1> QED BY <1>3, <1>4, <1>5, <1>6 DEF IInv, Claims, Agreements, Refusals

\* A crash that loses the sessions leaves no row to claim again.
LEMMA CrashKeeps ==
  ASSUME IInv, TypeOK', Flights', Crash
  PROVE  IInv'
<1>0. /\ \A q \in Request : \/ pc'[q] = pc[q] /\ pc[q] \in {"idle", "ended"}
                            \/ pc'[q] = "lost" /\ pc[q] # "idle"
      /\ UNCHANGED <<call, psp, seen, answer, overwritten, Untouched>>
      /\ session' = session \/ \A s \in Session : session'[s] = NoRow
  BY DEF Crash, payment, Untouched
<1>1. \A q \in Request : /\ Engaged(q)' => Engaged(q)
                         /\ Asks(q)' <=> Asks(q)
                         /\ Fresh(q)' => Fresh(q)
                         /\ pc'[q] # "claimed"
  BY <1>0 DEF Engaged, Asks, Fresh
<1>2. \A s \in Session : Status(s)' \in {Status(s), "none"} /\ (Status(s)' # "none" => session'[s] = session[s])
  BY <1>0 DEF Status, NoRow
<1>3. \A q \in Request : SessionOf[q] \in Session
  BY RequestAssumption
<1>4. Routes'
  BY <1>0, <1>1 DEF IInv, Routes, Route, Holds
<1>5. Rows'
  <2>1. \A q \in Request : Present(q)'
    BY <1>0 DEF Present, Holds
  <2>2. \A q \in Request : First(q)'
    BY <1>0, <1>1, <1>2, <1>3 DEF IInv, Rows, First
  <2> QED BY <2>1, <2>2 DEF Rows
<1>6. ASSUME NEW s \in Untouched' PROVE Claimed(s)' /\ Agreed(s)' /\ Over(s)'
  <2>1. s \in Session /\ Claimed(s) /\ Agreed(s) /\ Over(s)
    BY <1>0 DEF IInv, Claims, Agreements, Refusals, Untouched
  <2>2. Claimed(s)'
    BY <1>1, <1>2, <2>1 DEF Claimed
  <2>3. Agreed(s)'
    BY <1>0, <1>1, <1>2, <2>1 DEF Agreed
  <2>4. Over(s)'
    BY <1>0, <1>1, <1>2, <2>1 DEF Over
  <2> QED BY <2>2, <2>3, <2>4
<1>7. Paid'
  BY <1>0, <1>2 DEF IInv, Paid
<1> QED BY <1>4, <1>5, <1>6, <1>7 DEF IInv, Claims, Agreements, Refusals

-----------------------------------------------------------------------------
(* All steps, and what follows.                                            *)

LEMMA InitKeeps == Init => IInv
<1> SUFFICES ASSUME Init PROVE IInv
  OBVIOUS
<1>1. /\ \A r \in Request : /\ pc[r] = "idle" /\ call[r] = Nothing /\ answer[r].kind = "none"
                            /\ seen[r] = NoRow
      /\ \A s \in Session : psp[s] = Nothing /\ Status(s) \in {"none", "ready"}
                           /\ (s \notin Open => Status(s) = "none")
  BY DEF Init, Says, NoRow, Status
<1>2. \A r \in Request : ~Asks(r) /\ ~Engaged(r) /\ ~Failing(answer[r]) /\ SessionOf[r] \in Session
  BY <1>1, RequestAssumption DEF Asks, Engaged, Failing, Nothing
<1>3. Flights /\ Routes
  BY <1>1, <1>2 DEF Flights, Flight, Routes, Route, Holds, Handling
<1>4. Rows
  BY <1>1, <1>2, FreshIdAssumption DEF Rows, Present, First, Fresh, Holds
<1>5. Claims /\ Agreements /\ Refusals
  BY <1>1, <1>2 DEF Claims, Claimed, Agreements, Agreed, Refusals, Over, Untouched, Nothing
<1>6. Paid
  BY <1>1 DEF Paid, Nothing, NoRow
<1> QED BY <1>3, <1>4, <1>5, <1>6, InitTypes DEF IInv

LEMMA QuietKeeps == ASSUME IInv, TypeOK', Flights', Quiet PROVE IInv'
  BY QuietRoutes, QuietRows, QuietSessions DEF IInv

LEMMA RequestKeeps ==
  ASSUME IInv, TypeOK', Flights', NEW r \in Request, Arrive(r) \/ Step(r)
  PROVE  IInv'
<1>0. TypeOK /\ Route(r)
  BY DEF IInv, Routes
<1>1. CASE \/ Arrive(r) \/ KeyLocked(r) \/ LockFails(r) \/ Record(r) \/ ResponseFails(r)
          \/ CaptureThrows(r) \/ Get(r) \/ Policy(r)
  BY <1>0, <1>1, StoreIsQuiet, ReadIsQuiet, QuietKeeps
<1>2. CASE Put(r)
  BY <1>2, PutKeeps
<1>3. CASE Claim(r)
  <2>1. OpOf[r] \in {"complete", "cancel"}
    BY <1>0, <1>3 DEF Claim, Route
  <2>2. CASE session' # session
    BY <1>3, <2>1, <2>2, ClaimKeeps, CancelKeeps
  <2>3. CASE session' = session
    <3>1. CASE Throws(r, "missing") \/ Throws(r, "conflict")
      BY <1>0, <1>3, <2>3, <3>1, ThrowsIsQuiet, QuietKeeps DEF Claim, Quiet, payment, Thrown
    <3>2. CASE ~(Throws(r, "missing") \/ Throws(r, "conflict"))
      <4>1. PICK status \in {"in_progress", "canceled"} :
              /\ session' = [session EXCEPT ![SessionOf[r]].status = status]
              /\ Status(SessionOf[r]) = Expected(r)
              /\ status = "in_progress" => OpOf[r] = "complete"
              /\ status = "canceled" => OpOf[r] = "cancel" /\ Returns(r, "cancelled", session[SessionOf[r]])
        BY <1>3, <3>2 DEF Claim, Status
      <4>2. SessionOf[r] \in Session /\ session[SessionOf[r]] \in Row
        BY <1>0, RequestAssumption DEF TypeOK
      <4>3. session'[SessionOf[r]].status = status
        BY <1>0, <4>1, <4>2 DEF TypeOK, Row
      <4>4. status = "canceled"
        BY <2>3, <4>1, <4>3 DEF Expected, Status
      <4>5. NoNewFailure /\ \A q \in Request : Moves(q)
        BY <1>0, <4>1, <4>4, ReturnsIsQuiet DEF Returned
      <4> QED BY <1>3, <2>3, <4>5, QuietKeeps DEF Claim, Quiet, payment
    <3> QED BY <3>1, <3>2
  <2> QED BY <2>2, <2>3
<1>4. CASE Refuse(r)
  <2>1. call[r].result = "none"
    BY <1>0, <1>4 DEF Refuse, Route, Asks
  <2>2. Ends(r, "canceled", "refused") /\ UNCHANGED <<call, psp, seen, overwritten>> /\ Holds(r)
    BY <1>4 DEF Refuse, payment, Holds
  <2> QED BY <2>1, <2>2, EndsKeeps
<1>5. CASE Capture(r)
  BY <1>5, CaptureKeeps
<1>6. CASE CaptureReturns(r)
  <2>0. UNCHANGED <<call, psp, seen, overwritten>> /\ Holds(r)
    BY <1>6 DEF CaptureReturns, payment, Holds
  <2>1. CASE call[r].result \in {"declined", "unread"} /\ Ends(r, "canceled", "declined")
    BY <2>0, <2>1, EndsKeeps
  <2>2. CASE call[r].result = "charged" /\ Ends(r, "completed", "completed")
    BY <2>0, <2>2, EndsKeeps
  <2>3. CASE Throws(r, "error") /\ UNCHANGED session
    BY <1>0, <2>0, <2>3, ThrowsIsQuiet, QuietKeeps DEF Quiet, Thrown
  <2> QED BY <1>6, <2>1, <2>2, <2>3 DEF CaptureReturns
<1> QED BY <1>1, <1>2, <1>3, <1>4, <1>5, <1>6 DEF Step

LEMMA StepKeeps == IInv /\ [Next]_vars => IInv'
<1> SUFFICES ASSUME IInv, [Next]_vars PROVE IInv'
  OBVIOUS
<1>0. TypeOK' /\ Flights'
  BY TypesStay, FlightsStay DEF IInv
<1>1. CASE \/ \E k \in Key : Expire(k)
          \/ \E l \in Key \cup {StoreLock} : GoesStale(l)
          \/ UNCHANGED vars
  <2>1. UNCHANGED <<session, call, psp, overwritten, pc, seen, answer>>
    BY <1>1 DEF Expire, GoesStale, vars, payment
  <2>2. Quiet
    BY <2>1 DEF Quiet, Moves, NoNewFailure, Repeats
  <2> QED BY <1>0, <2>2, QuietKeeps
<1> QED BY <1>0, <1>1, RequestKeeps, PspKeeps, UnreadKeeps, SettlesKeeps, CrashKeeps DEF Next

LEMMA Always == Spec => []IInv
  BY InitKeeps, StepKeeps, PTL DEF Spec

\* store.transition's compare-and-set and the claim (merchant/src/checkout/server.ts,
\* store.ts): the PSP is asked to capture a session at most once.
THEOREM AskedAtMostOnce == Spec => []AskedOnce
<1>1. IInv => AskedOnce
  <2> SUFFICES ASSUME IInv, NEW s \in Untouched PROVE Cardinality(Asking(s)) <= 1
    BY DEF AskedOnce
  <2>1. \A q, r \in Asking(s) : q = r
    BY DEF IInv, Claims, Claimed, Engaged, Asks, Asking
  <2>2. CASE Asking(s) = {}
    BY <2>2, FS_EmptySet
  <2>3. CASE Asking(s) # {}
    <3>1. PICK r : Asking(s) = {r}
      BY <2>1, <2>3
    <3> QED BY <3>1, FS_Singleton
  <2> QED BY <2>2, <2>3
<1> QED BY <1>1, Always, PTL

\* The order of capture and final write: a completed order has been charged, and
\* for the total it shows.
THEOREM CompletedAreCharged == Spec => []CompletedIsCharged
<1>1. IInv => CompletedIsCharged
  <2> SUFFICES ASSUME IInv, NEW s \in Session, session[s].status = "completed"
               PROVE  psp[s].result = "charged" /\ (s \in Untouched => psp[s].total = session[s].total)
    BY DEF CompletedIsCharged
  <2>1. psp[s].result = "charged"
    BY DEF IInv, Paid, Status
  <2>2. ASSUME s \in Untouched PROVE psp[s].total = session[s].total
    <3>1. Agreed(s)
      BY <2>2 DEF IInv, Agreements
    <3>2. PICK r \in Request : /\ SessionOf[r] = s /\ call[r].total = psp[s].total
                               /\ call[r].result \in {"charged", "unread"}
      BY <2>1, <3>1 DEF Agreed
    <3> QED BY <2>1, <3>1, <3>2 DEF Agreed, Asks, Status
  <2> QED BY <2>1, <2>2
<1> QED BY <1>1, Always, PTL

\* The last write of a completion (merchant/src/checkout/server.ts): who is
\* told that the payment failed has not been charged, nor will be, unless the adapter
\* could not read what the PSP answered.
THEOREM FailuresAreTrue == Spec => []FailureIsTrue
<1>1. IInv => FailureIsTrue
  <2> SUFFICES ASSUME IInv, NEW a \in Request, answer[a].kind \in {"declined", "refused"},
                      answer[a].session \in Untouched,
                      answer[a].kind = "declined" => ~Unread(answer[a].session),
                      psp[answer[a].session].result = "charged"
               PROVE  FALSE
    BY DEF FailureIsTrue
  <2> DEFINE s == answer[a].session
  <2>1. Agreed(s) /\ Over(s)
    BY DEF IInv, Agreements, Refusals
  <2>2. PICK r \in Request : SessionOf[r] = s /\ call[r].result \in {"charged", "unread"}
    BY <2>1 DEF Agreed
  <2>3. call[r].result = "unread" /\ answer[a].kind # "refused"
    BY <2>1, <2>2 DEF Over, Failing
  <2> QED BY <2>2, <2>3 DEF Unread
<1> QED BY <1>1, Always, PTL

-----------------------------------------------------------------------------
(* One answer per key and body, while keys last.                           *)

\* No record expires, and no crash takes the records of memory stores.
KeysLast == "expiry" \notin Fault /\ (Durable \/ MaxCrashes = 0)

\* A record is of a request that has ended; while a handler runs there is none.
Recorded(r) ==
  /\ Handling(r) => cache[KeyOf[r]] = NoRequest
  /\ cache[KeyOf[r]] # NoRequest =>
       KeyOf[cache[KeyOf[r]]] = KeyOf[r] /\ pc[cache[KeyOf[r]]] = "ended"

\* Who joined a request has its body.
Joined(r) ==
  pc[r] = "joined" => SameBody(inFlight[KeyOf[r]], r)

\* What a request was told by a handler is on record.
Told(r) ==
  pc[r] = "ended" /\ answer[r].kind \in Returned =>
    /\ cache[KeyOf[r]] # NoRequest
    /\ SameBody(cache[KeyOf[r]], r)
    /\ answer[r] = answer[cache[KeyOf[r]]]

Records == \A r \in Request : Recorded(r) /\ Joined(r) /\ Told(r)

RInv == TypeOK /\ Flights /\ Records

LEMMA KindsDiffer == Returned \cap Thrown = {}
  BY DEF Returned, Thrown

LEMMA RecordOf ==
  ASSUME TypeOK, NEW r \in Request, cache[KeyOf[r]] # NoRequest
  PROVE  cache[KeyOf[r]] \in Request
  BY RequestAssumption DEF TypeOK

LEMMA BodiesCompose ==
  ASSUME NEW p, NEW q, NEW r
  PROVE  /\ SameBody(p, p) /\ (SameBody(p, q) => SameBody(q, p))
         /\ SameBody(p, q) /\ SameBody(q, r) => SameBody(p, r)
  BY DEF SameBody

LEMMA SaysKind == \A r, kind, row : Says(r, kind, row).kind = kind
  BY DEF Says

\* What a replay tells, if a handler told it, is the record's answer to one body.
LEMMA ReplaysTruly ==
  ASSUME NEW r \in Request, Replays(r).kind \in Returned
  PROVE  SameBody(cache[KeyOf[r]], r) /\ Replays(r) = answer[cache[KeyOf[r]]]
<1>1. Says(r, "reused", NoRow).kind \notin Returned
  BY SaysKind DEF Returned
<1> QED BY <1>1 DEF Replays

\* Requests that move on without an answer, or end with one that is not a handler's.
LEMMA MovesKeepRecords ==
  ASSUME RInv, UNCHANGED cache,
         \A q \in Request :
           /\ pc[q] = "ended" => pc'[q] = "ended" /\ answer'[q] = answer[q]
           /\ Handling(q)' => cache[KeyOf[q]] = NoRequest
           /\ pc'[q] = "joined" => SameBody(inFlight'[KeyOf[q]], q)
           /\ pc'[q] = "ended" /\ pc[q] # "ended" /\ answer'[q].kind \in Returned =>
                /\ cache[KeyOf[q]] # NoRequest
                /\ SameBody(cache[KeyOf[q]], q)
                /\ answer'[q] = answer[cache[KeyOf[q]]]
  PROVE  Records'
<1> SUFFICES ASSUME NEW r \in Request PROVE (Recorded(r) /\ Joined(r) /\ Told(r))'
  BY DEF Records
<1>0. Recorded(r) /\ Told(r)
  BY DEF RInv, Records
<1>1. Recorded(r)'
  BY <1>0, RecordOf DEF Recorded, RInv
<1>2. Joined(r)'
  BY DEF Joined, SameBody, Hash
<1>3. cache[KeyOf[r]] # NoRequest => answer'[cache[KeyOf[r]]] = answer[cache[KeyOf[r]]]
  BY <1>0, RecordOf DEF Recorded, RInv
<1>4. Told(r)'
  BY <1>0, <1>3 DEF Told, SameBody, Hash
<1> QED BY <1>1, <1>2, <1>4

\* Who ends with a request.
LEMMA SettleReaches ==
  ASSUME RInv, NEW r \in Request, InFlight(r), NEW a, Settle(r, a)
  PROVE  /\ \A q \in With(r) : pc'[q] = "ended" /\ answer'[q] = a /\ KeyOf[q] = KeyOf[r]
                                /\ SameBody(r, q) /\ pc[q] # "ended"
         /\ \A q \in Request \ With(r) : pc'[q] = pc[q] /\ answer'[q] = answer[q]
         /\ \A q \in Request \ With(r) : pc[q] = "joined" =>
              inFlight'[KeyOf[q]] = inFlight[KeyOf[q]]
<1>1. inFlight[KeyOf[r]] = r
  BY DEF RInv, Flights, Flight, InFlight
<1>2. ASSUME NEW q \in With(r)
      PROVE  q \in Request /\ KeyOf[q] = KeyOf[r] /\ SameBody(r, q) /\ pc[q] # "ended"
  <2>1. CASE q = r
    BY <2>1, BodiesCompose DEF InFlight, Handling
  <2>2. CASE pc[q] = "joined" /\ KeyOf[q] = KeyOf[r] /\ q \in Request
    BY <1>1, <2>2 DEF RInv, Records, Joined
  <2> QED BY <1>2, <2>1, <2>2 DEF With
<1>3. \A q \in With(r) : pc'[q] = "ended" /\ answer'[q] = a
  BY <1>2 DEF Settle
<1>4. \A q \in Request \ With(r) : pc'[q] = pc[q] /\ answer'[q] = answer[q]
  BY DEF Settle
<1>5. ASSUME NEW q \in Request \ With(r), pc[q] = "joined"
      PROVE  inFlight'[KeyOf[q]] = inFlight[KeyOf[q]]
  <2>1. KeyOf[q] # KeyOf[r] /\ KeyOf[q] \in Key
    BY <1>5, RequestAssumption DEF With
  <2> QED BY <2>1 DEF Settle, RInv, TypeOK
<1> QED BY <1>2, <1>3, <1>4, <1>5

\* The answer is an error, or the record's.
LEMMA SettleKeepsRecords ==
  ASSUME RInv, NEW r \in Request, InFlight(r), NEW a, Settle(r, a), UNCHANGED cache,
         a.kind \in Returned =>
           /\ cache[KeyOf[r]] # NoRequest
           /\ SameBody(cache[KeyOf[r]], r) /\ a = answer[cache[KeyOf[r]]]
  PROVE  Records'
<1>1. ASSUME NEW q \in Request
      PROVE  /\ pc[q] = "ended" => pc'[q] = "ended" /\ answer'[q] = answer[q]
             /\ Handling(q)' => cache[KeyOf[q]] = NoRequest
             /\ pc'[q] = "joined" => SameBody(inFlight'[KeyOf[q]], q)
             /\ pc'[q] = "ended" /\ pc[q] # "ended" /\ answer'[q].kind \in Returned =>
                  /\ cache[KeyOf[q]] # NoRequest
                  /\ SameBody(cache[KeyOf[q]], q)
                  /\ answer'[q] = answer[cache[KeyOf[q]]]
  <2>1. CASE q \in With(r)
    <3>1. /\ pc'[q] = "ended" /\ answer'[q] = a /\ KeyOf[q] = KeyOf[r]
          /\ SameBody(r, q) /\ pc[q] # "ended"
      BY <2>1, SettleReaches
    <3>2. ~Handling(q)'
      BY <3>1 DEF Handling
    <3> QED BY <3>1, <3>2, BodiesCompose
  <2>2. CASE q \notin With(r)
    <3>1. pc'[q] = pc[q] /\ answer'[q] = answer[q]
      BY <2>2, SettleReaches
    <3>2. pc[q] = "joined" => inFlight'[KeyOf[q]] = inFlight[KeyOf[q]]
      BY <2>2, SettleReaches
    <3>3. Recorded(q) /\ Joined(q)
      BY DEF RInv, Records
    <3>4. Handling(q)' => cache[KeyOf[q]] = NoRequest
      BY <3>1, <3>3 DEF Handling, Recorded
    <3>5. pc'[q] = "joined" => SameBody(inFlight'[KeyOf[q]], q)
      BY <3>1, <3>2, <3>3 DEF Joined
    <3> QED BY <3>1, <3>4, <3>5
  <2> QED BY <2>1, <2>2
<1> QED BY <1>1, MovesKeepRecords

LEMMA RecordKeepsRecords ==
  ASSUME RInv, NEW r \in Request, Record(r)
  PROVE  Records'
<1>0. pc[r] = "recording" /\ Settle(r, answer[r]) /\ cache' = [cache EXCEPT ![KeyOf[r]] = r]
  BY DEF Record
<1>1. Handling(r) /\ InFlight(r) /\ cache[KeyOf[r]] = NoRequest
  BY <1>0 DEF Handling, InFlight, RInv, Records, Recorded
<1>2. KeyOf[r] \in Key /\ NoRequest \notin Request /\ r \in With(r)
  BY RequestAssumption DEF With
<1>3. cache'[KeyOf[r]] = r /\ \A k \in Key \ {KeyOf[r]} : cache'[k] = cache[k]
  BY <1>0, <1>2 DEF RInv, TypeOK
<1>4. pc'[r] = "ended" /\ answer'[r] = answer[r]
  BY <1>0, <1>1, <1>2, SettleReaches
<1> SUFFICES ASSUME NEW q \in Request PROVE (Recorded(q) /\ Joined(q) /\ Told(q))'
  BY DEF Records
<1>5. CASE q \in With(r)
  <2>1. /\ pc'[q] = "ended" /\ answer'[q] = answer[r] /\ KeyOf[q] = KeyOf[r]
        /\ SameBody(r, q)
    BY <1>0, <1>1, <1>5, SettleReaches
  <2>2. Recorded(q)'
    BY <1>3, <1>4, <2>1 DEF Recorded, Handling
  <2>3. Told(q)'
    BY <1>2, <1>3, <1>4, <2>1 DEF Told, SameBody, Hash
  <2> QED BY <2>1, <2>2, <2>3 DEF Joined
<1>6. CASE q \notin With(r)
  <2>1. pc'[q] = pc[q] /\ answer'[q] = answer[q] /\ KeyOf[q] \in Key
    BY <1>0, <1>1, <1>6, SettleReaches, RequestAssumption
  <2>2. pc[q] = "joined" => inFlight'[KeyOf[q]] = inFlight[KeyOf[q]]
    BY <1>0, <1>1, <1>6, SettleReaches
  <2>3. Recorded(q) /\ Joined(q) /\ Told(q) /\ Flight(q) /\ Flight(r)
    BY DEF RInv, Records, Flights
  <2>4. Joined(q)'
    BY <2>1, <2>2, <2>3 DEF Joined, SameBody, Hash
  <2>5. CASE KeyOf[q] = KeyOf[r]
    <3>1. q # r
      BY <1>2, <1>6
    <3>2. ~Handling(q)'
      BY <1>1, <2>1, <2>3, <2>5, <3>1 DEF Flight, Handling
    <3>3. Recorded(q)'
      BY <1>3, <1>4, <2>5, <3>2 DEF Recorded
    <3>4. ~(pc'[q] = "ended" /\ answer'[q].kind \in Returned)
      BY <1>1, <2>1, <2>3, <2>5 DEF Told
    <3>5. Told(q)'
      BY <3>4 DEF Told
    <3> QED BY <2>4, <3>3, <3>5
  <2>6. CASE KeyOf[q] # KeyOf[r]
    <3>1. cache'[KeyOf[q]] = cache[KeyOf[q]]
      BY <1>3, <2>1, <2>6
    <3>2. cache[KeyOf[q]] # NoRequest =>
            /\ cache[KeyOf[q]] \in Request \ With(r)
            /\ pc'[cache[KeyOf[q]]] = "ended"
            /\ answer'[cache[KeyOf[q]]] = answer[cache[KeyOf[q]]]
      <4> SUFFICES ASSUME cache[KeyOf[q]] # NoRequest
                   PROVE  /\ cache[KeyOf[q]] \in Request \ With(r)
                          /\ pc'[cache[KeyOf[q]]] = "ended"
                          /\ answer'[cache[KeyOf[q]]] = answer[cache[KeyOf[q]]]
        OBVIOUS
      <4>1. cache[KeyOf[q]] \in Request
        BY RecordOf DEF RInv
      <4>2. pc[cache[KeyOf[q]]] = "ended"
        BY <2>3 DEF Recorded
      <4>3. cache[KeyOf[q]] \notin With(r)
        BY <1>0, <1>1, <4>2, SettleReaches
      <4> QED BY <1>0, <1>1, <4>1, <4>2, <4>3, SettleReaches
    <3>3. Recorded(q)'
      BY <2>1, <2>3, <3>1, <3>2 DEF Recorded, Handling
    <3>4. Told(q)'
      BY <2>1, <2>3, <3>1, <3>2 DEF Told, SameBody, Hash
    <3> QED BY <2>4, <3>3, <3>4
  <2> QED BY <2>5, <2>6
<1> QED BY <1>5, <1>6

\* A request that goes on, alone.
LEMMA GoingKeepsRecords ==
  ASSUME RInv, NEW r \in Request, NEW where \in Where \ {"joined", "ended"}, Goto(r, where),
         UNCHANGED <<cache, inFlight>>, pc[r] # "ended",
         \A q \in Request \ {r} : answer'[q] = answer[q],
         Handling(r) \/ cache[KeyOf[r]] = NoRequest
  PROVE  Records'
<1>0. pc'[r] = where /\ \A q \in Request \ {r} : pc'[q] = pc[q]
  BY GotoMoves DEF RInv
<1>1. \A q \in Request : Recorded(q) /\ Joined(q)
  BY DEF RInv, Records
<1>2. ASSUME NEW q \in Request
      PROVE  /\ pc[q] = "ended" => pc'[q] = "ended" /\ answer'[q] = answer[q]
             /\ Handling(q)' => cache[KeyOf[q]] = NoRequest
             /\ pc'[q] = "joined" => SameBody(inFlight'[KeyOf[q]], q)
             /\ ~(pc'[q] = "ended" /\ pc[q] # "ended")
  <2>1. CASE q = r
    BY <1>0, <1>1, <2>1 DEF Recorded
  <2>2. CASE q # r
    BY <1>0, <1>1, <2>2 DEF Recorded, Joined, Handling
  <2> QED BY <2>1, <2>2
<1> QED BY <1>2, MovesKeepRecords

LEMMA ArriveKeepsRecords ==
  ASSUME RInv, NEW r \in Request, Arrive(r)
  PROVE  Records'
<1>0. pc[r] = "idle" /\ KeyOf[r] \in Key /\ NoRequest \notin Request /\ cache' = cache
  BY RequestAssumption DEF Arrive
<1>1. \A q \in Request \ {r} : pc'[q] = pc[q] /\ answer'[q] = answer[q]
  BY GotoMoves DEF Arrive, Alone, Runs, RInv, TypeOK
<1>2. \A q \in Request : Recorded(q) /\ Joined(q) /\ Flight(q)
  BY DEF RInv, Records, Flights
<1>3. \A q \in Request \ {r} : pc[q] = "joined" => inFlight'[KeyOf[q]] = inFlight[KeyOf[q]]
  <2> SUFFICES ASSUME NEW q \in Request \ {r}, pc[q] = "joined"
               PROVE  inFlight'[KeyOf[q]] = inFlight[KeyOf[q]]
    OBVIOUS
  <2>1. KeyOf[q] \in Key /\ inFlight[KeyOf[q]] \in Request
    BY <1>2, RequestAssumption DEF Flight
  <2> QED BY <1>0, <2>1 DEF Arrive, Alone, RInv, TypeOK
<1>4. /\ Handling(r)' => cache[KeyOf[r]] = NoRequest
      /\ pc'[r] = "joined" =>
           /\ inFlight' = inFlight /\ inFlight[KeyOf[r]] # NoRequest
           /\ SameBody(inFlight[KeyOf[r]], r)
      /\ pc'[r] = "ended" /\ answer'[r].kind \in Returned =>
           /\ cache[KeyOf[r]] # NoRequest /\ answer'[r] = Replays(r)
  <2>0. Says(r, "reused", NoRow).kind \notin Returned
    BY SaysKind DEF Returned
  <2>1. \A where : Goto(r, where) => pc'[r] = where
    BY GotoMoves DEF RInv
  <2>2. \A a : Alone(r, a) => pc'[r] = "ended" /\ answer'[r] = a
    BY <2>1 DEF Alone, RInv, TypeOK
  <2>3. Runs(r) => pc'[r] \in {"policy", "get"}
    BY <2>1, FirstStepType DEF Runs
  <2> QED BY <2>0, <2>1, <2>2, <2>3 DEF Arrive, Handling
<1>6. ASSUME NEW q \in Request
      PROVE  /\ pc[q] = "ended" => pc'[q] = "ended" /\ answer'[q] = answer[q]
             /\ Handling(q)' => cache[KeyOf[q]] = NoRequest
             /\ pc'[q] = "joined" => SameBody(inFlight'[KeyOf[q]], q)
             /\ pc'[q] = "ended" /\ pc[q] # "ended" /\ answer'[q].kind \in Returned =>
                  /\ cache[KeyOf[q]] # NoRequest
                  /\ SameBody(cache[KeyOf[q]], q)
                  /\ answer'[q] = answer[cache[KeyOf[q]]]
  <2>1. CASE q = r
    BY <1>0, <1>4, <2>1, ReplaysTruly
  <2>2. CASE q # r
    BY <1>1, <1>2, <1>3, <2>2 DEF Recorded, Joined, Handling
  <2> QED BY <2>1, <2>2
<1> QED BY <1>0, <1>6, MovesKeepRecords

LEMMA RequestKeepsRecords ==
  ASSUME RInv, NEW r \in Request, Step(r)
  PROVE  Records'
<1>1. ASSUME InFlight(r), NEW kind \in Thrown, Throws(r, kind) PROVE Records'
  <2>1. Settle(r, Says(r, kind, NoRow)) /\ UNCHANGED cache
    BY <1>1 DEF Throws
  <2>2. Says(r, kind, NoRow).kind \notin Returned
    BY SaysKind, KindsDiffer
  <2> QED BY <1>1, <2>1, <2>2, SettleKeepsRecords
<1>2. ASSUME Handling(r), NEW kind, NEW row, Returns(r, kind, row) PROVE Records'
  <2>1. Goto(r, "recording") /\ UNCHANGED <<cache, inFlight>>
    BY <1>2 DEF Returns
  <2>2. \A q \in Request \ {r} : answer'[q] = answer[q]
    BY <1>2 DEF Returns, RInv, TypeOK
  <2>3. pc[r] # "ended" /\ "recording" \in Where \ {"joined", "ended"}
    BY <1>2 DEF Handling, Where
  <2> QED BY <1>2, <2>1, <2>2, <2>3, GoingKeepsRecords
<1>3. ASSUME Handling(r), NEW where \in Where \ {"joined", "ended"}, Goto(r, where),
             UNCHANGED <<answer, inFlight, cache>>
      PROVE  Records'
  <2>1. pc[r] # "ended"
    BY <1>3 DEF Handling
  <2> QED BY <1>3, <2>1, GoingKeepsRecords
<1>4. CASE KeyLocked(r)
  <2>0. pc[r] = "locking" /\ InFlight(r) /\ UNCHANGED cache
    BY <1>4 DEF KeyLocked, InFlight
  <2>1. CASE cache[KeyOf[r]] # NoRequest /\ Settle(r, Replays(r))
    BY <2>0, <2>1, ReplaysTruly, SettleKeepsRecords
  <2>2. CASE cache[KeyOf[r]] = NoRequest /\ Runs(r) /\ UNCHANGED <<answer, inFlight>>
    <3>1. FirstStep(r) \in Where \ {"joined", "ended"} /\ Goto(r, FirstStep(r))
      BY <2>2, FirstStepType DEF Runs
    <3> QED BY <2>0, <2>2, <3>1, GoingKeepsRecords
  <2> QED BY <1>4, <2>1, <2>2 DEF KeyLocked
<1>5. CASE LockFails(r)
  <2>1. InFlight(r) /\ Throws(r, "error")
    BY <1>5 DEF LockFails, InFlight, Handling
  <2> QED BY <1>1, <2>1 DEF Thrown
<1>6. CASE ResponseFails(r) \/ CaptureThrows(r)
  <2>1. InFlight(r) /\ Throws(r, "error")
    BY <1>6 DEF ResponseFails, CaptureThrows, InFlight, Handling
  <2> QED BY <1>1, <2>1 DEF Thrown
<1>7. CASE Get(r)
  <2>1. Handling(r) /\ InFlight(r)
    BY <1>7 DEF Get, InFlight, Handling
  <2>2. CASE Throws(r, "missing")
    BY <1>1, <2>1, <2>2 DEF Thrown
  <2>3. CASE ~Throws(r, "missing")
    <3>1. \E where \in {"claim", "policy"} :
            Goto(r, where) /\ UNCHANGED <<answer, inFlight, cache>>
      BY <1>7, <2>3 DEF Get
    <3> QED BY <1>3, <2>1, <3>1 DEF Where
  <2> QED BY <2>2, <2>3
<1>8. CASE Policy(r)
  <2>1. Handling(r) /\ InFlight(r)
    BY <1>8 DEF Policy, InFlight, Handling
  <2>2. CASE Throws(r, "error")
    BY <1>1, <2>1, <2>2 DEF Thrown
  <2>3. CASE Returns(r, "denied", NoRow)
    BY <1>2, <2>1, <2>3
  <2>4. CASE \E where \in {"claim", "put"} :
               Goto(r, where) /\ UNCHANGED <<answer, inFlight, cache>>
    BY <1>3, <2>1, <2>4 DEF Where
  <2> QED BY <1>8, <2>2, <2>3, <2>4 DEF Policy
<1>9. CASE Put(r) \/ Refuse(r)
  <2>1. Handling(r)
    BY <1>9 DEF Put, Refuse, Handling
  <2>2. \E kind, row : Returns(r, kind, row)
    BY <1>9 DEF Put, Refuse, Ends
  <2> QED BY <1>2, <2>1, <2>2
<1>10. CASE Claim(r)
  <2>1. Handling(r) /\ InFlight(r)
    BY <1>10 DEF Claim, InFlight, Handling
  <2>2. CASE Throws(r, "missing") \/ Throws(r, "conflict")
    BY <1>1, <2>1, <2>2 DEF Thrown
  <2>3. CASE Goto(r, "claimed") /\ UNCHANGED <<answer, inFlight, cache>>
    BY <1>3, <2>1, <2>3 DEF Where
  <2>4. CASE Returns(r, "cancelled", session[SessionOf[r]])
    BY <1>2, <2>1, <2>4
  <2> QED BY <1>10, <2>2, <2>3, <2>4 DEF Claim
<1>11. CASE Capture(r)
  <2>1. Handling(r) /\ Goto(r, "paying") /\ UNCHANGED <<answer, inFlight, cache>>
    BY <1>11 DEF Capture, Handling
  <2> QED BY <1>3, <2>1 DEF Where
<1>12. CASE CaptureReturns(r)
  <2>1. Handling(r) /\ InFlight(r)
    BY <1>12 DEF CaptureReturns, InFlight, Handling
  <2>2. CASE Throws(r, "error")
    BY <1>1, <2>1, <2>2 DEF Thrown
  <2>3. CASE \E kind, row : Returns(r, kind, row)
    BY <1>2, <2>1, <2>3
  <2> QED BY <1>12, <2>2, <2>3 DEF CaptureReturns, Ends
<1> QED BY <1>4, <1>5, <1>6, <1>7, <1>8, <1>9, <1>10, <1>11, <1>12, RecordKeepsRecords DEF Step

LEMMA StepKeepsRecords == KeysLast /\ RInv /\ [Next]_vars => RInv'
<1> SUFFICES ASSUME KeysLast, RInv, [Next]_vars PROVE RInv'
  OBVIOUS
<1>0. TypeOK' /\ Flights'
  BY TypesStay, FlightsStay DEF RInv
<1>1. ASSUME UNCHANGED <<cache, inFlight, pc, answer>> PROVE Records'
  <2>1. \A q \in Request : Recorded(q) /\ Joined(q)
    BY DEF RInv, Records
  <2>2. \A q \in Request :
          /\ Handling(q)' => cache[KeyOf[q]] = NoRequest
          /\ pc'[q] = "joined" => SameBody(inFlight'[KeyOf[q]], q)
    BY <1>1, <2>1 DEF Recorded, Joined, Handling
  <2> QED BY <1>1, <2>2, MovesKeepRecords
<1>2. ASSUME Crash PROVE Records'
  <2>1. cache' = cache /\ answer' = answer
    BY <1>2, StoreAssumption DEF Crash, KeysLast, RInv, TypeOK
  <2>2. \A q \in Request : /\ pc'[q] \in {"idle", "ended", "lost"}
                           /\ pc[q] = "ended" <=> pc'[q] = "ended"
    BY <1>2 DEF Crash
  <2>3. ASSUME NEW q \in Request
        PROVE  /\ ~Handling(q)' /\ pc'[q] # "joined"
               /\ pc[q] = "ended" => pc'[q] = "ended" /\ answer'[q] = answer[q]
               /\ ~(pc'[q] = "ended" /\ pc[q] # "ended")
    <3>1. pc'[q] \in {"idle", "ended", "lost"} /\ (pc[q] = "ended" <=> pc'[q] = "ended")
      BY <2>2
    <3> QED BY <2>1, <3>1 DEF Handling
  <2> QED BY <2>1, <2>3, MovesKeepRecords
<1>3. ASSUME NEW k \in Key, Expire(k) PROVE FALSE
  BY <1>3 DEF Expire, KeysLast
<1>4. ASSUME NEW r \in Request, PspActs(r) \/ AnswerUnread(r) \/ PspSettles(r) PROVE Records'
  <2>1. UNCHANGED <<cache, inFlight, pc, answer>>
    BY <1>4 DEF PspActs, AnswerUnread, PspSettles
  <2> QED BY <1>1, <2>1
<1>5. ASSUME NEW l \in Key \cup {StoreLock}, GoesStale(l) PROVE Records'
  <2>1. UNCHANGED <<cache, inFlight, pc, answer>>
    BY <1>5 DEF GoesStale
  <2> QED BY <1>1, <2>1
<1>6. ASSUME UNCHANGED vars PROVE Records'
  <2>1. UNCHANGED <<cache, inFlight, pc, answer>>
    BY <1>6 DEF vars
  <2> QED BY <1>1, <2>1
<1>7. ASSUME NEW r \in Request, Arrive(r) \/ Step(r) PROVE Records'
  BY <1>7, ArriveKeepsRecords, RequestKeepsRecords
<1>8. Records'
  BY <1>2, <1>3, <1>4, <1>5, <1>6, <1>7 DEF Next
<1> QED BY <1>0, <1>8 DEF RInv

\* remember() of both idempotency stores (merchant/src/checkout): as long as no record
\* expires or is lost with the process, two requests with one key and one body that
\* a handler answered were told the same, whoever ran, joined or was replayed.
THEOREM AnswersAreOne ==
  ASSUME KeysLast
  PROVE  Spec => []AnswersAgree
<1>1. Init => RInv
  <2> SUFFICES ASSUME Init PROVE RInv
    OBVIOUS
  <2>1. TypeOK
    BY InitTypes
  <2>2. Flights
    BY DEF Init, Flights, Flight, Handling
  <2>3. \A r \in Request : pc[r] = "idle" /\ cache[KeyOf[r]] = NoRequest
    BY RequestAssumption DEF Init
  <2>4. Records
    BY <2>3 DEF Records, Recorded, Joined, Told, Handling
  <2> QED BY <2>1, <2>2, <2>4 DEF RInv
<1>2. RInv => AnswersAgree
  <2> SUFFICES ASSUME RInv, NEW q \in Request, NEW r \in Request, KeyOf[q] = KeyOf[r],
                      pc[q] = "ended", pc[r] = "ended",
                      answer[q].kind \in Returned, answer[r].kind \in Returned
               PROVE  answer[q] = answer[r]
    BY DEF AnswersAgree
  <2> QED BY DEF RInv, Records, Told
<1>3. RInv /\ [Next]_vars => RInv'
  BY StepKeepsRecords
<1> QED BY <1>1, <1>2, <1>3, PTL DEF Spec
=============================================================================
