---------------------------- MODULE CardSettlements ----------------------------
(***************************************************************************)
(* Settlement of virtual cards: Stripe delivers what happened to a card to *)
(* the webhook event bus, at least once and in any order, and the agent    *)
(* acknowledges an event to the policy engine, which looks it up on the    *)
(* bus and amends the audit entry of the card's credential with it.        *)
(*                                                                         *)
(* The bus and the engine's credentials are in the memory of one process.  *)
(* What an acknowledgement does to the policy snapshots is in PolicyEngine *)
(* and how an amendment reaches the file in AuditChain.                    *)
(***************************************************************************)
EXTENDS Integers, Sequences, FiniteSets, SequencesExt

CONSTANTS
  Event,        \* what Stripe has to tell: id, card (or "none"), created, type, approved
  Credential,   \* public credential ids
  CardOf,       \* CardOf[c]: the card minted for credential c
  Ack,          \* calls of ackSettlement
  Acks,         \* Acks[a]: the credential and the event id that call a names
  MaxDeliveries, MaxRestarts

Card == {CardOf[c] : c \in Credential}

SettlementAssumption ==
  /\ CardOf \in [Credential -> {e.card : e \in Event}] /\ IsInjective(CardOf)
  /\ \A a \in Ack : Acks[a] \in [credential : Credential, event : {e.id : e \in Event}]
  /\ \A e, f \in Event : e.id = f.id => e = f

VARIABLES
  bus,          \* bus[k]: the events of card k in the order their ids came
  credential,   \* credential[c]: "none", "minted", "audited" once its entry's hash is
                \* attached, or "gone" with the process
  log,          \* the amendments in the audit log
  call,         \* call[a]: where call a is, and what it observed
  due,          \* calls made when their event was on the bus and the entry's hash attached
  deliveries, restarts

vars == <<bus, credential, log, call, due, deliveries, restarts>>
--------------------------------------------------------------------------------
kinds == "issuing_authorization.created" :> "authorized" @@ "issuing_authorization.request" :> "authorized"
           @@ "issuing_transaction.created" :> "captured" @@ "issuing_card.updated" :> "cancelled"
IsAuthorization(type) ==
  type \in {"issuing_authorization.created", "issuing_authorization.request", "issuing_authorization.updated"}

kindFor(e) ==
  IF IsAuthorization(e.type) /\ ~e.approved THEN "declined"
  ELSE IF e.type \in DOMAIN kinds THEN kinds[e.type] ELSE "authorized"

normalizeEvent(e) == [event_id |-> e.id, ts |-> e.created, kind |-> kindFor(e)]

\* sort((a, b) => a.created - b.created || a.id.localeCompare(b.id)); ids are numbers here.
Earlier(e, f) == e.created < f.created \/ (e.created = f.created /\ e.id <= f.id)
eventsFor(k) ==
  LET sorted == SortSeq(bus[k], Earlier)
  IN [n \in DOMAIN sorted |-> normalizeEvent(sorted[n])]

\* settlementEventsFor: observe yields the card's events, one id is kept.
settlementEventsFor(c, id) == SelectSeq(eventsFor(CardOf[c]), LAMBDA s : s.event_id = id)

Idle == [at |-> "idle", events |-> <<>>]
At(a, at) == call' = [call EXCEPT ![a].at = at]

Init ==
  /\ bus = [k \in Card |-> <<>>] /\ credential = [c \in Credential |-> "none"]
  /\ log = <<>> /\ call = [a \in Ack |-> Idle] /\ due = {}
  /\ deliveries = 0 /\ restarts = 0
--------------------------------------------------------------------------------
\* The webhook delivers an event.  One that names no card is dropped, and one
\* that the bus has keeps the place of the first.
ingest(e) ==
  /\ deliveries < MaxDeliveries /\ deliveries' = deliveries + 1
  /\ bus' = IF e.card \in Card /\ e \notin ToSet(bus[e.card])
            THEN [bus EXCEPT ![e.card] = Append(@, e)] ELSE bus
  /\ UNCHANGED <<credential, log, call, due, restarts>>

\* The engine records a credential it minted, and after its audit entry is
\* written attaches the hash.  An entry that fails leaves it without.
mintCredential(c) ==
  /\ credential[c] = "none"
  /\ credential' = [credential EXCEPT ![c] = "minted"]
  /\ UNCHANGED <<bus, log, call, due, deliveries, restarts>>

attachCredentialAuditHash(c) ==
  /\ credential[c] = "minted"
  /\ credential' = [credential EXCEPT ![c] = "audited"]
  /\ UNCHANGED <<bus, log, call, due, deliveries, restarts>>

Known(c) == credential[c] \in {"minted", "audited"}

\* ackSettlement of a credential the engine has not: the call throws.  Otherwise
\* it waits for the rail's ackSettlement, which does nothing.
ackSettlement(a) ==
  LET c == Acks[a].credential
      Found == Known(c) /\ credential[c] = "audited" /\ settlementEventsFor(c, Acks[a].event) # <<>>
  IN /\ call[a].at = "idle"
     /\ At(a, IF Known(c) THEN "asked" ELSE "not_found")
     /\ due' = IF Found THEN due \cup {a} ELSE due
     /\ UNCHANGED <<bus, credential, log, deliveries, restarts>>

observe(a) ==
  /\ call[a].at = "asked"
  /\ call' = [call EXCEPT ![a] =
                [at |-> "observed", events |-> settlementEventsFor(Acks[a].credential, Acks[a].event)]]
  /\ UNCHANGED <<bus, credential, log, due, deliveries, restarts>>

\* The amendment, when there is an entry to amend and an event to add to it.
amend(a) ==
  LET c == Acks[a].credential
  IN /\ call[a].at = "observed"
     /\ log' = IF credential[c] = "audited" /\ call[a].events # <<>>
               THEN Append(log, [credential |-> c, settlement_events |-> call[a].events]) ELSE log
     /\ At(a, "amended")
     /\ UNCHANGED <<bus, credential, due, deliveries, restarts>>

answer(a) ==
  /\ call[a].at = "amended" /\ At(a, "ok")
  /\ UNCHANGED <<bus, credential, log, due, deliveries, restarts>>

\* The write fails: the call throws.
amendFails(a) ==
  /\ call[a].at = "observed" /\ credential[Acks[a].credential] = "audited" /\ call[a].events # <<>>
  /\ At(a, "failed")
  /\ UNCHANGED <<bus, credential, log, due, deliveries, restarts>>

\* A restart forgets bus and credentials, and the calls under way end.
restart ==
  /\ restarts < MaxRestarts /\ restarts' = restarts + 1
  /\ bus' = [k \in Card |-> <<>>] /\ credential' = [c \in Credential |-> IF Known(c) THEN "gone" ELSE credential[c]]
  /\ call' = [a \in Ack |-> IF call[a].at \in {"asked", "observed", "amended"} THEN [Idle EXCEPT !.at = "failed"] ELSE call[a]]
  /\ UNCHANGED <<log, due, deliveries>>

Next ==
  \/ \E e \in Event : ingest(e)
  \/ \E c \in Credential : mintCredential(c) \/ attachCredentialAuditHash(c)
  \/ \E a \in Ack : ackSettlement(a) \/ observe(a) \/ amend(a) \/ amendFails(a) \/ answer(a)
  \/ restart
--------------------------------------------------------------------------------
Amenders(c, id) ==
  {a \in Ack : Acks[a].credential = c /\ Acks[a].event = id /\ call[a].at \in {"amended", "ok", "failed"}}
Amendments(c, id) ==
  {n \in DOMAIN log : log[n].credential = c /\ id \in {s.event_id : s \in ToSet(log[n].settlement_events)}}

\* However often and in whatever order the events of a card are delivered
\* (observe.ts), and however acknowledgements meet deliveries, restarts and
\* failed writes: an amendment holds one event, of its credential's card; no
\* acknowledgement is logged twice; and one that was made of a delivered event
\* and answered is in the log.
SettledAsDelivered ==
  /\ \A n \in DOMAIN log :
       /\ Len(log[n].settlement_events) = 1
       /\ \E e \in Event : /\ e.card = CardOf[log[n].credential]
                           /\ log[n].settlement_events = <<normalizeEvent(e)>>
  /\ \A a \in Ack :
       LET c == Acks[a].credential
           id == Acks[a].event
       IN /\ Cardinality(Amendments(c, id)) <= Cardinality(Amenders(c, id))
          /\ call[a].at = "ok" /\ a \in due => Amendments(c, id) # {}
================================================================================
