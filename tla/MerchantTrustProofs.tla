------------------------- MODULE MerchantTrustProofs -------------------------
(***************************************************************************)
(* What a merchant takes a buyer's word for.  Signatures: that what is     *)
(* accepted is what was signed, that a rotation of the sender's keys is    *)
(* seen in time, and that unknown keys cost one fetch per lifetime of an   *)
(* entry, for any requests, keys, ages, limits and bounds.  Mandates: that *)
(* a charge is for terms the buyer signed, and that a locked checkout's    *)
(* mandate lets one completion through, for any checkouts, terms,          *)
(* attempts, lifetimes and bounds.  MCP: that exchanges are of requests    *)
(* and responses as they were signed, for any exchanges and sessions.      *)
(*                                                                         *)
(* Mandates and the MCP endpoint are systems of their own; their constants *)
(* and variables are declared in their sections, and their definitions are *)
(* those of the instances Mandates and Mcp.                                *)
(***************************************************************************)
EXTENDS ProfileCache, TLAPS

(***************************************************************************)
(* The cache of profiles and the signatures                                *)
(***************************************************************************)

\* The longest time a key that joined or left the profile goes unseen.
Lag == MaxTtl + FetchMax

\* Keys of the profile at the time t: what it has gained or lost since, it has after t.
Agrees(kids, t) == \A k \in Kid : (k \in kids) # (k \in published) => t <= since[k]

Entry == [kids : SUBSET Kid, expires : Nat]
Profile == [kids : SUBSET Kid, expires : Nat, served : BOOLEAN]
Steps == {"idle", "fetching", "looking", "forcing", "done"}

TypeOK ==
  /\ clock \in Nat /\ published \in SUBSET Kid
  /\ since \in [Kid -> Nat] /\ \A k \in Kid : since[k] <= clock
  /\ entry \in Entry /\ blocked \in Nat
  /\ DOMAIN wire = Request
  /\ step \in [Request -> Steps]
  /\ started \in [Request -> [lookup : Nat, fetch : Nat]]
  /\ got \in [Request -> Profile]
  /\ verdict \in [Request -> [code : Judged \cup {"none", "other"}, at : Nat]]

EntryFresh == entry.expires <= clock + MaxTtl /\ Agrees(entry.kids, entry.expires - Lag)

\* Another refresh is barred until the last window in which one was forced is over.
Barred == \A e \in forced : e \in Nat /\ e <= blocked

\* What the merchant acts on is what was signed.
AsSigned(w) ==
  w.altered \cap {"@method", "@authority", "@path", "body", "idempotency-key", "ucp-agent"} = {}

\* What the parts of a request that were changed on the way are: a body that was
\* taken away had a digest, which its signer covered, and a request that changes
\* nothing has no use for an idempotency key.
Sent(w) ==
  /\ "body" \in w.altered /\ ~w.body => "content-digest" \in w.covers
  /\ "idempotency-key" \in w.altered => isMutatingMethod(w.method) \/ "idempotency-key" \in w.covers

RequestsSent == \A r \in Request : \A w \in Wires(r) : Sent(w)

\* A fetch under way, and the answer it has.
Fetching(r) ==
  /\ started[r].lookup <= started[r].fetch /\ started[r].fetch <= clock
  /\ clock <= started[r].fetch + FetchMax
  /\ got[r].served => /\ 0 < got[r].expires /\ got[r].expires <= MaxTtl
                      /\ Agrees(got[r].kids, started[r].fetch)

\* The keys a request looks for its own in have not expired.
Looking(r) ==
  /\ started[r].lookup <= clock /\ clock < got[r].expires /\ got[r].expires <= clock + MaxTtl
  /\ Agrees(got[r].kids, got[r].expires - Lag)

Asking(r) == wire[r] \in Wires(r) /\ beforeKey(wire[r]) = "ok"

Judgement(r) ==
  LET k == wire[r].kid IN
    /\ verdict[r].at <= clock
    /\ verdict[r].code = "ok" =>
         k \in Kid /\ (k \notin published => verdict[r].at - Lag <= since[k])
         /\ (RequestsSent => AsSigned(wire[r]))
    /\ verdict[r].code = "key_not_found" /\ k \in published => verdict[r].at - Lag <= since[k]

Sound(r) ==
  /\ step[r] # "done" => verdict[r].code = "none"
  /\ step[r] = "idle" => ~got[r].served
  /\ step[r] \in {"fetching", "looking", "forcing"} => Asking(r)
  /\ step[r] \in {"fetching", "forcing"} => Fetching(r)
  /\ step[r] = "looking" => Looking(r)
  /\ Judgement(r)

IInv == TypeOK /\ EntryFresh /\ Barred /\ \A r \in Request : Sound(r)

-------------------------------------------------------------------------------
(* Signatures.                                                             *)

LEMMA LeastOfThree ==
  ASSUME NEW F \in SUBSET (1..3), F # {}
  PROVE  (CHOOSE i \in F : \A j \in F : i <= j) \in F
<1>1. \E i \in F : \A j \in F : i <= j
  <2>1. CASE 1 \in F
    BY <2>1
  <2>2. CASE 1 \notin F /\ 2 \in F
    BY <2>2
  <2>3. CASE 1 \notin F /\ 2 \notin F
    <3>1. \A j \in F : j = 1 \/ j = 2 \/ j = 3
      OBVIOUS
    <3>2. 3 \in F /\ \A j \in F : j = 3
      BY <2>3, <3>1
    <3> QED BY <3>2
  <2> QED BY <2>1, <2>2, <2>3
<1> QED BY <1>1

\* A request is refused before its key is looked up for one of three reasons.
LEMMA BeforeKey ==
  ASSUME NEW w
  PROVE  /\ beforeKey(w) \in {"ok", "signature_missing", "signature_invalid", "digest_mismatch"}
         /\ beforeKey(w) = "ok" =>
              /\ w.syntax \notin {"absent", "no_signature"} /\ ~missingMandatoryHeader(w)
              /\ ~missingRequiredComponent(w) /\ verifyContentDigest(w)
<1> DEFINE checks == checksBeforeKey(w)
           failing == {i \in DOMAIN checks : checks[i].fails}
           first == CHOOSE i \in failing : \A j \in failing : i <= j
<1>1. /\ DOMAIN checks = 1..3
      /\ checks[1].reason = "signature_missing" /\ checks[2].reason = "signature_invalid"
      /\ checks[3].reason = "digest_mismatch"
  BY DEF checksBeforeKey
<1>2. /\ checks[1].fails <=> w.syntax \in {"absent", "no_signature"}
      /\ checks[2].fails <=> \/ ~parseSignatureInput(w) \/ ~parseSignature(w) \/ missingMandatoryHeader(w)
                             \/ ~parseUcpAgentProfileUrl(w) \/ missingRequiredComponent(w)
      /\ checks[3].fails <=> ~verifyContentDigest(w)
  BY DEF checksBeforeKey
<1>3. beforeKey(w) = IF failing = {} THEN "ok" ELSE checks[first].reason
  BY DEF beforeKey, firstFailing
<1> HIDE DEF checks
<1>4. CASE failing = {}
  <2>1. ~checks[1].fails /\ ~checks[2].fails /\ ~checks[3].fails
    BY <1>1, <1>4
  <2> QED BY <1>2, <1>3, <1>4, <2>1
<1>5. CASE failing # {}
  <2>1. failing \in SUBSET (1..3)
    BY <1>1
  <2>2. first \in failing
    BY <1>5, <2>1, LeastOfThree
  <2> HIDE DEF first
  <2>3. first \in 1..3
    BY <2>1, <2>2
  <2> HIDE DEF failing
  <2>4. first = 1 \/ first = 2 \/ first = 3
    BY <2>3
  <2>5. checks[first].reason \in {"signature_missing", "signature_invalid", "digest_mismatch"}
    BY <1>1, <2>4
  <2> QED BY <1>3, <1>5, <2>5
<1> QED BY <1>4, <1>5

\* A request that verifies is, in what the merchant acts on, the one that was signed.
LEMMA VerifiedIsSigned ==
  ASSUME NEW w \in Wire, Sent(w), beforeKey(w) = "ok", NEW found \in BOOLEAN, afterKey(w, found) = "ok"
  PROVE  found /\ AsSigned(w)
<1>1. found /\ buildSignatureBase(w) /\ ecdsaVerifyRaw(w)
  BY DEF afterKey
<1>2. /\ mandatoryHeaders(w) \subseteq w.headers /\ ucpRequestComponents(w) \subseteq w.covers
      /\ verifyContentDigest(w)
  BY BeforeKey DEF missingMandatoryHeader, missingRequiredComponent
<1>3. {"@method", "@authority", "@path", "ucp-agent"} \cap w.altered = {}
  BY <1>1, <1>2 DEF ucpRequestComponents, ecdsaVerifyRaw
<1>4. "idempotency-key" \notin w.altered
  <2>1. isMutatingMethod(w.method) => "idempotency-key" \in w.covers
    BY <1>2 DEF ucpRequestComponents
  <2> QED BY <1>1, <2>1 DEF Sent, ecdsaVerifyRaw
<1>5. "body" \notin w.altered
  <2> SUFFICES ASSUME "body" \in w.altered PROVE FALSE
    OBVIOUS
  <2>1. "content-digest" \in w.covers
    BY <1>2 DEF Sent, ucpRequestComponents
  <2>2. "content-digest" \in w.headers
    BY <1>1, <2>1 DEF buildSignatureBase, componentValue, Derived
  <2>3. "content-digest" \in w.altered
    BY <1>2, <2>2 DEF verifyContentDigest
  <2> QED BY <1>1, <2>1, <2>3 DEF ecdsaVerifyRaw
<1> QED BY <1>1, <1>3, <1>4, <1>5 DEF AsSigned

-------------------------------------------------------------------------------
(* What a key's rotation and the passing of time leave as it was.          *)

LEMMA TtlIs ==
  ASSUME ProfileAssumption, NEW age \in MaxAge
  PROVE  /\ profileCacheTtlMs(age) \in Nat
         /\ 0 < profileCacheTtlMs(age) /\ profileCacheTtlMs(age) <= MaxTtl
  BY DEF ProfileAssumption, profileCacheTtlMs

LEMMA LagIs == ASSUME ProfileAssumption PROVE Lag \in Nat /\ MaxTtl \in Nat /\ FetchMax \in Nat
  BY DEF ProfileAssumption, Lag

\* The host's keys change, now.
Rotates ==
  /\ UNCHANGED <<clock, entry, blocked, wire, step, started, got, verdict, forced>>
  /\ \E k \in Kid :
       /\ since' = [since EXCEPT ![k] = clock]
       /\ published' \in SUBSET Kid
       /\ \A l \in Kid \ {k} : l \in published' <=> l \in published

LEMMA RotationRotates == ASSUME TypeOK, NEW k \in Kid, publish(k) \/ revoke(k) PROVE Rotates
  BY DEF publish, revoke, Rotates, TypeOK

LEMMA AgreesAfterRotation ==
  ASSUME TypeOK, Rotates, NEW kids, NEW t \in Int, t <= clock, Agrees(kids, t)
  PROVE  Agrees(kids, t)'
<1>1. PICK k \in Kid : /\ since' = [since EXCEPT ![k] = clock]
                       /\ \A l \in Kid \ {k} : l \in published' <=> l \in published
  BY DEF Rotates
<1>2. since'[k] = clock /\ \A l \in Kid \ {k} : since'[l] = since[l]
  BY <1>1 DEF TypeOK
<1> QED BY <1>1, <1>2 DEF Agrees

LEMMA RotationKeeps == ASSUME ProfileAssumption, IInv, Rotates PROVE IInv'
<1> USE DEF IInv
<1>0. /\ UNCHANGED <<clock, entry, blocked, wire, step, started, got, verdict, forced>>
      /\ clock \in Nat /\ entry \in Entry
      /\ started \in [Request -> [lookup : Nat, fetch : Nat]] /\ got \in [Request -> Profile]
      /\ verdict \in [Request -> [code : Judged \cup {"none", "other"}, at : Nat]]
      /\ since \in [Kid -> Nat]
  BY DEF Rotates, TypeOK
<1>1. PICK k \in Kid : /\ since' = [since EXCEPT ![k] = clock]
                       /\ \A l \in Kid \ {k} : l \in published' <=> l \in published
  BY DEF Rotates
<1>2. since'[k] = clock /\ \A l \in Kid \ {k} : since'[l] = since[l]
  BY <1>0, <1>1
<1>3. TypeOK'
  <2>1. since' \in [Kid -> Nat]
    BY <1>0, <1>1
  <2>2. \A l \in Kid : since'[l] <= clock
    BY <1>0, <1>2 DEF TypeOK
  <2> QED BY <1>0, <2>1, <2>2 DEF TypeOK, Rotates
<1>4. EntryFresh'
  <2>1. entry.expires - Lag \in Int /\ entry.expires - Lag <= clock
    BY <1>0, LagIs DEF EntryFresh, Entry, Lag
  <2>2. Agrees(entry.kids, entry.expires - Lag)'
    <3>1. PICK K, t : t \in Int /\ K = entry.kids /\ t = entry.expires - Lag
      BY <2>1
    <3>2. Agrees(K, t)'
      BY <2>1, <3>1, AgreesAfterRotation DEF EntryFresh
    <3> QED BY <1>0, <3>1, <3>2 DEF Agrees, Lag
  <2> QED BY <1>0, <2>2 DEF EntryFresh
<1>5. Barred'
  BY <1>0 DEF Barred
<1>6. ASSUME NEW r \in Request PROVE Sound(r)'
  <2>0. /\ Sound(r) /\ started[r] \in [lookup : Nat, fetch : Nat] /\ got[r] \in Profile
        /\ verdict[r] \in [code : Judged \cup {"none", "other"}, at : Nat]
    BY <1>0
  <2>1. Asking(r) => Asking(r)'
    BY <1>0 DEF Asking
  <2>2. Fetching(r) => Fetching(r)'
    <3> SUFFICES ASSUME Fetching(r) PROVE Fetching(r)'
      OBVIOUS
    <3>1. PICK K, t : t \in Int /\ K = got[r].kids /\ t = started[r].fetch
      BY <2>0
    <3>2. t <= clock /\ (got[r].served => Agrees(K, t))
      BY <3>1 DEF Fetching
    <3>3. got[r].served => Agrees(K, t)'
      BY <3>1, <3>2, AgreesAfterRotation
    <3>4. got[r].served => Agrees(got[r].kids, started[r].fetch)'
      BY <1>0, <3>1, <3>3 DEF Agrees
    <3> QED BY <1>0, <3>4 DEF Fetching
  <2>3. Looking(r) => Looking(r)'
    <3> SUFFICES ASSUME Looking(r) PROVE Looking(r)'
      OBVIOUS
    <3>1. PICK K, t : t \in Int /\ K = got[r].kids /\ t = got[r].expires - Lag
      BY <2>0, LagIs DEF Profile
    <3>2. t <= clock /\ Agrees(K, t)
      BY <1>0, <2>0, <3>1, LagIs DEF Looking, Profile, Lag
    <3>3. Agrees(K, t)'
      BY <3>1, <3>2, AgreesAfterRotation
    <3>4. Agrees(got[r].kids, got[r].expires - Lag)'
      BY <1>0, <3>1, <3>3 DEF Agrees, Lag
    <3> QED BY <1>0, <3>4 DEF Looking
  <2>4. Judgement(r)'
    <3>1. verdict[r].at \in Nat /\ verdict[r].at <= clock /\ verdict[r].at - Lag <= clock
      BY <1>0, <2>0, LagIs DEF Sound, Judgement
    <3>2. PICK l : l = wire[r].kid
      OBVIOUS
    <3>3. CASE l = k
      BY <1>0, <1>2, <2>0, <3>1, <3>2, <3>3 DEF Sound, Judgement, Lag
    <3>4. CASE l \in Kid /\ l # k
      BY <1>0, <1>1, <1>2, <2>0, <3>1, <3>2, <3>4 DEF Sound, Judgement, Lag
    <3>5. CASE l \notin Kid
      <4>1. l \notin published /\ l \notin published'
        BY <3>5 DEF TypeOK, Rotates
      <4> QED BY <1>0, <2>0, <3>1, <3>2, <3>5, <4>1 DEF Sound, Judgement
    <3> QED BY <3>3, <3>4, <3>5
  <2> QED BY <1>0, <2>0, <2>1, <2>2, <2>3, <2>4 DEF Sound
<1> QED BY <1>3, <1>4, <1>5, <1>6

\* Time passes while no fetch is too old and nobody looks for a key.
LEMMA TickKeeps == ASSUME ProfileAssumption, IInv, tick PROVE IInv'
<1> USE DEF IInv
<1>1. /\ UNCHANGED <<published, since, entry, blocked, wire, step, started, got, verdict, forced>>
      /\ clock \in Nat /\ clock' = clock + 1 /\ clock' \in Nat
  BY DEF tick, TypeOK
<1>2. TypeOK'
  BY <1>1 DEF TypeOK
<1>3. EntryFresh'
  BY <1>1, LagIs DEF EntryFresh, Agrees, TypeOK, Entry, Lag
<1>4. Barred'
  BY <1>1 DEF Barred
<1>5. ASSUME NEW r \in Request PROVE Sound(r)'
  <2>1. /\ Sound(r) /\ started[r] \in [lookup : Nat, fetch : Nat] /\ got[r] \in Profile
        /\ verdict[r] \in [code : Judged \cup {"none", "other"}, at : Nat]
    BY DEF TypeOK
  <2>2. step[r] # "looking" /\ (step[r] \in {"fetching", "forcing"} => clock < started[r].fetch + FetchMax)
    BY DEF tick
  <2>3. step[r] \in {"fetching", "forcing"} => Fetching(r)'
    BY <1>1, <2>1, <2>2, LagIs DEF Sound, Fetching, Agrees
  <2>4. Judgement(r)'
    BY <1>1, <2>1 DEF Sound, Judgement, Lag
  <2> QED BY <1>1, <2>1, <2>2, <2>3, <2>4 DEF Sound, Asking
<1> QED BY <1>2, <1>3, <1>4, <1>5

-------------------------------------------------------------------------------
(* The steps of a request.                                                 *)

\* A step of request r at the merchant, which another request does not notice.
OfRequest(r) ==
  /\ UNCHANGED <<clock, published, since>>
  /\ \A q \in Request \ {r} :
       /\ wire'[q] = wire[q] /\ step'[q] = step[q] /\ started'[q] = started[q]
       /\ got'[q] = got[q] /\ verdict'[q] = verdict[q]

LEMMA OthersSound ==
  ASSUME NEW r \in Request, OfRequest(r), NEW q \in Request \ {r}, Sound(q)
  PROVE  Sound(q)'
  BY DEF OfRequest, Sound, Asking, Fetching, Looking, Judgement, Agrees, Lag

\* What the step of r has to keep.
LEMMA RequestKeeps ==
  ASSUME IInv, NEW r \in Request, OfRequest(r), TypeOK', EntryFresh', Barred', Sound(r)'
  PROVE  IInv'
<1>1. \A q \in Request \ {r} : Sound(q)'
  BY OthersSound DEF IInv
<1> QED BY <1>1 DEF IInv

\* Leaving authentication.
LEMMA AnswerSound ==
  ASSUME ProfileAssumption, TypeOK, NEW r \in Request, NEW w, NEW code, Answered(r, w, code),
         UNCHANGED <<clock, published, since>>, entry' \in Entry, blocked' \in Nat,
         code = "ok" =>
           w.kid \in Kid /\ (w.kid \notin published => clock - Lag <= since[w.kid])
           /\ (RequestsSent => AsSigned(w)),
         code = "key_not_found" /\ w.kid \in published => clock - Lag <= since[w.kid]
  PROVE  TypeOK' /\ OfRequest(r) /\ Sound(r)'
<1>1. /\ step'[r] = "done"
      /\ started'[r] = NotStarted /\ got'[r] = Nothing
      /\ code \in Judged => wire'[r] = w /\ verdict'[r] = [code |-> code, at |-> clock]
      /\ code \notin Judged => wire'[r] = NoWire /\ verdict'[r] = [code |-> "other", at |-> 0]
  BY DEF Answered, TypeOK
<1>2. OfRequest(r)
  BY DEF Answered, TypeOK, OfRequest
<1>3. TypeOK'
  <2>1. Nothing \in Profile /\ NotStarted \in [lookup : Nat, fetch : Nat]
    BY DEF Nothing, NotStarted, Profile
  <2>2. DOMAIN wire' = Request /\ step' \in [Request -> Steps] /\ got' \in [Request -> Profile]
        /\ started' \in [Request -> [lookup : Nat, fetch : Nat]]
    BY <2>1 DEF Answered, TypeOK, Steps
  <2>3. \E v \in [code : Judged \cup {"none", "other"}, at : Nat] : verdict' = [verdict EXCEPT ![r] = v]
    <3>1. CASE code \in Judged
      BY <3>1 DEF Answered, TypeOK
    <3>2. CASE code \notin Judged
      BY <3>2 DEF Answered, TypeOK
    <3> QED BY <3>1, <3>2
  <2>4. verdict' \in [Request -> [code : Judged \cup {"none", "other"}, at : Nat]]
    BY <2>3 DEF TypeOK
  <2> QED BY <2>2, <2>4 DEF TypeOK
<1>4. Judgement(r)'
  <2>1. CASE code \in Judged
    BY <1>1, <2>1 DEF Judgement, TypeOK, Lag
  <2>2. CASE code \notin Judged
    BY <1>1, <2>2 DEF Judgement, TypeOK
  <2> QED BY <2>1, <2>2
<1> QED BY <1>1, <1>2, <1>3, <1>4 DEF Sound

LEMMA AuthenticateKeeps ==
  ASSUME ProfileAssumption, IInv, NEW r \in Request, NEW w \in Wires(r), authenticateUcpRequest(r, w)
  PROVE  IInv'
<1>0. /\ TypeOK /\ Sound(r) /\ step[r] = "idle" /\ EntryFresh /\ Barred
      /\ UNCHANGED <<clock, published, since, entry, blocked, forced>>
  BY DEF IInv, authenticateUcpRequest
<1>1. EntryFresh' /\ Barred'
  BY <1>0 DEF EntryFresh, Barred, Agrees, Lag
<1>2. CASE /\ w.syntax # "absent" /\ HmsEnabled /\ beforeKey(w) = "ok"
           /\ getEntry(r)
           /\ wire' = [wire EXCEPT ![r] = w]
           /\ UNCHANGED verdict
  <2>1. wire'[r] = w /\ started'[r] = [lookup |-> clock, fetch |-> clock] /\ verdict'[r] = verdict[r]
    BY <1>0, <1>2 DEF getEntry, TypeOK
  <2>2. Asking(r)' /\ Judgement(r)' /\ verdict[r].code = "none" /\ ~got[r].served
    BY <1>0, <1>2, <2>1 DEF Sound, Asking, Judgement, Judged
  <2>3. CASE entry.expires > clock
    <3>1. /\ got' = [got EXCEPT ![r] = [kids |-> entry.kids, expires |-> entry.expires, served |-> TRUE]]
          /\ step' = [step EXCEPT ![r] = "looking"]
      BY <1>2, <2>3 DEF getEntry
    <3>2. /\ got'[r].kids = entry.kids /\ got'[r].expires = entry.expires /\ step'[r] = "looking"
          /\ [kids |-> entry.kids, expires |-> entry.expires, served |-> TRUE] \in Profile
      BY <1>0, <3>1 DEF TypeOK, Entry, Profile
    <3>3. TypeOK' /\ OfRequest(r)
      BY <1>0, <1>2, <3>1, <3>2 DEF TypeOK, OfRequest, Steps, getEntry
    <3>4. Looking(r)'
      BY <1>0, <2>1, <2>3, <3>2 DEF Looking, EntryFresh, TypeOK, Agrees, Lag
    <3> QED BY <1>1, <2>1, <2>2, <3>2, <3>3, <3>4, RequestKeeps DEF Sound
  <2>4. CASE ~(entry.expires > clock)
    <3>1. got' = got /\ step' = [step EXCEPT ![r] = "fetching"]
      BY <1>2, <2>4 DEF getEntry
    <3>2. step'[r] = "fetching" /\ TypeOK' /\ OfRequest(r)
      BY <1>0, <1>2, <3>1 DEF TypeOK, OfRequest, Steps, getEntry
    <3>3. Fetching(r)'
      BY <1>0, <2>1, <2>2, <3>1, LagIs DEF Fetching, TypeOK
    <3> QED BY <1>1, <2>1, <2>2, <3>2, <3>3, RequestKeeps DEF Sound
  <2> QED BY <2>3, <2>4
<1>3. ASSUME NEW code, code \notin Judged, Answered(r, w, code) PROVE IInv'
  <2>1. blocked' \in Nat /\ entry' \in Entry /\ code # "ok" /\ code # "key_not_found"
    BY <1>0, <1>3 DEF TypeOK, Judged
  <2> QED BY <1>0, <1>1, <1>3, <2>1, AnswerSound, RequestKeeps
<1>4. CASE beforeKey(w) # "ok" /\ Answered(r, w, beforeKey(w))
  <2>1. beforeKey(w) \notin Judged
    BY <1>4, BeforeKey DEF Judged
  <2> QED BY <1>3, <1>4, <2>1
<1>5. "auth_method_not_supported" \notin Judged /\ "auth_missing" \notin Judged /\ "bearer_ok" \notin Judged
      /\ "auth_invalid" \notin Judged
  BY DEF Judged
<1> QED BY <1>2, <1>3, <1>4, <1>5 DEF authenticateUcpRequest

LEMMA ServeKeeps ==
  ASSUME ProfileAssumption, IInv, NEW r \in Request, NEW age \in MaxAge, serve(r, age)
  PROVE  IInv'
<1>0. /\ TypeOK /\ Sound(r) /\ EntryFresh /\ Barred /\ step[r] \in {"fetching", "forcing"}
      /\ UNCHANGED <<clock, published, since, entry, blocked, wire, step, started, verdict, forced>>
  BY DEF IInv, serve
<1>1. PICK ttl \in Nat : 0 < ttl /\ ttl <= MaxTtl /\ ttl = profileCacheTtlMs(age)
  BY TtlIs
<1>2. got' = [got EXCEPT ![r] = [kids |-> published, expires |-> ttl, served |-> TRUE]]
  BY <1>1 DEF serve
<1>3. got'[r].kids = published /\ got'[r].expires = ttl
  BY <1>0, <1>2 DEF TypeOK
<1>4. TypeOK' /\ OfRequest(r)
  <2>1. [kids |-> published, expires |-> ttl, served |-> TRUE] \in Profile
    BY <1>0 DEF TypeOK, Profile
  <2> QED BY <1>0, <1>2, <2>1 DEF TypeOK, OfRequest
<1>5. Fetching(r)'
  <2>1. Agrees(got[r].kids, started[r].fetch)'
    BY <1>0, <1>3 DEF Agrees
  <2> QED BY <1>0, <1>1, <1>3, <2>1 DEF Sound, Fetching
<1>6. EntryFresh' /\ Barred'
  BY <1>0 DEF EntryFresh, Barred, Agrees, Lag
<1>7. Sound(r)'
  BY <1>0, <1>5 DEF Sound, Asking, Judgement, Lag
<1> QED BY <1>4, <1>6, <1>7, RequestKeeps

LEMMA FetchFailsKeeps ==
  ASSUME ProfileAssumption, IInv, NEW r \in Request, fetchFails(r) PROVE IInv'
<1>1. /\ TypeOK /\ Answered(r, wire[r], "profile_error") /\ blocked' \in Nat /\ entry' \in Entry
      /\ UNCHANGED <<clock, published, since, entry, blocked, forced>>
  BY DEF IInv, fetchFails, TypeOK
<1>2. EntryFresh' /\ Barred'
  BY <1>1 DEF IInv, EntryFresh, Barred, Agrees, Lag
<1>3. TypeOK' /\ OfRequest(r) /\ Sound(r)'
  BY <1>1, AnswerSound
<1> QED BY <1>2, <1>3, RequestKeeps

LEMMA AgreesEarlier ==
  ASSUME TypeOK, NEW kids, NEW t \in Int, NEW u \in Int, t <= u, Agrees(kids, u)
  PROVE  Agrees(kids, t)
  BY DEF Agrees, TypeOK

\* The rest of the verification, with keys that are late by Lag at most.
LEMMA Judges ==
  ASSUME ProfileAssumption, TypeOK, NEW r \in Request, Asking(r),
         NEW kids \in SUBSET Kid, Agrees(kids, clock - Lag),
         NEW w, w = wire[r], NEW code, code = afterKey(w, w.kid \in kids)
  PROVE  /\ code = "ok" =>
              w.kid \in Kid /\ (w.kid \notin published => clock - Lag <= since[w.kid])
              /\ (RequestsSent => AsSigned(w))
         /\ code = "key_not_found" /\ w.kid \in published => clock - Lag <= since[w.kid]
<1>1. code = "key_not_found" <=> w.kid \notin kids
  BY DEF afterKey
<1>2. published \subseteq Kid /\ kids \subseteq Kid
  BY DEF TypeOK
<1>3. code = "ok" /\ RequestsSent => AsSigned(w)
  <2> SUFFICES ASSUME code = "ok", RequestsSent PROVE AsSigned(w)
    OBVIOUS
  <2>1. w \in Wire /\ Sent(w) /\ beforeKey(w) = "ok"
    BY DEF Asking, RequestsSent, ProfileAssumption
  <2>2. (w.kid \in kids) \in BOOLEAN
    OBVIOUS
  <2> QED BY <2>1, <2>2, VerifiedIsSigned
<1>4. code = "ok" => w.kid \in kids
  BY <1>1
<1> QED BY <1>1, <1>2, <1>3, <1>4 DEF Agrees

LEMMA StoreKeeps ==
  ASSUME ProfileAssumption, IInv, NEW r \in Request, fetchAndStore(r) PROVE IInv'
<1>0. /\ TypeOK /\ Sound(r) /\ Barred /\ step[r] \in {"fetching", "forcing"} /\ got[r].served
      /\ Fetching(r) /\ Asking(r) /\ entry' = Stored(r)
      /\ UNCHANGED <<clock, published, since, blocked, forced>>
  BY DEF IInv, fetchAndStore, Sound
<1>1. PICK kids, ttl, asked :
        /\ kids \in SUBSET Kid /\ ttl \in Nat /\ asked \in Nat
        /\ kids = got[r].kids /\ ttl = got[r].expires /\ asked = started[r].fetch
  BY <1>0 DEF TypeOK, Profile
<1>2. /\ 0 < ttl /\ ttl <= MaxTtl /\ asked <= clock /\ clock <= asked + FetchMax /\ started[r].lookup <= asked
      /\ clock \in Nat /\ started[r].lookup \in Nat /\ Agrees(kids, asked)
  BY <1>0, <1>1 DEF Fetching, TypeOK
<1>3. /\ clock + ttl \in Nat /\ clock + ttl - Lag \in Int /\ clock - Lag \in Int
      /\ clock + ttl - Lag <= asked /\ clock - Lag <= asked /\ asked \in Int
  BY <1>1, <1>2, LagIs DEF Lag
<1>4. Agrees(kids, clock + ttl - Lag) /\ Agrees(kids, clock - Lag)
  BY <1>0, <1>2, <1>3, AgreesEarlier
<1>4a. PICK until : until = clock + ttl /\ until \in Nat
  BY <1>3
<1>4b. \A k \in Kid : (k \in kids) # (k \in published') => until - Lag <= since'[k]
  <2>1. clock + ttl - Lag = until - Lag
    BY <1>1, <1>2, <1>4a, LagIs
  <2>2. \A k \in Kid : (k \in kids) # (k \in published) => until - Lag <= since[k]
    BY <1>4, <2>1 DEF Agrees
  <2> QED BY <1>0, <2>2
<1>5. entry' = [kids |-> kids, expires |-> until]
  BY <1>0, <1>1, <1>4a DEF Stored
<1>6. EntryFresh' /\ Barred' /\ entry' \in Entry
  <2>1. entry'.kids = kids /\ entry'.expires = until /\ entry' \in Entry
    BY <1>1, <1>4a, <1>5 DEF Entry
  <2>2. until <= clock + MaxTtl
    BY <1>1, <1>2, <1>4a, LagIs
  <2>3. Agrees(entry.kids, entry.expires - Lag)'
    BY <1>4b, <2>1 DEF Agrees, Lag
  <2>4. Barred'
    BY <1>0 DEF Barred
  <2> QED BY <1>0, <2>1, <2>2, <2>3, <2>4 DEF EntryFresh
<1>7. CASE step[r] = "fetching"
  <2>1. /\ got' = [got EXCEPT ![r].expires = clock + ttl] /\ step' = [step EXCEPT ![r] = "looking"]
        /\ UNCHANGED <<wire, verdict, started>>
    BY <1>0, <1>1, <1>7 DEF fetchAndStore, Stored
  <2>2. got'[r].kids = kids /\ got'[r].expires = clock + ttl /\ step'[r] = "looking"
    BY <1>0, <1>1, <2>1 DEF TypeOK, Profile
  <2>3. TypeOK' /\ OfRequest(r)
    BY <1>0, <1>3, <1>6, <2>1 DEF TypeOK, OfRequest, Profile, Steps
  <2>4. Looking(r)'
    <3>1. Agrees(got[r].kids, got[r].expires - Lag)'
      BY <1>4a, <1>4b, <2>2 DEF Agrees, Lag
    <3>2. clock < clock + ttl /\ clock + ttl <= clock + MaxTtl /\ started[r].lookup <= clock
      BY <1>1, <1>2, LagIs
    <3> QED BY <1>0, <2>1, <2>2, <3>1, <3>2 DEF Looking
  <2>5. Sound(r)'
    BY <1>0, <1>7, <2>1, <2>2, <2>4 DEF Sound, Asking, Judgement, Lag
  <2> QED BY <1>6, <2>3, <2>5, RequestKeeps
<1>8. CASE step[r] # "fetching"
  <2>1. PICK w, code : w = wire[r] /\ code = afterKey(w, w.kid \in kids)
    OBVIOUS
  <2>2. Answered(r, w, code)
    BY <1>0, <1>1, <1>8, <2>1 DEF fetchAndStore
  <2>3. /\ code = "ok" =>
              w.kid \in Kid /\ (w.kid \notin published => clock - Lag <= since[w.kid])
              /\ (RequestsSent => AsSigned(w))
        /\ code = "key_not_found" /\ w.kid \in published => clock - Lag <= since[w.kid]
    BY <1>0, <1>1, <1>4, <2>1, Judges
  <2>4. Answered(r, w, code) /\ TypeOK /\ blocked' \in Nat
    BY <1>0, <2>2 DEF TypeOK
  <2>5. TypeOK' /\ OfRequest(r) /\ Sound(r)'
    BY <1>0, <1>6, <2>3, <2>4, AnswerSound
  <2> QED BY <1>6, <2>5, RequestKeeps
<1> QED BY <1>7, <1>8

\* The blocking time grows with every refresh that is forced.
LEMMA ResolveKeeps ==
  ASSUME ProfileAssumption, IInv, NEW r \in Request, resolveSigningKey(r)
  PROVE  IInv' /\ (step'[r] = "forcing" => got[r].expires \notin forced)
<1>0. /\ TypeOK /\ Sound(r) /\ Barred /\ EntryFresh /\ step[r] = "looking"
      /\ Looking(r) /\ Asking(r)
      /\ UNCHANGED <<clock, published, since, entry>>
  BY DEF IInv, resolveSigningKey, Sound
<1>1. PICK kids, until, w :
        /\ kids \in SUBSET Kid /\ until \in Nat
        /\ kids = got[r].kids /\ until = got[r].expires /\ w = wire[r]
  BY <1>0 DEF TypeOK, Profile
<1>2. /\ started[r].lookup <= clock /\ clock < until /\ clock \in Nat /\ started[r].lookup \in Nat
      /\ Agrees(kids, until - Lag) /\ Lag \in Nat
  BY <1>0, <1>1, LagIs DEF Looking, TypeOK
<1>3. Agrees(kids, clock - Lag)
  <2>1. clock - Lag \in Int /\ until - Lag \in Int /\ clock - Lag <= until - Lag
    BY <1>1, <1>2
  <2> QED BY <1>0, <1>2, <2>1, AgreesEarlier
<1>4. EntryFresh'
  BY <1>0 DEF EntryFresh, Agrees, Lag
<1>5. CASE blocked' = blocked /\ forced' = forced /\ Answered(r, w, afterKey(w, w.kid \in kids))
  <2>1. PICK code : code = afterKey(w, w.kid \in kids)
    OBVIOUS
  <2>2. /\ code = "ok" =>
              w.kid \in Kid /\ (w.kid \notin published => clock - Lag <= since[w.kid])
              /\ (RequestsSent => AsSigned(w))
        /\ code = "key_not_found" /\ w.kid \in published => clock - Lag <= since[w.kid]
    BY <1>0, <1>1, <1>3, <2>1, Judges
  <2>3. Answered(r, w, code) /\ blocked' \in Nat /\ entry' \in Entry /\ Barred'
    BY <1>0, <1>5, <2>1 DEF TypeOK, Barred
  <2>4. TypeOK' /\ OfRequest(r) /\ Sound(r)'
    BY <1>0, <2>2, <2>3, AnswerSound
  <2>5. step'[r] = "done"
    BY <1>0, <2>3 DEF Answered, TypeOK
  <2> QED BY <1>4, <2>3, <2>4, <2>5, RequestKeeps
<1>6. CASE /\ blocked <= started[r].lookup
           /\ blocked' = until /\ forced' = forced \cup {until}
           /\ started' = [started EXCEPT ![r].fetch = clock]
           /\ got' = [got EXCEPT ![r] = Nothing]
           /\ step' = [step EXCEPT ![r] = "forcing"]
           /\ UNCHANGED <<wire, verdict>>
  <2>1. blocked \in Nat /\ blocked < until
    BY <1>0, <1>1, <1>2, <1>6 DEF TypeOK
  <2>2. until \notin forced /\ Barred'
    BY <1>0, <1>1, <1>6, <2>1 DEF Barred
  <2>3. /\ step'[r] = "forcing" /\ started'[r].fetch = clock /\ started'[r].lookup = started[r].lookup
        /\ got'[r] = Nothing
    BY <1>0, <1>6 DEF TypeOK
  <2>4. Nothing \in Profile
    BY DEF Nothing, Profile
  <2>5. TypeOK'
    <3>1. started' \in [Request -> [lookup : Nat, fetch : Nat]]
      BY <1>0, <1>2, <1>6 DEF TypeOK
    <3> QED BY <1>0, <1>1, <1>6, <2>4, <3>1 DEF TypeOK, Steps
  <2>6. OfRequest(r)
    BY <1>0, <1>6 DEF TypeOK, OfRequest
  <2>7. Sound(r)'
    <3>1. Fetching(r)'
      BY <1>0, <1>2, <2>3, LagIs DEF Fetching, Nothing
    <3> QED BY <1>0, <1>6, <2>3, <3>1 DEF Sound, Asking, Judgement, Lag
  <2> QED BY <1>1, <1>4, <2>2, <2>5, <2>6, <2>7, RequestKeeps
<1>7. /\ w.kid \in kids <=> wire[r].kid \in got[r].kids
      /\ blockUntil(r) = until
  BY <1>1 DEF blockUntil
<1>8. \/ w.kid \in kids /\ Answered(r, w, afterKey(w, TRUE)) /\ UNCHANGED <<blocked, forced>>
      \/ w.kid \notin kids /\ Answered(r, w, afterKey(w, FALSE)) /\ UNCHANGED <<blocked, forced>>
      \/ /\ blocked <= started[r].lookup
         /\ blocked' = until /\ forced' = forced \cup {until}
         /\ started' = [started EXCEPT ![r].fetch = clock]
         /\ got' = [got EXCEPT ![r] = Nothing]
         /\ step' = [step EXCEPT ![r] = "forcing"]
         /\ UNCHANGED <<wire, verdict>>
  BY <1>1, <1>7 DEF resolveSigningKey
<1>9. ASSUME w.kid \in kids PROVE (w.kid \in kids) = TRUE
  BY <1>9
<1>10. ASSUME w.kid \notin kids PROVE (w.kid \in kids) = FALSE
  BY <1>10
<1>11. CASE w.kid \in kids /\ Answered(r, w, afterKey(w, TRUE)) /\ UNCHANGED <<blocked, forced>>
  BY <1>5, <1>9, <1>11
<1>12. CASE w.kid \notin kids /\ Answered(r, w, afterKey(w, FALSE)) /\ UNCHANGED <<blocked, forced>>
  BY <1>5, <1>10, <1>12
<1> QED BY <1>6, <1>8, <1>11, <1>12

LEMMA InitKeeps == ASSUME ProfileAssumption, Init PROVE IInv
<1>1. TypeOK
  BY DEF Init, ProfileAssumption, TypeOK, Entry, NoEntry, Profile, Nothing, NotStarted, NoVerdict, Steps
<1>2. EntryFresh
  BY <1>1, LagIs DEF Init, EntryFresh, NoEntry, Agrees, Lag, TypeOK
<1>3. Barred
  BY DEF Init, Barred
<1>4. \A r \in Request : Sound(r)
  BY DEF Init, Sound, Judgement, NoVerdict, Nothing
<1> QED BY <1>1, <1>2, <1>3, <1>4 DEF IInv

LEMMA StepKeeps ==
  ASSUME ProfileAssumption, IInv, [Next]_vars
  PROVE  IInv' /\ ForcesOnce
<1>1. CASE \E r \in Request : \E w \in Wires(r) : authenticateUcpRequest(r, w)
  <2>0. PICK r \in Request : \E w \in Wires(r) : authenticateUcpRequest(r, w)
    BY <1>1
  <2>1. PICK w \in Wires(r) : authenticateUcpRequest(r, w)
    BY <2>0
  <2>2. ForcesOnce
    BY <2>1 DEF IInv, TypeOK, ForcesOnce, authenticateUcpRequest, getEntry, Answered
  <2> QED BY <2>1, <2>2, AuthenticateKeeps
<1>2. CASE \E r \in Request, age \in MaxAge : serve(r, age)
  <2>1. PICK r \in Request, age \in MaxAge : serve(r, age)
    BY <1>2
  <2> QED BY <2>1, ServeKeeps DEF ForcesOnce, serve
<1>3. CASE \E r \in Request : fetchAndStore(r)
  <2>1. PICK r \in Request : fetchAndStore(r)
    BY <1>3
  <2>2. IInv'
    BY <2>1, StoreKeeps
  <2>3. \A q \in Request \ {r} : step'[q] = step[q]
    BY <2>1 DEF IInv, TypeOK, fetchAndStore, Answered
  <2>4. step'[r] # "forcing"
    BY <2>1 DEF IInv, TypeOK, fetchAndStore, Answered
  <2> QED BY <2>2, <2>3, <2>4 DEF ForcesOnce
<1>4. CASE \E r \in Request : fetchFails(r)
  BY <1>4, FetchFailsKeeps DEF IInv, TypeOK, ForcesOnce, fetchFails, Answered
<1>5. CASE \E r \in Request : resolveSigningKey(r)
  <2>1. PICK r \in Request : resolveSigningKey(r)
    BY <1>5
  <2>2. \A q \in Request \ {r} : step'[q] = step[q]
    BY <2>1 DEF IInv, TypeOK, resolveSigningKey, Answered
  <2> QED BY <2>1, <2>2, ResolveKeeps DEF ForcesOnce
<1>6. CASE \E k \in Kid : publish(k) \/ revoke(k)
  <2>1. Rotates
    BY <1>6, RotationRotates DEF IInv
  <2> QED BY <2>1, RotationKeeps DEF Rotates, ForcesOnce
<1>7. CASE tick
  BY <1>7, TickKeeps DEF tick, ForcesOnce
<1>8. CASE UNCHANGED vars
  <2>1. IInv'
    BY <1>8 DEF vars, IInv, TypeOK, EntryFresh, Barred, Sound, Asking, Fetching, Looking, Judgement,
                Agrees, Lag
  <2> QED BY <1>8, <2>1 DEF vars, ForcesOnce
<1> QED BY <1>1, <1>2, <1>3, <1>4, <1>5, <1>6, <1>7, <1>8 DEF Next

LEMMA SoundByInvariant == ASSUME ProfileAssumption, IInv PROVE RotationIsSeen
<1> SUFFICES ASSUME NEW r \in Request, NEW k, k = wire[r].kid,
                    \/ verdict[r].code = "ok" /\ k \notin published
                    \/ verdict[r].code = "key_not_found" /\ k \in published
             PROVE  verdict[r].at - since[k] <= MaxTtl + FetchMax
  BY DEF RotationIsSeen
<1>1. Judgement(r) /\ verdict[r].at \in Nat /\ k \in Kid
  BY DEF IInv, Sound, Judgement, TypeOK
<1>2. since[k] \in Nat
  BY <1>1 DEF IInv, TypeOK
<1>3. verdict[r].at - Lag <= since[k]
  BY <1>1 DEF Judgement
<1> QED BY <1>1, <1>2, <1>3, LagIs DEF Lag

-------------------------------------------------------------------------------
\* fetchAndStore and resolveSigningKey (protocol/src/ucp/profile.ts): however requests and
\* their fetches overlap, a rotation of keys is seen within the longest lifetime of an
\* entry and the time of a fetch, for any limits, ages, keys and requests.
THEOREM RotationsAreSeen == ASSUME ProfileAssumption PROVE Spec => []RotationIsSeen
<1>1. Init => IInv
  BY InitKeeps
<1>2. IInv /\ [Next]_vars => IInv'
  BY StepKeeps
<1>3. IInv => RotationIsSeen
  BY SoundByInvariant
<1> QED BY <1>1, <1>2, <1>3, PTL DEF Spec

\* resolveSigningKey (protocol/src/ucp/profile.ts): requests for keys nobody publishes make
\* the merchant fetch the profile once more per lifetime of an entry, and no oftener.
THEOREM RefreshesOncePerWindow == ASSUME ProfileAssumption PROVE Spec => OneRefreshPerWindow
<1>1. Init => IInv
  BY InitKeeps
<1>2. IInv /\ [Next]_vars => IInv' /\ [ForcesOnce]_vars
  BY StepKeeps
<1> QED BY <1>1, <1>2, PTL DEF Spec, OneRefreshPerWindow

\* verifyUcpRequest (ucp-signing/src/ucp-http.ts) behind the profile's keys: what is
\* accepted is, in what the merchant acts on, what was signed, whatever was changed on
\* the way.
THEOREM AcceptsAsSigned == ASSUME ProfileAssumption, RequestsSent PROVE Spec => []AcceptedAsSigned
<1>1. Init => IInv
  BY InitKeeps
<1>2. IInv /\ [Next]_vars => IInv'
  BY StepKeeps
<1>3. IInv => AcceptedAsSigned
  BY DEF IInv, Sound, Judgement, AsSigned, AcceptedAsSigned
<1> QED BY <1>1, <1>2, <1>3, PTL DEF Spec

(***************************************************************************)
(* Mandates                                                                *)
(***************************************************************************)
CONSTANTS Checkout, Locked, Terms, FirstTerms, Attempt, Choices(_), NonceTtl, MandateTtl,
          PaymentTtl, MaxMandateTime, MaxUpdates
VARIABLES now, row, nonce, shown, request, pc, answer, update, updates, charge, accepted

Mandates == INSTANCE MandateCheckout WITH MaxTime <- MaxMandateTime

Status == {"ready", "complete_in_progress", "completed", "canceled"}
Forms == {"good", "absent", "foreign", "tampered"}

Row == [status : Status \cup {"none"}, terms : Terms \cup {0}]

Record == [session : Checkout \cup {"none"}, expires : Nat, consumed : BOOLEAN]

Opened(c) == row[c].status \in Status

\* The merchant has it, past the schema.
Mandated(a) == request[a].mandate.form = "good"

\* What is stored is absent or has a status.
RowsGood ==
  /\ row \in [Checkout -> Row]
  /\ \A c \in Checkout : Opened(c) \/ row[c] = Mandates!Absent
  /\ update # Mandates!NoUpdate =>
       update.checkout \in Checkout /\ update.row \in Row /\ update.row.status \in Status
         /\ update.terms \in Terms

\* A nonce is on record only for a checkout that was created.
NoncesGood ==
  /\ nonce \in [Mandates!Nonce -> Record]
  /\ \A n \in Mandates!Nonce : nonce[n] # Mandates!NoRecord => Opened(n[1])

\* What a request may carry.
Carried(a) ==
  pc[a] # "idle" =>
    /\ request[a].checkout \in Checkout
    /\ request[a].mandate.nonce \in Checkout
    /\ request[a].mandate.form \in Forms

\* A completion that holds its session has been checked as far as it got, against the
\* terms the session still has.
Checked(a) ==
  /\ Mandates!Holds(a) => Opened(request[a].checkout)
  /\ pc[a] = "claimed" /\ request[a].checkout \in Locked =>
       request[a].mandate.form # "absent"
  /\ pc[a] = "verified" => request[a].checkout \in Locked
  /\ pc[a] \in {"verified", "paying"} => Mandated(a) /\ Mandates!checkoutTermsMatch(a)
  /\ pc[a] = "paying" => a \in accepted
  /\ a \in accepted => pc[a] \in {"paying", "ended"}

\* The nonce of an accepted mandate can be spent by nobody else: it is spent, or gone for good.
Spent(a) ==
  request[a].checkout \in Locked =>
    LET n == <<request[a].mandate.nonce, "checkout">> IN
    Opened(n[1]) /\ (nonce[n] = Mandates!NoRecord \/ nonce[n].consumed)

Attempts ==
  /\ DOMAIN pc = Attempt /\ DOMAIN request = Attempt /\ accepted \subseteq Attempt
  /\ \A a \in Attempt : Carried(a) /\ Checked(a)

Charges == DOMAIN charge = Checkout /\ Mandates!ChargeIsMandated

Spends == Mandates!MandateUsedOnce /\ \A a \in accepted : Spent(a)

MandateIInv == RowsGood /\ NoncesGood /\ Attempts /\ Charges /\ Spends

-----------------------------------------------------------------------------
(* The verifiers.                                                          *)

LEMMA LeastOfSix == ASSUME NEW F \in SUBSET (1..6), F # {} PROVE \E i \in F : \A j \in F : i <= j
<1>1. CASE 1 \in F
  BY <1>1
<1>2. CASE 1 \notin F /\ 2 \in F
  BY <1>2
<1>3. CASE {1, 2} \cap F = {} /\ 3 \in F
  BY <1>3
<1>4. CASE {1, 2, 3} \cap F = {} /\ 4 \in F
  BY <1>4
<1>5. CASE {1, 2, 3, 4} \cap F = {} /\ 5 \in F
  BY <1>5
<1>6. CASE {1, 2, 3, 4, 5} \cap F = {}
  <2>1. \A j \in F : j = 6
    BY <1>6
  <2>2. PICK k \in F : TRUE
    OBVIOUS
  <2>3. k = 6 /\ \A j \in F : k <= j
    BY <2>1, <2>2
  <2> QED BY <2>3
<1> QED BY <1>1, <1>2, <1>3, <1>4, <1>5, <1>6

\* Six checks at most, none with the code "ok": the result is "ok" if none fails.
LEMMA AllPass ==
  ASSUME NEW checks, DOMAIN checks \subseteq 1..6, \A i \in DOMAIN checks : checks[i].code # "ok",
         Mandates!FirstFailure(checks) = "ok"
  PROVE  Mandates!Failing(checks) = {}
<1> SUFFICES ASSUME Mandates!Failing(checks) # {} PROVE FALSE
  OBVIOUS
<1> DEFINE first == CHOOSE i \in Mandates!Failing(checks) : \A j \in Mandates!Failing(checks) : i <= j
<1>1. Mandates!Failing(checks) \in SUBSET (1..6)
  BY DEF Mandates!Failing
<1>2. first \in Mandates!Failing(checks)
  BY <1>1, LeastOfSix
<1>3. first \in DOMAIN checks
  BY <1>2 DEF Mandates!Failing
<1> QED BY <1>3 DEF Mandates!FirstFailure

LEMMA LockedVerdict ==
  ASSUME NEW a, Mandates!FirstFailure(Mandates!sdJwtKbChecks(a)) = "ok"
  PROVE  request[a].mandate.form \notin {"foreign", "tampered"} /\ Mandates!checkoutTermsMatch(a)
<1> DEFINE checks == Mandates!sdJwtKbChecks(a)
<1>1. /\ DOMAIN checks = 1..4
      /\ checks[1].code # "ok" /\ checks[2].code # "ok" /\ checks[3].code # "ok"
      /\ checks[4].code # "ok"
  BY DEF Mandates!sdJwtKbChecks
<1>2. /\ checks[1].fails <=> ~Mandates!trustedIssuer(request[a].mandate)
      /\ checks[2].fails <=> ~Mandates!validSignatures(request[a].mandate) \/ request[a].mandate.iat > now
      /\ checks[4].fails <=> ~Mandates!checkoutTermsMatch(a)
  BY DEF Mandates!sdJwtKbChecks
<1> HIDE DEF checks
<1>3. Mandates!Failing(checks) = {}
  BY <1>1, AllPass DEF checks
<1>4. ~checks[1].fails /\ ~checks[2].fails /\ ~checks[4].fails
  BY <1>1, <1>3 DEF Mandates!Failing
<1> QED BY <1>2, <1>4 DEF Mandates!trustedIssuer, Mandates!validSignatures

LEMMA OpenVerdict ==
  ASSUME NEW a, Mandates!FirstFailure(Mandates!steelyardJwsChecks(a)) = "ok"
  PROVE  request[a].mandate.form \notin {"absent", "foreign", "tampered"} /\ Mandates!checkoutTermsMatch(a)
<1> DEFINE checks == Mandates!steelyardJwsChecks(a)
<1>1. /\ DOMAIN checks = 1..6
      /\ checks[1].code # "ok" /\ checks[2].code # "ok" /\ checks[3].code # "ok"
      /\ checks[4].code # "ok" /\ checks[5].code # "ok" /\ checks[6].code # "ok"
  BY DEF Mandates!steelyardJwsChecks
<1>2. /\ checks[1].fails <=> request[a].mandate.form = "absent"
      /\ checks[2].fails <=> ~Mandates!trustedKey(request[a].mandate)
      /\ checks[3].fails <=> ~Mandates!validJws(request[a].mandate)
      /\ checks[6].fails <=> ~Mandates!checkoutTermsMatch(a)
  BY DEF Mandates!steelyardJwsChecks
<1> HIDE DEF checks
<1>3. Mandates!Failing(checks) = {}
  BY <1>1, AllPass DEF checks
<1>4. ~checks[1].fails /\ ~checks[2].fails /\ ~checks[3].fails /\ ~checks[6].fails
  BY <1>1, <1>3 DEF Mandates!Failing
<1> QED BY <1>2, <1>4 DEF Mandates!trustedKey, Mandates!validJws

\* A mandate that is verified is good, and over the terms of the session.
LEMMA VerifiedIsGood ==
  ASSUME NEW a \in Attempt, Carried(a), Checked(a), pc[a] = "claimed", Mandates!verdict(a) = "ok"
  PROVE  Mandated(a) /\ Mandates!checkoutTermsMatch(a)
<1>1. CASE request[a].checkout \in Locked
  BY <1>1, LockedVerdict DEF Mandates!verdict, Carried, Checked, Mandated, Forms
<1>2. CASE request[a].checkout \notin Locked
  BY <1>2, OpenVerdict DEF Mandates!verdict, Carried, Mandated, Forms
<1> QED BY <1>1, <1>2

-----------------------------------------------------------------------------
(* What a step has to leave as it is.                                      *)

\* No row is lost, and the ones that are held keep their terms.
RowsMove ==
  /\ \A c \in Checkout : Opened(c) => Opened(c)'
  /\ \A a \in Attempt : Mandates!Holds(a) => row'[request[a].checkout].terms = row[request[a].checkout].terms

LEMMA StatusMoves ==
  ASSUME RowsGood, Attempts, NEW c \in Checkout, NEW status,
         (status \in Status /\ Opened(c)) \/ status = row[c].status,
         row' = [row EXCEPT ![c].status = status], update' = update
  PROVE  RowsGood' /\ RowsMove
<1>1. row[c] \in Row /\ Mandates!Absent \in Row
  BY DEF RowsGood, Row, Mandates!Absent
<1>2. /\ row' \in [Checkout -> Row]
      /\ \A d \in Checkout \ {c} : row'[d] = row[d]
      /\ row'[c].status = status /\ row'[c].terms = row[c].terms
  <2>1. status \in Status \cup {"none"}
    BY <1>1 DEF Row
  <2>2. [row[c] EXCEPT !.status = status] \in Row
    BY <1>1, <2>1 DEF Row
  <2>3. row' = [row EXCEPT ![c] = [row[c] EXCEPT !.status = status]]
    OBVIOUS
  <2>4. row'[c] = [row[c] EXCEPT !.status = status] /\ \A d \in Checkout \ {c} : row'[d] = row[d]
    BY <2>3 DEF RowsGood
  <2>5. row' \in [Checkout -> Row]
    BY <2>2, <2>3 DEF RowsGood
  <2> QED BY <1>1, <2>4, <2>5 DEF Row
<1>3. \A d \in Checkout : Opened(d) => Opened(d)'
  BY <1>2 DEF Opened
<1>4. \A d \in Checkout : row'[d].terms = row[d].terms
  BY <1>2
<1>5. \A d \in Checkout : Opened(d)' \/ row'[d] = Mandates!Absent
  <2>1. ASSUME ~Opened(c)' PROVE row'[c] = Mandates!Absent
    <3>1. ~Opened(c) /\ status = row[c].status
      BY <1>2, <2>1 DEF Opened
    <3>2. row[c] = Mandates!Absent
      BY <3>1 DEF RowsGood
    <3>3. row'[c] \in Row /\ row'[c].status = "none" /\ row'[c].terms = 0
      BY <1>2, <3>1, <3>2 DEF Mandates!Absent
    <3> QED BY <3>3 DEF Row, Mandates!Absent
  <2> QED BY <1>2, <2>1 DEF RowsGood, Opened
<1>6. \A a \in Attempt : Mandates!Holds(a) => request[a].checkout \in Checkout
  BY DEF Attempts, Carried, Mandates!Holds
<1> QED BY <1>2, <1>3, <1>4, <1>5, <1>6 DEF RowsGood, RowsMove

\* A step of the attempt a, or of none.
LEMMA AttemptsMove ==
  ASSUME Attempts, RowsMove, NEW a, UNCHANGED request,
         DOMAIN pc' = Attempt, \A b \in Attempt \ {a} : pc'[b] = pc[b],
         accepted \subseteq accepted', accepted' \subseteq accepted \cup {a}, accepted' \subseteq Attempt,
         a \in Attempt => Carried(a)' /\ Checked(a)'
  PROVE  Attempts'
<1> SUFFICES ASSUME NEW b \in Attempt \ {a} PROVE Carried(b)' /\ Checked(b)'
  BY DEF Attempts
<1>1. Carried(b) /\ Checked(b) /\ pc'[b] = pc[b] /\ (b \in accepted' <=> b \in accepted)
  BY DEF Attempts
<1>2. Carried(b)'
  BY <1>1 DEF Carried
<1>3. Mandates!Holds(b)' = Mandates!Holds(b) /\ Mandated(b)' = Mandated(b)
  BY <1>1 DEF Mandates!Holds, Mandated
<1>4. Mandates!Holds(b)' => Opened(request[b].checkout)'
  <2>1. Mandates!Holds(b) => request[b].checkout \in Checkout
    BY <1>1 DEF Carried, Mandates!Holds
  <2> QED BY <1>1, <1>3, <2>1 DEF Checked, RowsMove
<1>5. pc'[b] \in {"verified", "paying"} => Mandated(b)' /\ Mandates!checkoutTermsMatch(b)'
  <2> SUFFICES ASSUME pc[b] \in {"verified", "paying"} PROVE Mandated(b)' /\ Mandates!checkoutTermsMatch(b)'
    BY <1>1
  <2>1. Mandates!Holds(b) /\ Mandated(b) /\ Mandates!checkoutTermsMatch(b)
    BY <1>1 DEF Mandates!Holds, Checked
  <2>2. row'[request[b].checkout].terms = row[request[b].checkout].terms
    BY <2>1 DEF RowsMove
  <2> QED BY <1>3, <2>1, <2>2 DEF Mandates!checkoutTermsMatch
<1>6. /\ pc'[b] = "claimed" /\ request'[b].checkout \in Locked => request'[b].mandate.form # "absent"
      /\ pc'[b] = "verified" => request'[b].checkout \in Locked
      /\ pc'[b] = "paying" => b \in accepted'
      /\ b \in accepted' => pc'[b] \in {"paying", "ended"}
  BY <1>1 DEF Checked
<1>7. Checked(b)'
  BY <1>4, <1>5, <1>6 DEF Checked
<1> QED BY <1>2, <1>7

LEMMA ChargesStay ==
  ASSUME Charges, UNCHANGED charge, accepted \subseteq accepted',
         \A a \in accepted : request'[a] = request[a]
  PROVE  Charges'
<1> SUFFICES ASSUME NEW c \in Checkout, charge[c] # Mandates!NoCharge
             PROVE  \E a \in accepted' :
                      /\ request'[a].checkout = c
                      /\ request'[a].mandate.form = "good"
                      /\ request'[a].mandate.terms = charge[c].terms
                      /\ Mandates!WithMandate(a)' => /\ charge[c].at < request'[a].mandate.exp
                                            /\ charge[c].at < request'[a].payment.exp
  BY DEF Charges, Mandates!ChargeIsMandated
<1>1. PICK a \in accepted :
        /\ request[a].checkout = c
        /\ request[a].mandate.form = "good"
        /\ request[a].mandate.terms = charge[c].terms
        /\ Mandates!WithMandate(a) => charge[c].at < request[a].mandate.exp /\ charge[c].at < request[a].payment.exp
  BY DEF Charges, Mandates!ChargeIsMandated
<1>2. request'[a] = request[a] /\ Mandates!WithMandate(a)' = Mandates!WithMandate(a)
  BY DEF Mandates!WithMandate
<1> QED BY <1>1, <1>2

\* A nonce that is spent or gone does not come back.
NoncesMove ==
  \A n \in Mandates!Nonce : Opened(n[1]) /\ (nonce[n] = Mandates!NoRecord \/ nonce[n].consumed) =>
    nonce'[n] = Mandates!NoRecord \/ nonce'[n].consumed

LEMMA SpentStays ==
  ASSUME Spends, Attempts, RowsMove, NoncesMove, NEW a \in accepted, request'[a] = request[a]
  PROVE  Spent(a)'
<1> SUFFICES ASSUME request[a].checkout \in Locked PROVE Spent(a)'
  BY DEF Spent
<1> DEFINE n == <<request[a].mandate.nonce, "checkout">>
<1>1. request[a].mandate.nonce \in Checkout
  BY DEF Attempts, Checked, Carried
<1>2. n \in Mandates!Nonce /\ n[1] \in Checkout
  BY <1>1 DEF Mandates!Nonce
<1>3. Opened(n[1]) /\ (nonce[n] = Mandates!NoRecord \/ nonce[n].consumed)
  BY DEF Spends, Spent
<1>4. Opened(n[1])' /\ (nonce'[n] = Mandates!NoRecord \/ nonce'[n].consumed)
  BY <1>2, <1>3 DEF RowsMove, NoncesMove
<1> QED BY <1>4 DEF Spent

LEMMA SpendsStay ==
  ASSUME Spends, Attempts, RowsMove, NoncesMove, accepted' = accepted,
         \A a \in accepted : request'[a] = request[a]
  PROVE  Spends'
<1>1. \A a \in accepted' : Spent(a)'
  BY SpentStays
<1>2. Mandates!MandateUsedOnce'
  BY DEF Spends, Mandates!MandateUsedOnce
<1> QED BY <1>1, <1>2 DEF Spends

LEMMA SameNonces ==
  ASSUME NoncesGood, RowsMove, UNCHANGED nonce
  PROVE  NoncesGood' /\ NoncesMove
<1>1. \A n \in Mandates!Nonce : n[1] \in Checkout
  BY DEF Mandates!Nonce
<1>2. NoncesGood'
  BY <1>1 DEF NoncesGood, RowsMove
<1> QED BY <1>2 DEF NoncesMove

LEMMA SameRows ==
  ASSUME RowsGood, UNCHANGED row
  PROVE  RowsMove
  BY DEF RowsMove, Opened

-----------------------------------------------------------------------------
(* The actions.                                                            *)

\* Most of it, for a step that changes neither the requests nor what is accepted or charged.
LEMMA NobodyMoves ==
  ASSUME MandateIInv, RowsGood', RowsMove, NoncesGood', NoncesMove,
         UNCHANGED <<request, pc, accepted, charge>>
  PROVE  MandateIInv'
<1>1. Attempts'
  <2>1. ASSUME NEW a \in Attempt PROVE Attempts'
    <3>1. Carried(a) /\ Checked(a)
      BY DEF MandateIInv, Attempts
    <3>2. Carried(a)'
      BY <3>1 DEF Carried
    <3>3. Checked(a)'
      <4>1. Mandates!Holds(a) => request[a].checkout \in Checkout
        BY <3>1 DEF Carried, Mandates!Holds
      <4>2. Mandates!Holds(a)' = Mandates!Holds(a) /\ Mandated(a)' = Mandated(a)
        BY DEF Mandates!Holds, Mandated
      <4>3. Mandates!Holds(a)' => Opened(request[a].checkout)'
        BY <3>1, <4>1, <4>2 DEF Checked, RowsMove
      <4>4. pc'[a] \in {"verified", "paying"} => Mandates!checkoutTermsMatch(a)'
        BY <3>1 DEF Checked, RowsMove, Mandates!Holds, Mandates!checkoutTermsMatch
      <4> QED BY <3>1, <4>2, <4>3, <4>4 DEF Checked
    <3> QED BY <3>2, <3>3, AttemptsMove DEF MandateIInv, Attempts
  <2>2. CASE Attempt = {}
    BY <2>2 DEF MandateIInv, Attempts
  <2> QED BY <2>1, <2>2
<1>2. Charges' /\ Spends'
  BY ChargesStay, SpendsStay DEF MandateIInv
<1> QED BY <1>1, <1>2 DEF MandateIInv

LEMMA CreateKeeps ==
  ASSUME Mandates!MandateAssumption, now \in Nat, MandateIInv, NEW c \in Checkout, Mandates!createCheckout(c)
  PROVE  MandateIInv'
<1> DEFINE new == [status |-> "ready", terms |-> FirstTerms]
<1>1. /\ row[c] = Mandates!Absent /\ row' = [row EXCEPT ![c] = new]
      /\ nonce' = IF c \in Locked THEN Mandates!issued(c) ELSE nonce
      /\ UNCHANGED <<request, pc, update, charge, accepted>>
  BY DEF Mandates!createCheckout
<1>2. new \in Row /\ new.status \in Status
  BY DEF Row, Status, Mandates!MandateAssumption
<1> HIDE DEF new
<1>3. row'[c] = new /\ \A d \in Checkout \ {c} : row'[d] = row[d]
  BY <1>1 DEF MandateIInv, RowsGood
<1>4. ~Opened(c) /\ Opened(c)' /\ \A d \in Checkout \ {c} : Opened(d)' = Opened(d)
  BY <1>1, <1>2, <1>3 DEF Opened, Mandates!Absent, Status
<1>5. RowsGood'
  <2>1. row' \in [Checkout -> Row]
    BY <1>1, <1>2 DEF MandateIInv, RowsGood
  <2>2. \A d \in Checkout : Opened(d)' \/ row'[d] = Mandates!Absent
    BY <1>3, <1>4 DEF MandateIInv, RowsGood
  <2> QED BY <1>1, <2>1, <2>2 DEF MandateIInv, RowsGood
<1>6. RowsMove
  <2>1. \A a \in Attempt : Mandates!Holds(a) => request[a].checkout \in Checkout \ {c}
    BY <1>4 DEF MandateIInv, Attempts, Carried, Checked, Mandates!Holds
  <2> QED BY <1>3, <1>4, <2>1 DEF RowsMove
<1>7. NoncesGood' /\ NoncesMove
  <2>1. CASE c \notin Locked
    BY <1>1, <1>6, <2>1, SameNonces DEF MandateIInv
  <2>2. CASE c \in Locked
    <3>1. nonce' \in [Mandates!Nonce -> Record]
      <4>1. [session |-> c, expires |-> now + NonceTtl, consumed |-> FALSE] \in Record /\ Mandates!NoRecord \in Record
        BY DEF Mandates!MandateAssumption, Record, Mandates!NoRecord
      <4>2. \A m \in Mandates!Nonce : Mandates!pruneExpired[m] \in Record
        BY <4>1 DEF Mandates!pruneExpired, MandateIInv, NoncesGood
      <4> QED BY <1>1, <2>2, <4>1, <4>2 DEF Mandates!issued
    <3>2. \A n \in Mandates!Nonce : n[1] # c => nonce'[n] = Mandates!NoRecord \/ nonce'[n] = nonce[n]
      BY <1>1, <2>2 DEF Mandates!issued, Mandates!pruneExpired
    <3>3. \A n \in Mandates!Nonce : n[1] \in Checkout
      BY DEF Mandates!Nonce
    <3>4. NoncesGood'
      <4>1. ASSUME NEW n \in Mandates!Nonce, nonce'[n] # Mandates!NoRecord PROVE Opened(n[1])'
        BY <1>4, <3>2, <3>3, <4>1 DEF MandateIInv, NoncesGood
      <4> QED BY <3>1, <4>1 DEF NoncesGood
    <3>5. NoncesMove
      BY <1>4, <3>2 DEF NoncesMove
    <3> QED BY <3>4, <3>5
  <2> QED BY <2>1, <2>2
<1> QED BY <1>1, <1>5, <1>6, <1>7, NobodyMoves

LEMMA ReadsKeep ==
  ASSUME MandateIInv, \/ \E c \in Checkout : Mandates!getCheckout(c)
               \/ Mandates!Tick
               \/ UNCHANGED Mandates!vars
  PROVE  MandateIInv'
<1>1. UNCHANGED <<row, nonce, update, request, pc, accepted, charge>>
  BY DEF Mandates!getCheckout, Mandates!Tick, Mandates!vars
<1>2. RowsGood'
  BY <1>1 DEF MandateIInv, RowsGood, Opened
<1>3. RowsMove
  BY <1>1, SameRows DEF MandateIInv
<1>4. NoncesGood' /\ NoncesMove
  BY <1>1, <1>3, SameNonces DEF MandateIInv
<1> QED BY <1>1, <1>2, <1>3, <1>4, NobodyMoves

LEMMA UpdateReadKeeps ==
  ASSUME MandateIInv, NEW c \in Checkout, NEW t \in Terms, Mandates!updateRead(c, t)
  PROVE  MandateIInv'
<1>1. /\ UNCHANGED <<row, nonce, request, pc, accepted, charge>>
      /\ update' = [checkout |-> c, row |-> row[c], terms |-> t]
      /\ row[c] # Mandates!Absent
  BY DEF Mandates!updateRead
<1>2. row[c] \in Row /\ row[c].status \in Status
  BY <1>1 DEF MandateIInv, RowsGood, Opened
<1>3. update'.checkout = c /\ update'.row = row[c] /\ update'.terms = t
  BY <1>1
<1>4. RowsGood'
  BY <1>1, <1>2, <1>3 DEF MandateIInv, RowsGood, Opened
<1>5. RowsMove
  BY <1>1, SameRows DEF MandateIInv
<1>6. NoncesGood' /\ NoncesMove
  BY <1>1, <1>5, SameNonces DEF MandateIInv
<1> QED BY <1>1, <1>4, <1>5, <1>6, NobodyMoves

\* The put waits until nobody holds the session.
LEMMA UpdateWriteKeeps ==
  ASSUME MandateIInv, Mandates!updateWrite
  PROVE  MandateIInv'
<1>1. /\ update # Mandates!NoUpdate /\ Mandates!Free(update.checkout) /\ update' = Mandates!NoUpdate
      /\ row' = [row EXCEPT ![update.checkout] = [update.row EXCEPT !.terms = update.terms]]
      /\ UNCHANGED <<nonce, request, pc, accepted, charge>>
  BY DEF Mandates!updateWrite
<1>2. update.checkout \in Checkout /\ [update.row EXCEPT !.terms = update.terms] \in Row
      /\ [update.row EXCEPT !.terms = update.terms].status \in Status
  BY <1>1 DEF MandateIInv, RowsGood, Row
<1>3. PICK c \in Checkout, new \in Row :
        /\ c = update.checkout /\ new.status \in Status /\ row' = [row EXCEPT ![c] = new]
  BY <1>1, <1>2
<1>4. row'[c] = new /\ \A d \in Checkout \ {c} : row'[d] = row[d]
  BY <1>3 DEF MandateIInv, RowsGood
<1>5. Opened(c)' /\ \A d \in Checkout \ {c} : Opened(d)' = Opened(d)
  BY <1>3, <1>4 DEF Opened
<1>6. RowsGood'
  <2>1. row' \in [Checkout -> Row]
    BY <1>3 DEF MandateIInv, RowsGood
  <2>2. \A d \in Checkout : Opened(d)' \/ row'[d] = Mandates!Absent
    BY <1>4, <1>5 DEF MandateIInv, RowsGood
  <2> QED BY <1>1, <2>1, <2>2 DEF RowsGood
<1>7. RowsMove
  <2>1. \A a \in Attempt : Mandates!Holds(a) => request[a].checkout \in Checkout \ {c}
    BY <1>1, <1>3 DEF Mandates!Free, MandateIInv, Attempts, Carried, Mandates!Holds
  <2> QED BY <1>4, <1>5, <2>1 DEF RowsMove
<1>8. NoncesGood' /\ NoncesMove
  BY <1>1, <1>7, SameNonces DEF MandateIInv
<1> QED BY <1>1, <1>6, <1>7, <1>8, NobodyMoves

\* The buyer's request, with a mandate over what it was shown.
LEMMA PurchaseKeeps ==
  ASSUME Mandates!MandateAssumption, MandateIInv, NEW a \in Attempt, NEW choice \in Choices(a), Mandates!purchase(a, choice)
  PROVE  MandateIInv'
<1>0. choice \in Mandates!Choice
  BY DEF Mandates!MandateAssumption
<1>1. /\ pc[a] = "idle" /\ pc' = [pc EXCEPT ![a] = "sent"]
      /\ UNCHANGED <<row, nonce, update, accepted, charge>>
      /\ request' = [request EXCEPT ![a] =
           [checkout |-> choice.checkout, handler |-> choice.handler,
            mandate |-> Mandates!checkoutMandate(choice), payment |-> Mandates!paymentMandate(choice)]]
  BY DEF Mandates!purchase
<1>2. pc'[a] = "sent" /\ \A b \in Attempt \ {a} : pc'[b] = pc[b] /\ request'[b] = request[b]
  BY <1>1 DEF MandateIInv, Attempts
<1>3. a \notin accepted
  BY <1>1 DEF MandateIInv, Attempts, Checked
<1>4. /\ request'[a].checkout \in Checkout
      /\ request'[a].mandate.nonce \in Checkout
      /\ request'[a].mandate.form \in Forms
  <2>1. request'[a].checkout = choice.checkout /\ request'[a].mandate = Mandates!checkoutMandate(choice)
    BY <1>1 DEF MandateIInv, Attempts
  <2>2. Mandates!checkoutMandate(choice).nonce = choice.nonce /\ Mandates!checkoutMandate(choice).form = choice.form
    BY DEF Mandates!checkoutMandate, Mandates!issueSdJwtKbPresentation, Mandates!signCompactJws
  <2> QED BY <1>0, <2>1, <2>2 DEF Mandates!Choice, Forms
<1>5. RowsGood'
  BY <1>1 DEF MandateIInv, RowsGood, Opened
<1>6. RowsMove
  BY <1>1, SameRows DEF MandateIInv
<1>7. NoncesGood' /\ NoncesMove
  BY <1>1, <1>6, SameNonces DEF MandateIInv
<1>8. Attempts'
  <2>1. Carried(a)'
    BY <1>4 DEF Carried
  <2>2. Checked(a)'
    BY <1>1, <1>2, <1>3 DEF Checked, Mandates!Holds
  <2>3. ASSUME NEW b \in Attempt \ {a} PROVE Carried(b)' /\ Checked(b)'
    <3>1. Carried(b) /\ Checked(b) /\ pc'[b] = pc[b] /\ request'[b] = request[b]
      BY <1>2 DEF MandateIInv, Attempts
    <3>2. Carried(b)'
      BY <3>1 DEF Carried
    <3>3. Checked(b)'
      BY <1>1, <3>1 DEF Checked, Mandates!Holds, Opened, Mandated, Mandates!checkoutTermsMatch
    <3> QED BY <3>2, <3>3
  <2>4. DOMAIN pc' = Attempt /\ DOMAIN request' = Attempt /\ accepted' \subseteq Attempt
    BY <1>1 DEF MandateIInv, Attempts
  <2> QED BY <2>1, <2>2, <2>3, <2>4 DEF Attempts
<1>9. \A b \in accepted : request'[b] = request[b]
  BY <1>2, <1>3 DEF MandateIInv, Attempts
<1>10. Charges'
  BY <1>1, <1>9, ChargesStay DEF MandateIInv
<1>11. Spends'
  BY <1>1, <1>6, <1>7, <1>9, SpendsStay DEF MandateIInv
<1> QED BY <1>5, <1>7, <1>8, <1>10, <1>11 DEF MandateIInv

\* An attempt is answered: the session gets a status, nothing is accepted.
LEMMA AnsweredMoves ==
  ASSUME MandateIInv, NEW a \in Attempt, pc[a] # "idle", NEW status, NEW what, Mandates!Answered(a, status, what),
         (status \in Status /\ Mandates!Holds(a)) \/ status = Mandates!Stays(a),
         UNCHANGED <<request, update>>, accepted' = accepted
  PROVE  RowsGood' /\ RowsMove /\ Attempts'
<1>1. request[a].checkout \in Checkout
  BY DEF MandateIInv, Attempts, Carried
<1>2. status \in Status => status = Mandates!Stays(a) \/ Opened(request[a].checkout)
  BY DEF MandateIInv, Attempts, Checked
<1>3. RowsGood' /\ RowsMove
  BY <1>1, <1>2, StatusMoves DEF MandateIInv, Mandates!Answered, Mandates!Stays
<1>4. pc'[a] = "ended" /\ DOMAIN pc' = Attempt /\ \A b \in Attempt \ {a} : pc'[b] = pc[b]
  BY DEF MandateIInv, Attempts, Mandates!Answered
<1>5. Carried(a)' /\ Checked(a)'
  <2>1. Carried(a)
    BY DEF MandateIInv, Attempts
  <2>2. Carried(a)'
    BY <2>1 DEF Carried
  <2> QED BY <1>4, <2>2 DEF Checked, Mandates!Holds
<1>6. Attempts'
  BY <1>3, <1>4, <1>5, AttemptsMove DEF MandateIInv, Attempts
<1> QED BY <1>3, <1>6

LEMMA PreparedAnswers ==
  ASSUME NEW a, NEW status, NEW what, Mandates!Prepared(a, status, what)
  PROVE  \E told : Mandates!Answered(a, status, told)
  BY DEF Mandates!Prepared

LEMMA CompleteKeeps ==
  ASSUME MandateIInv, NEW a \in Attempt, Mandates!completeCheckout(a)
  PROVE  MandateIInv'
<1>1. pc[a] = "sent" /\ UNCHANGED <<nonce, request, update, charge, accepted>>
  BY DEF Mandates!completeCheckout
<1>2. request[a].checkout \in Checkout /\ Carried(a) /\ Checked(a)
  BY <1>1 DEF MandateIInv, Attempts, Carried
<1>3. RowsGood' /\ RowsMove /\ Attempts'
  <2>1. ASSUME NEW what, Mandates!Answered(a, Mandates!Stays(a), what) PROVE RowsGood' /\ RowsMove /\ Attempts'
    BY <1>1, <2>1, AnsweredMoves
  <2>2. CASE /\ ~Mandates!MandateRequired(a) /\ row[request[a].checkout].status = "ready"
             /\ row' = [row EXCEPT ![request[a].checkout].status = "complete_in_progress"]
             /\ pc' = [pc EXCEPT ![a] = "claimed"]
    <3>1. Opened(request[a].checkout) /\ "complete_in_progress" \in Status
      BY <2>2 DEF Opened, Status
    <3>2. RowsGood' /\ RowsMove
      BY <1>1, <1>2, <2>2, <3>1, StatusMoves DEF MandateIInv
    <3>3. pc'[a] = "claimed" /\ DOMAIN pc' = Attempt /\ \A b \in Attempt \ {a} : pc'[b] = pc[b]
      BY <2>2 DEF MandateIInv, Attempts
    <3>4. Carried(a)'
      BY <1>1, <1>2 DEF Carried
    <3>5. request[a].checkout \in Locked => request[a].mandate.form # "absent"
      BY <2>2 DEF Mandates!MandateRequired, Mandates!isValidAp2EnvelopeOnRequest
    <3>6. a \notin accepted
      BY <1>1, <1>2 DEF Checked
    <3>7. Opened(request[a].checkout)'
      BY <1>1, <1>2, <3>1, <3>2 DEF RowsMove
    <3>8. Checked(a)'
      BY <1>1, <3>3, <3>5, <3>6, <3>7 DEF Checked
    <3>9. Attempts'
      BY <1>1, <3>2, <3>3, <3>4, <3>8, AttemptsMove DEF MandateIInv, Attempts
    <3> QED BY <3>2, <3>9
  <2> QED BY <2>1, <2>2 DEF Mandates!completeCheckout
<1>4. NoncesGood' /\ NoncesMove
  BY <1>1, <1>3, SameNonces DEF MandateIInv
<1>5. Charges' /\ Spends'
  BY <1>1, <1>3, <1>4, ChargesStay, SpendsStay DEF MandateIInv
<1> QED BY <1>3, <1>4, <1>5 DEF MandateIInv

\* An answer to an attempt that has claimed its session, with no effect but on the row.
LEMMA EndKeeps ==
  ASSUME MandateIInv, NEW a \in Attempt, Mandates!Holds(a), NEW status, NEW what, Mandates!Answered(a, status, what),
         status \in Status \/ status = Mandates!Stays(a),
         UNCHANGED <<nonce, request, update, accepted>>
  PROVE  RowsGood' /\ NoncesGood' /\ Attempts' /\ Spends'
<1>1. pc[a] # "idle"
  BY DEF Mandates!Holds
<1>2. RowsGood' /\ RowsMove /\ Attempts'
  BY <1>1, AnsweredMoves
<1>3. NoncesGood' /\ NoncesMove
  BY <1>2, SameNonces DEF MandateIInv
<1> QED BY <1>2, <1>3, SpendsStay DEF MandateIInv

LEMMA VerifyKeeps ==
  ASSUME MandateIInv, NEW a \in Attempt, Mandates!verify(a)
  PROVE  MandateIInv'
<1>1. pc[a] = "claimed" /\ Mandates!Holds(a) /\ UNCHANGED <<nonce, request, update, charge>>
  BY DEF Mandates!verify, Mandates!Holds
<1>2. Carried(a) /\ Checked(a) /\ a \notin accepted
  BY <1>1 DEF MandateIInv, Attempts, Checked
<1>3. ASSUME NEW what, Mandates!Prepared(a, "canceled", what), accepted' = accepted PROVE MandateIInv'
  <2>1. PICK told : Mandates!Answered(a, "canceled", told)
    BY <1>3, PreparedAnswers
  <2>2. RowsGood' /\ NoncesGood' /\ Attempts' /\ Spends'
    BY <1>1, <1>3, <2>1, EndKeeps DEF Status
  <2>3. Charges'
    BY <1>1, <1>3, ChargesStay DEF MandateIInv
  <2> QED BY <2>2, <2>3 DEF MandateIInv
<1>4. CASE /\ Mandates!verdict(a) = "ok"
           /\ pc' = [pc EXCEPT ![a] = IF request[a].checkout \in Locked THEN "verified" ELSE "paying"]
           /\ accepted' = IF request[a].checkout \in Locked THEN accepted ELSE accepted \cup {a}
           /\ row' = row
  <2>1. Mandated(a) /\ Mandates!checkoutTermsMatch(a)
    BY <1>1, <1>2, <1>4, VerifiedIsGood
  <2>2. /\ pc'[a] = IF request[a].checkout \in Locked THEN "verified" ELSE "paying"
        /\ DOMAIN pc' = Attempt /\ \A b \in Attempt \ {a} : pc'[b] = pc[b]
    BY <1>4 DEF MandateIInv, Attempts
  <2>3. RowsGood'
    BY <1>1, <1>4 DEF MandateIInv, RowsGood, Opened
  <2>4. RowsMove
    BY <1>4, SameRows DEF MandateIInv
  <2>5. NoncesGood' /\ NoncesMove
    BY <1>1, <2>4, SameNonces DEF MandateIInv
  <2>6. Carried(a)'
    BY <1>1, <1>2 DEF Carried
  <2>7. Mandated(a)' /\ Mandates!checkoutTermsMatch(a)'
    BY <1>1, <1>4, <2>1 DEF Mandated, Mandates!checkoutTermsMatch
  <2>8. Opened(request[a].checkout)'
    BY <1>1, <1>2, <1>4 DEF Checked, Opened
  <2>9. Checked(a)'
    BY <1>1, <1>2, <1>4, <2>2, <2>7, <2>8 DEF Checked
  <2>10. Attempts'
    BY <1>1, <1>4, <2>2, <2>4, <2>6, <2>9, AttemptsMove DEF MandateIInv, Attempts
  <2>11. Charges'
    BY <1>1, <1>4, ChargesStay DEF MandateIInv
  <2>12. Spends'
    <3>1. ASSUME NEW b \in accepted' PROVE Spent(b)'
      <4>1. CASE b \in accepted
        BY <1>1, <2>4, <2>5, <4>1, SpentStays DEF MandateIInv
      <4>2. CASE b \notin accepted
        <5>1. b = a /\ request[a].checkout \notin Locked
          BY <1>4, <3>1, <4>2
        <5> QED BY <1>1, <5>1 DEF Spent
      <4> QED BY <4>1, <4>2
    <3>2. Mandates!MandateUsedOnce'
      <4>1. \A b \in accepted' : request[b].checkout \in Locked => b \in accepted
        BY <1>4
      <4> QED BY <1>1, <4>1 DEF MandateIInv, Spends, Mandates!MandateUsedOnce
    <3> QED BY <3>1, <3>2 DEF Spends
  <2> QED BY <2>3, <2>5, <2>10, <2>11, <2>12 DEF MandateIInv
<1> QED BY <1>3, <1>4 DEF Mandates!verify

\* The nonce is spent when the mandate is accepted, and nobody had spent it before.
LEMMA ConsumeKeeps ==
  ASSUME MandateIInv, NEW a \in Attempt, Mandates!consumeNonce(a)
  PROVE  MandateIInv'
<1>1. pc[a] = "verified" /\ Mandates!Holds(a) /\ UNCHANGED <<request, update, charge>>
  BY DEF Mandates!consumeNonce, Mandates!Holds
<1>2. Carried(a) /\ Checked(a) /\ a \notin accepted
  BY <1>1 DEF MandateIInv, Attempts, Checked
<1> DEFINE n == <<request[a].mandate.nonce, "checkout">>
           s == request[a].checkout
<1>3. n \in Mandates!Nonce /\ n[1] \in Checkout /\ n[1] = request[a].mandate.nonce
  BY <1>1, <1>2 DEF Carried, Mandates!Nonce
<1>4. nonce' = Mandates!AfterConsume(n, s)
  BY DEF Mandates!consumeNonce
<1>5. PICK m \in Mandates!Nonce : m = n
  BY <1>3
<1>6. nonce[m] \in Record /\ Mandates!NoRecord \in Record
  BY DEF MandateIInv, NoncesGood, Record, Mandates!NoRecord
<1>7. Mandates!consumed(n, s) = "ok" =>
        /\ nonce[m] # Mandates!NoRecord /\ ~nonce[m].consumed
        /\ nonce' = [nonce EXCEPT ![m].consumed = TRUE]
  BY <1>4, <1>5 DEF Mandates!AfterConsume, Mandates!consumed
<1>8. Mandates!consumed(n, s) = "expired" => nonce' = [nonce EXCEPT ![m] = Mandates!NoRecord]
  BY <1>4, <1>5 DEF Mandates!AfterConsume
<1>9. Mandates!consumed(n, s) \notin {"ok", "expired"} => nonce' = nonce
  BY <1>4 DEF Mandates!AfterConsume
<1>10. \E new \in Record :
        /\ nonce' = [nonce EXCEPT ![m] = new]
        /\ new # Mandates!NoRecord => nonce[m] # Mandates!NoRecord
        /\ nonce[m] = Mandates!NoRecord \/ nonce[m].consumed => new = Mandates!NoRecord \/ new.consumed
        /\ Mandates!consumed(n, s) = "ok" => nonce[m] # Mandates!NoRecord /\ ~nonce[m].consumed /\ new.consumed
  <2>1. CASE Mandates!consumed(n, s) = "ok"
    <3> DEFINE new == [nonce[m] EXCEPT !.consumed = TRUE]
    <3>1. new \in Record /\ new.consumed
      BY <1>6 DEF Record
    <3>2. nonce' = [nonce EXCEPT ![m] = new]
      BY <1>7, <2>1
    <3> HIDE DEF new
    <3> QED BY <1>7, <2>1, <3>1, <3>2
  <2>2. CASE Mandates!consumed(n, s) = "expired"
    BY <1>6, <1>8, <2>2
  <2>3. CASE Mandates!consumed(n, s) \notin {"ok", "expired"}
    <3>1. nonce' = [nonce EXCEPT ![m] = nonce[m]]
      BY <1>9, <2>3 DEF MandateIInv, NoncesGood
    <3> QED BY <1>6, <2>3, <3>1
  <2> QED BY <2>1, <2>2, <2>3
<1>11. PICK new \in Record :
        /\ nonce' = [nonce EXCEPT ![m] = new]
        /\ new # Mandates!NoRecord => nonce[m] # Mandates!NoRecord
        /\ nonce[m] = Mandates!NoRecord \/ nonce[m].consumed => new = Mandates!NoRecord \/ new.consumed
        /\ Mandates!consumed(n, s) = "ok" => nonce[m] # Mandates!NoRecord /\ ~nonce[m].consumed /\ new.consumed
  BY <1>10
<1>12. nonce' \in [Mandates!Nonce -> Record] /\ nonce'[m] = new /\ \A k \in Mandates!Nonce \ {m} : nonce'[k] = nonce[k]
  BY <1>11 DEF MandateIInv, NoncesGood
<1>13. NoncesMove
  BY <1>11, <1>12 DEF NoncesMove
<1>14. ASSUME RowsMove PROVE NoncesGood'
  <2>1. \A k \in Mandates!Nonce : k[1] \in Checkout
    BY DEF Mandates!Nonce
  <2>2. ASSUME NEW k \in Mandates!Nonce, nonce'[k] # Mandates!NoRecord PROVE Opened(k[1])'
    <3>1. nonce[k] # Mandates!NoRecord
      BY <1>11, <1>12, <2>2
    <3> QED BY <1>14, <2>1, <3>1 DEF MandateIInv, NoncesGood, RowsMove
  <2> QED BY <1>12, <2>2 DEF NoncesGood
<1>15. ASSUME Mandates!consumed(n, s) = "ok", pc' = [pc EXCEPT ![a] = "paying"],
              accepted' = accepted \cup {a}, row' = row
       PROVE  MandateIInv'
  <2>1. pc'[a] = "paying" /\ DOMAIN pc' = Attempt /\ \A b \in Attempt \ {a} : pc'[b] = pc[b]
    BY <1>15 DEF MandateIInv, Attempts
  <2>2. RowsGood'
    BY <1>1, <1>15 DEF MandateIInv, RowsGood, Opened
  <2>3. RowsMove
    BY <1>15, SameRows DEF MandateIInv
  <2>4. Carried(a)'
    BY <1>1, <1>2 DEF Carried
  <2>5. Mandated(a)' /\ Mandates!checkoutTermsMatch(a)'
    BY <1>1, <1>2, <1>15 DEF Checked, Mandated, Mandates!checkoutTermsMatch
  <2>6. Opened(request[a].checkout)'
    BY <1>1, <1>2, <1>15 DEF Checked, Opened
  <2>7. Checked(a)'
    BY <1>1, <1>15, <2>1, <2>5, <2>6 DEF Checked
  <2>8. Attempts'
    BY <1>1, <1>15, <2>1, <2>3, <2>4, <2>7, AttemptsMove DEF MandateIInv, Attempts
  <2>9. Charges'
    BY <1>1, <1>15, ChargesStay DEF MandateIInv
  <2>10. Spent(a)'
    <3>1. nonce[m] # Mandates!NoRecord /\ new.consumed
      BY <1>11, <1>15
    <3>2. Opened(m[1])' /\ nonce'[m].consumed
      BY <1>3, <1>5, <1>12, <2>3, <3>1 DEF MandateIInv, NoncesGood, RowsMove
    <3>3. m = <<request'[a].mandate.nonce, "checkout">>
      BY <1>1, <1>5
    <3> QED BY <3>2, <3>3 DEF Spent
  <2>11. ASSUME NEW b \in accepted, request[b].checkout \in Locked
         PROVE  request[b].mandate.nonce # request[a].mandate.nonce
    <3>1. LET k == <<request[b].mandate.nonce, "checkout">> IN nonce[k] = Mandates!NoRecord \/ nonce[k].consumed
      BY <2>11 DEF MandateIInv, Spends, Spent
    <3>2. nonce[n] # Mandates!NoRecord /\ ~nonce[n].consumed
      BY <1>5, <1>11, <1>15
    <3> QED BY <3>1, <3>2
  <2>12. Mandates!MandateUsedOnce'
    <3> SUFFICES ASSUME NEW b \in accepted', NEW d \in accepted', b # d,
                        request'[b].checkout \in Locked, request'[d].checkout \in Locked
                 PROVE  request'[b].mandate.nonce # request'[d].mandate.nonce
      BY DEF Mandates!MandateUsedOnce
    <3>1. request[b].checkout \in Locked /\ request[d].checkout \in Locked
      BY <1>1
    <3>2. CASE b = a
      BY <1>1, <1>15, <2>11, <3>1, <3>2
    <3>3. CASE d = a
      BY <1>1, <1>15, <2>11, <3>1, <3>3
    <3>4. CASE b # a /\ d # a
      BY <1>1, <1>15, <3>1, <3>4 DEF MandateIInv, Spends, Mandates!MandateUsedOnce
    <3> QED BY <3>2, <3>3, <3>4
  <2>13. Spends'
    <3>1. ASSUME NEW b \in accepted PROVE Spent(b)'
      BY <1>1, <1>13, <2>3, SpentStays DEF MandateIInv
    <3> QED BY <1>15, <2>10, <2>12, <3>1 DEF Spends
  <2>14. NoncesGood'
    BY <1>14, <2>3
  <2> QED BY <2>2, <2>8, <2>9, <2>13, <2>14 DEF MandateIInv
<1>16. ASSUME Mandates!Prepared(a, "canceled", "mandate_invalid_signature"), accepted' = accepted
       PROVE  MandateIInv'
  <2>1. PICK told : Mandates!Answered(a, "canceled", told)
    BY <1>16, PreparedAnswers
  <2>2. RowsGood' /\ RowsMove /\ Attempts'
    BY <1>1, <1>16, <2>1, AnsweredMoves DEF Status
  <2>3. NoncesGood'
    BY <1>14, <2>2
  <2>4. Charges'
    BY <1>1, <1>16, ChargesStay DEF MandateIInv
  <2>5. Spends'
    BY <1>1, <1>13, <1>16, <2>2, SpendsStay DEF MandateIInv
  <2> QED BY <2>2, <2>3, <2>4, <2>5 DEF MandateIInv
<1> QED BY <1>15, <1>16 DEF Mandates!consumeNonce

\* A charge is for the terms of the row, which the mandate of the claim is over.
LEMMA CaptureKeeps ==
  ASSUME MandateIInv, NEW a \in Attempt, Mandates!capture(a)
  PROVE  MandateIInv'
<1>1. /\ pc[a] = "paying" /\ Mandates!Holds(a) /\ UNCHANGED <<nonce, request, update, accepted>>
  BY DEF Mandates!capture, Mandates!Holds
<1>2. Carried(a) /\ Checked(a) /\ a \in accepted /\ Mandated(a) /\ Mandates!checkoutTermsMatch(a)
  BY <1>1 DEF MandateIInv, Attempts, Checked
<1>3. RowsGood' /\ NoncesGood' /\ Attempts' /\ Spends'
  <2>1. ASSUME NEW status \in Status, NEW what, Mandates!Prepared(a, status, what)
        PROVE  RowsGood' /\ NoncesGood' /\ Attempts' /\ Spends'
    <3>1. PICK told : Mandates!Answered(a, status, told)
      BY <2>1, PreparedAnswers
    <3> QED BY <1>1, <3>1, EndKeeps
  <2>2. ASSUME NEW what, Mandates!Answered(a, Mandates!Stays(a), what)
        PROVE  RowsGood' /\ NoncesGood' /\ Attempts' /\ Spends'
    BY <1>1, <2>2, EndKeeps
  <2> QED BY <2>1, <2>2 DEF Mandates!capture, Status
<1>4. Charges'
  <2>1. CASE charge' = charge
    BY <1>1, <2>1, ChargesStay DEF MandateIInv
  <2>2. CASE charge' # charge
    <3>1. PICK c \in Checkout : c = request[a].checkout
      BY <1>1, <1>2 DEF Carried
    <3>2. charge' = [charge EXCEPT ![c] = [terms |-> row[c].terms, at |-> now]]
      BY <2>2, <3>1 DEF Mandates!capture, Mandates!Charged
    <3>3. Mandates!WithMandate(a) => Mandates!paymentMandateHolds(a)
      BY <2>2 DEF Mandates!capture
    <3>4. Mandates!WithMandate(a) => now < request[a].mandate.exp /\ now < request[a].payment.exp
      BY <3>3 DEF Mandates!paymentMandateHolds
    <3>5. /\ DOMAIN charge' = Checkout
          /\ charge'[c] = [terms |-> row[c].terms, at |-> now]
          /\ \A d \in Checkout \ {c} : charge'[d] = charge[d]
      BY <3>2 DEF MandateIInv, Charges
    <3>6. request[a].mandate.terms = charge'[c].terms /\ charge'[c].at = now
      BY <1>2, <3>1, <3>5 DEF Mandates!checkoutTermsMatch
    <3>7. \A b \in Attempt : Mandates!WithMandate(b)' = Mandates!WithMandate(b)
      BY <1>1 DEF Mandates!WithMandate
    <3> SUFFICES ASSUME NEW d \in Checkout, charge'[d] # Mandates!NoCharge
                 PROVE  \E b \in accepted' :
                          /\ request'[b].checkout = d
                          /\ request'[b].mandate.form = "good"
                          /\ request'[b].mandate.terms = charge'[d].terms
                          /\ Mandates!WithMandate(b)' => /\ charge'[d].at < request'[b].mandate.exp
                                                /\ charge'[d].at < request'[b].payment.exp
      BY <3>5 DEF Charges, Mandates!ChargeIsMandated
    <3>8. CASE d = c
      <4>1. /\ a \in accepted' /\ request'[a].checkout = d /\ request'[a].mandate.form = "good"
            /\ request'[a].mandate.terms = charge'[d].terms
        BY <1>1, <1>2, <3>1, <3>6, <3>8 DEF Mandated
      <4>2. Mandates!WithMandate(a)' => /\ charge'[d].at < request'[a].mandate.exp
                               /\ charge'[d].at < request'[a].payment.exp
        BY <1>1, <3>4, <3>6, <3>7, <3>8
      <4> QED BY <4>1, <4>2
    <3>9. CASE d # c
      <4>1. PICK b \in accepted :
              /\ request[b].checkout = d
              /\ request[b].mandate.form = "good"
              /\ request[b].mandate.terms = charge[d].terms
              /\ Mandates!WithMandate(b) => charge[d].at < request[b].mandate.exp /\ charge[d].at < request[b].payment.exp
        BY <3>5, <3>9 DEF MandateIInv, Charges, Mandates!ChargeIsMandated
      <4>2. b \in Attempt /\ b \in accepted' /\ request' = request /\ charge'[d] = charge[d]
        BY <1>1, <3>5, <3>9 DEF MandateIInv, Attempts
      <4> QED BY <3>7, <4>1, <4>2
    <3> QED BY <3>8, <3>9
  <2> QED BY <2>1, <2>2
<1> QED BY <1>3, <1>4 DEF MandateIInv

LEMMA MandateStepKeeps ==
  ASSUME Mandates!MandateAssumption
  PROVE  MandateIInv /\ now \in Nat /\ [Mandates!Next]_(Mandates!vars) => MandateIInv' /\ now' \in Nat
<1> SUFFICES ASSUME MandateIInv, now \in Nat, [Mandates!Next]_(Mandates!vars) PROVE MandateIInv' /\ now' \in Nat
  OBVIOUS
<1>1. now' \in {now, now + 1}
  BY DEF Mandates!Next, Mandates!vars, Mandates!createCheckout, Mandates!getCheckout, Mandates!updateRead, Mandates!updateWrite, Mandates!purchase, Mandates!completeCheckout,
         Mandates!verify, Mandates!consumeNonce, Mandates!capture, Mandates!Tick
<1>2. MandateIInv'
  BY CreateKeeps, ReadsKeep, UpdateReadKeeps, UpdateWriteKeeps, PurchaseKeeps, CompleteKeeps,
     VerifyKeeps, ConsumeKeeps, CaptureKeeps DEF Mandates!Next
<1> QED BY <1>1, <1>2

LEMMA MandateInitKeeps == Mandates!Init => MandateIInv /\ now \in Nat
<1> SUFFICES ASSUME Mandates!Init PROVE MandateIInv /\ now \in Nat
  OBVIOUS
<1>1. RowsGood
  BY DEF Mandates!Init, RowsGood, Row, Mandates!Absent
<1>2. NoncesGood
  BY DEF Mandates!Init, NoncesGood, Record, Mandates!NoRecord
<1>3. Attempts
  BY DEF Mandates!Init, Attempts, Carried, Checked, Mandates!Holds
<1>4. Charges
  BY DEF Mandates!Init, Charges, Mandates!ChargeIsMandated
<1>5. Spends
  BY DEF Mandates!Init, Spends, Mandates!MandateUsedOnce
<1> QED BY <1>1, <1>2, <1>3, <1>4, <1>5 DEF MandateIInv, Mandates!Init

LEMMA Always == ASSUME Mandates!MandateAssumption PROVE Mandates!Spec => [](MandateIInv /\ now \in Nat)
<1>1. MandateIInv /\ now \in Nat /\ [Mandates!Next]_(Mandates!vars) => (MandateIInv /\ now \in Nat)'
  BY MandateStepKeeps
<1> QED BY <1>1, MandateInitKeeps, PTL DEF Mandates!Spec

\* completeCheckout and the provider's capture (merchant/src/checkout/server.ts, ucp-signing): whatever
\* updates and attempts there are, a charge is for terms the buyer signed for this
\* checkout, and a payment mandate it was made with was still in force.
THEOREM ChargesAreMandated == ASSUME Mandates!MandateAssumption PROVE Mandates!Spec => []Mandates!ChargeIsMandated
<1>1. MandateIInv => Mandates!ChargeIsMandated
  BY DEF MandateIInv, Charges
<1> QED BY <1>1, Always, PTL

\* The nonce store's consume (merchant/src/checkout): a nonce lets one mandate of a locked
\* checkout through, for ever: it is spent, expires or is pruned, and never issued again.
THEOREM MandatesAreUsedOnce == ASSUME Mandates!MandateAssumption PROVE Mandates!Spec => []Mandates!MandateUsedOnce
<1>1. MandateIInv => Mandates!MandateUsedOnce
  BY DEF MandateIInv, Spends
<1> QED BY <1>1, Always, PTL

(***************************************************************************)
(* MCP exchanges                                                           *)
(***************************************************************************)
CONSTANTS Exchange, Session, Requests(_), Kids, Alterations, SigningEnabled
VARIABLES alive, open, asked, reached, buffer, sent, heard

Mcp == INSTANCE McpExchange WITH step <- reached, got <- heard

\* A request that passes both halves of the verifier is from a key that was found, and
\* as that key's owner signed it.
BothPass(w) == \A found \in BOOLEAN : Mcp!beforeKey(w) = "ok" /\ Mcp!afterKey(w, found) = "ok" => found /\ AsSigned(w)

\* The operators of the instance are the ones proved about above.
LEMMA SameSignatures ==
  ASSUME NEW w, NEW found
  PROVE  Mcp!Wire = Wire /\ Mcp!beforeKey(w) = beforeKey(w) /\ Mcp!afterKey(w, found) = afterKey(w, found)
<1>1. Mcp!checksBeforeKey(w) = checksBeforeKey(w)
  BY DEF isMutatingMethod, mandatoryHeaders, missingMandatoryHeader, ucpRequestComponents,
           missingRequiredComponent, verifyContentDigest, parseSf941Dict, parseSignatureInput,
           parseSignature, parseUcpAgentProfileUrl, checksBeforeKey, Mcp!isMutatingMethod,
           Mcp!mandatoryHeaders, Mcp!missingMandatoryHeader, Mcp!ucpRequestComponents,
           Mcp!missingRequiredComponent, Mcp!verifyContentDigest, Mcp!parseSf941Dict,
           Mcp!parseSignatureInput, Mcp!parseSignature, Mcp!parseUcpAgentProfileUrl,
           Mcp!checksBeforeKey
<1>2. \A checks : Mcp!firstFailing(checks) = firstFailing(checks)
  BY DEF firstFailing, Mcp!firstFailing
<1>3. Mcp!beforeKey(w) = beforeKey(w)
  BY <1>1, <1>2 DEF beforeKey, Mcp!beforeKey
<1>4. Mcp!afterKey(w, found) = afterKey(w, found)
  BY DEF Header, Derived, buildSignatureBase, componentValue, ecdsaVerifyRaw, afterKey,
           Mcp!Header, Mcp!Derived, Mcp!buildSignatureBase, Mcp!componentValue, Mcp!ecdsaVerifyRaw,
           Mcp!afterKey
<1>5. Mcp!Wire = Wire
  BY DEF Header, Derived, Part, Wire, Mcp!Header, Mcp!Derived, Mcp!Part, Mcp!Wire
<1> QED BY <1>3, <1>4, <1>5

LEMMA LetInIsSigned ==
  ASSUME NEW w \in Mcp!Wire, Sent(w) PROVE BothPass(w)
BY VerifiedIsSigned, SameSignatures DEF BothPass

\* Requests sent as the buyer's signer leaves them; see RequestsSent.
McpRequestsSent == \A e \in Exchange : \A x \in Requests(e) : Sent(x.wire)

\* A response that reports success is the transport's answer and nothing else.
Clean(response) == response.status = 200 => response.chunks \in {<<>>, <<"result">>}

\* A signature of the server's, or none.
OwnReply(reply) == reply = Mcp!NoReply \/ \E body \in BOOLEAN : reply = Mcp!signUcpResponse(body, "server")

\* Where an exchange is, and what was found out about its request and its response.
Exchanged(e) ==
  /\ DOMAIN buffer[e] = {"status", "chunks", "session"}
  /\ reached[e] \in {"idle", "looking"} => buffer[e] = Mcp!Empty
  /\ reached[e] = "looking" => asked[e] \in Requests(e) /\ Mcp!beforeKey(asked[e].wire) = "ok"
  /\ HmsEnabled /\ (reached[e] \in {"calling", "opening", "signing", "again"} \/ buffer[e] # Mcp!Empty) =>
       asked[e].wire.kid \in Kids /\ AsSigned(asked[e].wire)
  /\ Clean(buffer[e]) /\ Clean(sent[e]) /\ OwnReply(sent[e].reply)
  /\ heard[e].verdict = "ok" => heard[e].altered \cap {"@status", "body"} = {}

McpInv ==
  /\ DOMAIN asked = Exchange /\ DOMAIN reached = Exchange /\ DOMAIN buffer = Exchange
  /\ DOMAIN sent = Exchange /\ DOMAIN heard = Exchange
  /\ \A e \in Exchange : Exchanged(e)

\* A response is accepted when none of the checks, made in their order, fails.
LEMMA AcceptedPasses ==
  ASSUME NEW w, NEW found, Mcp!verifyUcpResponse(w, found) = "ok"
  PROVE  /\ w.syntax \notin {"absent", "no_signature"}
         /\ Mcp!ucpResponseComponents(w.body) \subseteq w.covers
         /\ Mcp!verifyContentDigest(w) /\ Mcp!ecdsaVerifyRaw(w)
<1> DEFINE checks == Mcp!checksOfResponse(w, found)
           failing == {i \in DOMAIN checks : checks[i].fails}
           first == CHOOSE i \in failing : \A j \in failing : i <= j
<1>1. /\ DOMAIN checks = 1..5
      /\ checks[1].reason = "signature_missing" /\ checks[2].reason = "signature_invalid"
      /\ checks[3].reason = "digest_mismatch" /\ checks[4].reason = "key_not_found"
      /\ checks[5].reason = "signature_invalid"
  BY DEF Mcp!checksOfResponse
<1>2. /\ w.syntax \in {"absent", "no_signature"} => checks[1].fails
      /\ ~(Mcp!ucpResponseComponents(w.body) \subseteq w.covers) => checks[2].fails
      /\ ~Mcp!verifyContentDigest(w) => checks[3].fails
      /\ ~Mcp!ecdsaVerifyRaw(w) => checks[5].fails
  BY DEF Mcp!checksOfResponse
<1>3. Mcp!verifyUcpResponse(w, found) = IF failing = {} THEN "ok" ELSE checks[first].reason
  BY DEF Mcp!verifyUcpResponse, Mcp!firstFailing
<1> HIDE DEF checks
<1>4. CASE failing = {}
  <2>1. ~checks[1].fails /\ ~checks[2].fails /\ ~checks[3].fails /\ ~checks[5].fails
    BY <1>1, <1>4
  <2> QED BY <1>2, <2>1
<1>5. CASE failing # {}
  <2>1. failing \in SUBSET (1..6) /\ failing \subseteq 1..5
    BY <1>1
  <2>2. first \in failing
    BY <1>5, <2>1, LeastOfSix
  <2> HIDE DEF first
  <2>3. first \in 1..5
    BY <2>1, <2>2
  <2> HIDE DEF failing
  <2>4. first = 1 \/ first = 2 \/ first = 3 \/ first = 4 \/ first = 5
    BY <2>3
  <2>5. checks[first].reason # "ok"
    BY <1>1, <2>4
  <2> QED BY <1>3, <1>5, <2>5
<1> QED BY <1>4, <1>5

\* A reply that is accepted has arrived as it left: its status is signed, and so is the
\* digest of its body, or it has none.
LEMMA AcceptedIsSigned ==
  ASSUME NEW reply, OwnReply(reply), NEW altered, NEW found, NEW w,
         w = [reply EXCEPT !.altered = altered, !.body = @ \/ "body" \in altered],
         Mcp!verifyUcpResponse(w, found) = "ok"
  PROVE  altered \cap {"@status", "body"} = {}
<1>1. /\ w.syntax \notin {"absent", "no_signature"}
      /\ Mcp!ucpResponseComponents(w.body) \subseteq w.covers
      /\ Mcp!verifyContentDigest(w) /\ Mcp!ecdsaVerifyRaw(w)
  BY AcceptedPasses
<1>2. reply # Mcp!NoReply
  BY <1>1 DEF Mcp!NoReply
<1>3. PICK body \in BOOLEAN : reply = Mcp!signUcpResponse(body, "server")
  BY <1>2 DEF OwnReply
<1>4. /\ w.altered = altered /\ w.covers = Mcp!ucpResponseComponents(body)
      /\ w.body = (body \/ "body" \in altered)
      /\ w.headers = (IF body THEN {"content-type", "content-digest"} ELSE {})
  BY <1>3 DEF Mcp!signUcpResponse
<1>5. Mcp!ucpResponseComponents(body) \cap altered = {}
  BY <1>1, <1>4 DEF Mcp!ecdsaVerifyRaw
<1>6. "@status" \notin altered
  BY <1>5 DEF Mcp!ucpResponseComponents
<1>7. "body" \notin altered
  <2> SUFFICES ASSUME "body" \in altered PROVE FALSE
    OBVIOUS
  <2>1. w.body
    BY <1>4
  <2>2. "content-digest" \in Mcp!ucpResponseComponents(body)
    BY <1>1, <1>4, <2>1 DEF Mcp!ucpResponseComponents
  <2>3. body
    BY <2>2 DEF Mcp!ucpResponseComponents
  <2>4. "content-digest" \in altered
    BY <1>1, <1>4, <2>3 DEF Mcp!verifyContentDigest
  <2> QED BY <1>5, <2>2, <2>4
<1> QED BY <1>6, <1>7

LEMMA McpInitKeeps == Mcp!Init => McpInv
<1> SUFFICES ASSUME Mcp!Init PROVE McpInv
  OBVIOUS
<1>1. ASSUME NEW e \in Exchange PROVE Exchanged(e)
  <2>1. reached[e] = "idle" /\ buffer[e] = Mcp!Empty /\ sent[e] = Mcp!Unsent /\ heard[e] = Mcp!NotGot
    BY DEF Mcp!Init
  <2>2. /\ DOMAIN Mcp!Empty = {"status", "chunks", "session"} /\ Clean(Mcp!Empty) /\ Clean(Mcp!Unsent)
        /\ OwnReply(Mcp!Unsent.reply) /\ Mcp!NotGot.verdict # "ok"
    BY DEF Mcp!Empty, Clean, Mcp!Unsent, OwnReply, Mcp!NotGot
  <2> QED BY <2>1, <2>2 DEF Exchanged
<1> QED BY <1>1 DEF Mcp!Init, McpInv

\* A step of one exchange: the others are where they were.
LEMMA OthersStay ==
  ASSUME McpInv, NEW e \in Exchange,
         DOMAIN asked' = Exchange, DOMAIN reached' = Exchange, DOMAIN buffer' = Exchange,
         DOMAIN sent' = Exchange, DOMAIN heard' = Exchange,
         \A f \in Exchange \ {e} : /\ asked'[f] = asked[f] /\ reached'[f] = reached[f] /\ buffer'[f] = buffer[f]
                                   /\ sent'[f] = sent[f] /\ heard'[f] = heard[f],
         Exchanged(e)'
  PROVE  McpInv'
<1>1. \A f \in Exchange \ {e} : Exchanged(f)'
  BY DEF McpInv, Exchanged, Clean, OwnReply
<1> QED BY <1>1 DEF McpInv

\* An answer that is written outside the buffer.
LEMMA PlainlyKeeps ==
  ASSUME McpInv, NEW e \in Exchange, NEW status \in Nat \ {200}, NEW chunk, Mcp!Plainly(e, status, chunk),
         UNCHANGED <<buffer, heard>>, DOMAIN asked' = Exchange,
         \A f \in Exchange \ {e} : asked'[f] = asked[f], asked'[e] = asked[e] \/ buffer[e] = Mcp!Empty
  PROVE  McpInv'
<1>1. PICK response : /\ response = [status |-> status, chunks |-> <<chunk>>, session |-> "none", reply |-> Mcp!NoReply]
                      /\ sent' = [sent EXCEPT ![e] = response] /\ reached' = [reached EXCEPT ![e] = "sent"]
  BY DEF Mcp!Plainly
<1>2. Clean(response) /\ OwnReply(response.reply)
  BY <1>1 DEF Clean, OwnReply
<1>3. /\ DOMAIN sent' = Exchange /\ DOMAIN reached' = Exchange /\ sent'[e] = response /\ reached'[e] = "sent"
      /\ \A f \in Exchange \ {e} : reached'[f] = reached[f] /\ sent'[f] = sent[f]
  BY <1>1 DEF McpInv
<1>4. Exchanged(e)'
  BY <1>2, <1>3 DEF McpInv, Exchanged, Clean
<1> QED BY <1>3, <1>4, OthersStay DEF McpInv

\* A request that is let in, whose signature held where signatures are asked for.
LEMMA LetInKeeps ==
  ASSUME McpInv, NEW e \in Exchange, NEW x, Mcp!letIn(e, x), UNCHANGED <<buffer, heard>>, DOMAIN asked' = Exchange,
         \A f \in Exchange \ {e} : asked'[f] = asked[f], asked'[e] = x, buffer[e] = Mcp!Empty,
         HmsEnabled => x.wire.kid \in Kids /\ AsSigned(x.wire)
  PROVE  McpInv'
<1>1. CASE Mcp!Plainly(e, 400, "unknown_session")
  BY <1>1, PlainlyKeeps
<1>2. ASSUME NEW to \in {"calling", "opening"}, reached' = [reached EXCEPT ![e] = to], UNCHANGED sent
      PROVE  McpInv'
  <2>1. DOMAIN reached' = Exchange /\ reached'[e] = to /\ \A f \in Exchange \ {e} : reached'[f] = reached[f]
    BY <1>2 DEF McpInv
  <2>2. Exchanged(e)'
    BY <1>2, <2>1 DEF McpInv, Exchanged, Clean, OwnReply
  <2> QED BY <1>2, <2>1, <2>2, OthersStay DEF McpInv
<1>3. CASE reached' = [reached EXCEPT ![e] = "calling"] /\ UNCHANGED sent
  BY <1>2, <1>3
<1>4. CASE reached' = [reached EXCEPT ![e] = "opening"] /\ UNCHANGED sent
  BY <1>2, <1>4
<1> QED BY <1>1, <1>3, <1>4 DEF Mcp!letIn

LEMMA HandleKeeps ==
  ASSUME McpInv, NEW e \in Exchange, NEW x \in Requests(e), Mcp!handleMcpHttp(e, x) PROVE McpInv'
<1>1. /\ reached[e] = "idle" /\ buffer[e] = Mcp!Empty /\ UNCHANGED <<buffer, heard>>
      /\ DOMAIN asked' = Exchange /\ asked'[e] = x /\ \A f \in Exchange \ {e} : asked'[f] = asked[f]
  BY DEF Mcp!handleMcpHttp, McpInv, Exchanged
<1>2. CASE Mcp!Plainly(e, 500, "error")
  BY <1>1, <1>2, PlainlyKeeps
<1>3. CASE ~HmsEnabled /\ Mcp!letIn(e, x)
  BY <1>1, <1>3, LetInKeeps
<1>4. CASE Mcp!sendMcpSignatureError(e, Mcp!beforeKey(x.wire))
  BY <1>1, <1>4, PlainlyKeeps DEF Mcp!sendMcpSignatureError, Mcp!httpStatusForSignatureError
<1>5. CASE HmsEnabled /\ Mcp!beforeKey(x.wire) = "ok" /\ reached' = [reached EXCEPT ![e] = "looking"] /\ UNCHANGED sent
  <2>1. DOMAIN reached' = Exchange /\ reached'[e] = "looking" /\ \A f \in Exchange \ {e} : reached'[f] = reached[f]
    BY <1>5 DEF McpInv
  <2>2. Exchanged(e)'
    BY <1>1, <1>5, <2>1 DEF McpInv, Exchanged, Clean, OwnReply
  <2> QED BY <1>1, <1>5, <2>1, <2>2, OthersStay DEF McpInv
<1> QED BY <1>2, <1>3, <1>4, <1>5 DEF Mcp!handleMcpHttp

LEMMA McpResolveKeeps ==
  ASSUME Mcp!McpAssumption, McpRequestsSent, McpInv, NEW e \in Exchange, Mcp!resolveKey(e) PROVE McpInv'
<1>1. /\ reached[e] = "looking" /\ buffer[e] = Mcp!Empty /\ UNCHANGED <<asked, buffer, heard>>
      /\ asked[e] \in Requests(e) /\ Mcp!beforeKey(asked[e].wire) = "ok" /\ DOMAIN asked = Exchange
  BY DEF Mcp!resolveKey, McpInv, Exchanged
<1> DEFINE found == asked[e].wire.kid \in Kids
           outcome == Mcp!afterKey(asked[e].wire, found)
<1>3. \/ outcome = "ok" /\ Mcp!letIn(e, asked[e])
      \/ Mcp!sendMcpSignatureError(e, outcome)
      \/ Mcp!Plainly(e, 500, "error")
  BY DEF Mcp!resolveKey
<1>4. outcome = "ok" => asked[e].wire.kid \in Kids /\ AsSigned(asked[e].wire)
  <2>1. asked[e].wire \in Mcp!Wire /\ Sent(asked[e].wire)
    BY <1>1 DEF Mcp!McpAssumption, McpRequestsSent, Mcp!Request
  <2>2. BothPass(asked[e].wire)
    BY <2>1, LetInIsSigned
  <2>3. found \in BOOLEAN
    OBVIOUS
  <2> QED BY <1>1, <2>2, <2>3 DEF BothPass
<1> HIDE DEF outcome
<1>5. CASE outcome = "ok" /\ Mcp!letIn(e, asked[e])
  BY <1>1, <1>4, <1>5, LetInKeeps
<1>6. CASE Mcp!sendMcpSignatureError(e, outcome)
  BY <1>1, <1>6, PlainlyKeeps DEF Mcp!sendMcpSignatureError, Mcp!httpStatusForSignatureError
<1>7. CASE Mcp!Plainly(e, 500, "error")
  BY <1>1, <1>7, PlainlyKeeps
<1> QED BY <1>3, <1>5, <1>6, <1>7

\* The response of a request that was let in ends.
LEMMA EndsKeeps ==
  ASSUME McpInv, NEW e \in Exchange, reached[e] \in {"opening", "calling"},
         NEW response, DOMAIN response = {"status", "chunks", "session"}, Clean(response),
         Mcp!ends(e, response), UNCHANGED <<asked, heard>>
  PROVE  McpInv'
<1>1. /\ DOMAIN buffer' = Exchange /\ buffer'[e] = response
      /\ \A f \in Exchange \ {e} : buffer'[f] = buffer[f]
  BY DEF Mcp!ends, McpInv
<1>2. PICK left : left = [status |-> response.status, chunks |-> response.chunks,
                          session |-> response.session, reply |-> Mcp!NoReply]
  OBVIOUS
<1>3. Clean(left) /\ OwnReply(left.reply)
  BY <1>2 DEF Clean, OwnReply
<1>4. \/ reached' = [reached EXCEPT ![e] = "signing"] /\ UNCHANGED sent
      \/ reached' = [reached EXCEPT ![e] = "sent"] /\ sent' = [sent EXCEPT ![e] = left]
  BY <1>2 DEF Mcp!ends
<1>5. /\ DOMAIN reached' = Exchange /\ DOMAIN sent' = Exchange
      /\ \A f \in Exchange \ {e} : reached'[f] = reached[f] /\ sent'[f] = sent[f]
      /\ reached'[e] \in {"signing", "sent"} /\ sent'[e] \in {sent[e], left}
  BY <1>4 DEF McpInv
<1>6. Exchanged(e)'
  <2>1. Exchanged(e)
    BY DEF McpInv
  <2> QED BY <1>1, <1>3, <1>5, <2>1 DEF Exchanged, Clean, OwnReply
<1> QED BY <1>1, <1>5, <1>6, OthersStay DEF McpInv

LEMMA TransportKeeps ==
  ASSUME McpInv, NEW e \in Exchange,
         (\E session : Mcp!opens(e, session)) \/ (\E status \in {200, 400} : Mcp!calls(e, status))
  PROVE  McpInv'
<1>1. ASSUME NEW session, Mcp!opens(e, session) PROVE McpInv'
  <2> DEFINE response == [status |-> 200, chunks |-> <<"result">>, session |-> session]
  <2>1. DOMAIN response = {"status", "chunks", "session"} /\ Clean(response)
    BY DEF Clean
  <2>2. reached[e] = "opening" /\ Mcp!ends(e, response) /\ UNCHANGED <<asked, heard>>
    BY <1>1 DEF Mcp!opens
  <2> HIDE DEF response
  <2> QED BY <2>1, <2>2, EndsKeeps
<1>2. ASSUME NEW status \in {200, 400}, Mcp!calls(e, status) PROVE McpInv'
  <2> DEFINE deleted == status = 200 /\ asked[e].wire.method = "DELETE"
             response == [status |-> status, session |-> "none",
                          chunks |-> IF deleted THEN <<>> ELSE <<IF status = 200 THEN "result" ELSE "error">>]
  <2>1. DOMAIN response = {"status", "chunks", "session"} /\ Clean(response)
    BY DEF Clean
  <2>2. reached[e] = "calling" /\ Mcp!ends(e, response) /\ UNCHANGED <<asked, heard>>
    BY <1>2 DEF Mcp!calls
  <2> HIDE DEF response
  <2> QED BY <2>1, <2>2, EndsKeeps
<1> QED BY <1>1, <1>2

LEMMA SignerKeeps ==
  ASSUME McpInv, NEW e \in Exchange, Mcp!flushSignedResponse(e) \/ Mcp!signerThrows(e) PROVE McpInv'
<1>0. Exchanged(e)
  BY DEF McpInv
<1>1. CASE Mcp!flushSignedResponse(e)
  <2> DEFINE body == buffer[e].chunks # <<>>
             left == [status |-> buffer[e].status, chunks |-> buffer[e].chunks, session |-> buffer[e].session,
                      reply |-> Mcp!signUcpResponse(body, "server")]
  <2>1. sent' = [sent EXCEPT ![e] = left] /\ reached' = [reached EXCEPT ![e] = "sent"]
    BY <1>1 DEF Mcp!flushSignedResponse
  <2>2. Clean(left) /\ OwnReply(left.reply)
    <3>1. body \in BOOLEAN
      OBVIOUS
    <3>2. OwnReply(left.reply)
      BY <3>1 DEF OwnReply
    <3> QED BY <1>0, <3>2 DEF Exchanged, Clean
  <2> HIDE DEF left
  <2>3. /\ DOMAIN sent' = Exchange /\ DOMAIN reached' = Exchange /\ sent'[e] = left /\ reached'[e] = "sent"
        /\ \A f \in Exchange \ {e} : reached'[f] = reached[f] /\ sent'[f] = sent[f]
        /\ UNCHANGED <<asked, buffer, heard>>
    BY <1>1, <2>1 DEF McpInv, Mcp!flushSignedResponse
  <2>4. Exchanged(e)'
    BY <1>0, <1>1, <2>2, <2>3 DEF Mcp!flushSignedResponse, Exchanged, Clean
  <2> QED BY <2>3, <2>4, OthersStay DEF McpInv
<1>2. CASE Mcp!signerThrows(e)
  <2>1. PICK chunks : buffer' = [buffer EXCEPT ![e].status = 500, ![e].chunks = chunks]
    BY <1>2 DEF Mcp!signerThrows
  <2>2. /\ DOMAIN buffer' = Exchange /\ DOMAIN buffer'[e] = {"status", "chunks", "session"}
        /\ buffer'[e].status = 500 /\ \A f \in Exchange \ {e} : buffer'[f] = buffer[f]
    BY <1>0, <2>1 DEF McpInv, Exchanged
  <2>3. /\ DOMAIN reached' = Exchange /\ reached'[e] = "again" /\ reached[e] = "signing"
        /\ \A f \in Exchange \ {e} : reached'[f] = reached[f]
        /\ UNCHANGED <<asked, sent, heard>>
    BY <1>2 DEF McpInv, Mcp!signerThrows
  <2>4. Exchanged(e)'
    BY <1>0, <2>2, <2>3 DEF Exchanged, Clean, OwnReply
  <2> QED BY <2>2, <2>3, <2>4, OthersStay DEF McpInv
<1> QED BY <1>1, <1>2

LEMMA RejectionKeeps ==
  ASSUME McpInv, NEW e \in Exchange, Mcp!unhandledRejection(e) PROVE McpInv'
<1>1. /\ UNCHANGED <<asked, buffer, sent, heard>> /\ DOMAIN reached' = Exchange
      /\ \A f \in Exchange : reached'[f] = reached[f] \/ reached'[f] = "lost"
  BY DEF Mcp!unhandledRejection
<1>2. ASSUME NEW f \in Exchange PROVE Exchanged(f)'
  BY <1>1 DEF McpInv, Exchanged, Clean, OwnReply
<1> QED BY <1>1, <1>2 DEF McpInv

LEMMA ReceiveKeeps ==
  ASSUME McpInv, NEW e \in Exchange, NEW altered, Mcp!receive(e, altered) PROVE McpInv'
<1>0. Exchanged(e)
  BY DEF McpInv
<1>1. PICK w, outcome :
        /\ w = [sent[e].reply EXCEPT !.altered = altered, !.body = @ \/ "body" \in altered]
        /\ outcome = Mcp!verifyUcpResponse(w, w.kid = "server")
        /\ heard' = [heard EXCEPT ![e] = [verdict |-> outcome, altered |-> altered]]
  BY DEF Mcp!receive
<1>2. outcome = "ok" => altered \cap {"@status", "body"} = {}
  <2> SUFFICES ASSUME outcome = "ok" PROVE altered \cap {"@status", "body"} = {}
    OBVIOUS
  <2>1. OwnReply(sent[e].reply)
    BY <1>0 DEF Exchanged
  <2>2. PICK reply : reply = sent[e].reply
    OBVIOUS
  <2>3. OwnReply(reply) /\ w = [reply EXCEPT !.altered = altered, !.body = @ \/ "body" \in altered]
    BY <1>1, <2>1, <2>2
  <2> DEFINE found == w.kid = "server"
  <2>4. Mcp!verifyUcpResponse(w, found) = "ok"
    BY <1>1
  <2> HIDE DEF found
  <2> QED BY <2>3, <2>4, AcceptedIsSigned, Zenon
<1>3. /\ DOMAIN heard' = Exchange /\ heard'[e].verdict = outcome /\ heard'[e].altered = altered
      /\ DOMAIN reached' = Exchange /\ reached'[e] = "done"
      /\ \A f \in Exchange \ {e} : reached'[f] = reached[f] /\ heard'[f] = heard[f]
      /\ UNCHANGED <<asked, buffer, sent>>
  BY <1>1 DEF McpInv, Mcp!receive
<1>4. Exchanged(e)'
  BY <1>0, <1>2, <1>3 DEF Exchanged, Clean, OwnReply
<1> QED BY <1>3, <1>4, OthersStay DEF McpInv

LEMMA McpStepKeeps ==
  ASSUME Mcp!McpAssumption, McpRequestsSent, McpInv, [Mcp!Next]_(Mcp!vars) PROVE McpInv'
<1>1. CASE UNCHANGED Mcp!vars
  <2>1. ASSUME NEW f \in Exchange PROVE Exchanged(f)'
    BY <1>1 DEF Mcp!vars, McpInv, Exchanged, Clean, OwnReply
  <2> QED BY <1>1, <2>1 DEF Mcp!vars, McpInv
<1>2. CASE Mcp!Next
  BY <1>2, HandleKeeps, McpResolveKeeps, TransportKeeps, SignerKeeps, RejectionKeeps, ReceiveKeeps DEF Mcp!Next
<1> QED BY <1>1, <1>2

\* handleMcpHttp and bufferResponseForSigning (protocol/src/mcp/http.ts): whatever requests to
\* an endpoint overlap, whatever the signer does and whatever is changed on the way,
\* a tool runs for requests that stand as a known key signed them, and a client accepts
\* a response only as it left, and as a success only the transport's own.
THEOREM ExchangesAreSigned ==
  ASSUME Mcp!McpAssumption, McpRequestsSent PROVE Mcp!Spec => []Mcp!ExchangedAsSigned
<1>1. Mcp!Init => McpInv
  BY McpInitKeeps
<1>2. McpInv /\ [Mcp!Next]_(Mcp!vars) => McpInv'
  BY McpStepKeeps
<1>3. McpInv => Mcp!ExchangedAsSigned
  BY DEF McpInv, Exchanged, Clean, AsSigned, Mcp!ExchangedAsSigned
<1> QED BY <1>1, <1>2, <1>3, PTL DEF Mcp!Spec
==============================================================================
