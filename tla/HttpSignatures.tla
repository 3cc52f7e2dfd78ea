---------------------------- MODULE HttpSignatures ----------------------------
(***************************************************************************)
(* UCP's HTTP message signatures as operators on a request or a response:  *)
(* which parts a signature must cover, and in which order one is refused.  *)
(*                                                                         *)
(* A request is what is on the wire: the headers and the body that are     *)
(* there, the components its signature covers, and the parts that are not  *)
(* (any more) what the signer signed.  Bytes, structured fields and curves *)
(* are the facts they stand for.                                           *)
(***************************************************************************)
EXTENDS Integers, Sequences

Header == {"ucp-agent", "idempotency-key", "content-type", "content-digest"}
Derived == {"@method", "@authority", "@path", "@query"}
Part == Header \cup Derived \cup {"body"}

\* syntax: which of the two signature headers is there and parses.
Wire == [syntax  : {"absent", "no_signature", "bad_input", "bad_signature", "parses"},
         kid     : STRING,
         method  : {"GET", "POST", "PUT", "PATCH", "DELETE"},
         query   : BOOLEAN,
         body    : BOOLEAN,
         headers : SUBSET Header,
         agent   : BOOLEAN,
         covers  : SUBSET (Header \cup Derived),
         altered : SUBSET Part]

isMutatingMethod(method) == method \in {"POST", "PUT", "DELETE", "PATCH"}

\* Mutant of ucpRequestComponents: the idempotency key may stay uncovered.
ucpComponentsWithoutKey(w) ==
  {"@method", "@authority", "@path", "ucp-agent"}
    \cup (IF w.query THEN {"@query"} ELSE {})
    \cup (IF w.body THEN {"content-digest", "content-type"} ELSE {})

\* What a signature over this request has to cover.
ucpRequestComponents(w) ==
  {"@method", "@authority", "@path", "ucp-agent"}
    \cup (IF w.query THEN {"@query"} ELSE {})
    \cup (IF isMutatingMethod(w.method) THEN {"idempotency-key"} ELSE {})
    \cup (IF w.body THEN {"content-digest", "content-type"} ELSE {})

mandatoryHeaders(w) ==
  {"ucp-agent"}
    \cup (IF isMutatingMethod(w.method) THEN {"idempotency-key"} ELSE {})
    \cup (IF w.body THEN {"content-type", "content-digest"} ELSE {})

missingMandatoryHeader(w) == ~(mandatoryHeaders(w) \subseteq w.headers)

missingRequiredComponent(w) == ~(ucpRequestComponents(w) \subseteq w.covers)

\* The digest header is the body's; with neither there is nothing to check.
verifyContentDigest(w) ==
  IF "content-digest" \notin w.headers THEN ~w.body
  ELSE ("body" \in w.altered) <=> ("content-digest" \in w.altered)

\* A covered component that is not on the wire has no value to sign.
componentValue(w, c) == c \in Derived \ {"@query"} \/ (c = "@query" /\ w.query) \/ c \in w.headers

buildSignatureBase(w) == \A c \in w.covers : componentValue(w, c)

ecdsaVerifyRaw(w) == w.covers \cap w.altered = {}

\* A structured-field dictionary parses, with one member of the right shape.
parseSf941Dict(w, broken) == w.syntax # broken

parseSignatureInput(w) == parseSf941Dict(w, "bad_input")
parseSignature(w) == parseSf941Dict(w, "bad_signature")
parseUcpAgentProfileUrl(w) == w.agent

\* What refuses a request before its key is looked up, in order.
checksBeforeKey(w) ==
  << [reason |-> "signature_missing", fails |-> w.syntax \in {"absent", "no_signature"}],
     [reason |-> "signature_invalid", fails |-> \/ ~parseSignatureInput(w)
                                                \/ ~parseSignature(w)
                                                \/ missingMandatoryHeader(w)
                                                \/ ~parseUcpAgentProfileUrl(w)
                                                \/ missingRequiredComponent(w)],
     [reason |-> "digest_mismatch",   fails |-> ~verifyContentDigest(w)] >>

firstFailing(checks) ==
  LET failing == {i \in DOMAIN checks : checks[i].fails}
  IN  IF failing = {} THEN "ok" ELSE checks[CHOOSE i \in failing : \A j \in failing : i <= j].reason

beforeKey(w) == firstFailing(checksBeforeKey(w))

\* The rest of verifyUcpRequest, once a key was found or not.
afterKey(w, found) ==
  CASE ~found -> "key_not_found"
    [] found /\ buildSignatureBase(w) /\ ecdsaVerifyRaw(w) -> "ok"
    [] OTHER -> "signature_invalid"

\* What signUcpRequest makes of a request: it refuses to sign one that lacks a
\* header the signature must cover, sets the agent and the digest, and covers
\* exactly the required components.
signUcpRequest(method, query, body, kid) ==
  LET w == [syntax |-> "parses", kid |-> kid, method |-> method, query |-> query, body |-> body,
            headers |-> {}, agent |-> TRUE, covers |-> {}, altered |-> {}]
  IN  [w EXCEPT !.headers = mandatoryHeaders(w), !.covers = ucpRequestComponents(w)]

(***************************************************************************)
(* Responses: the status in place of the route, and no header beyond the   *)
(* body's.                                                                 *)
(***************************************************************************)
ReplyPart == {"@status", "body", "content-type", "content-digest"}

\* A response on the wire.
Reply == [syntax  : {"absent", "no_signature", "bad_input", "bad_signature", "parses"},
          kid     : STRING,
          body    : BOOLEAN,
          headers : SUBSET {"content-type", "content-digest"},
          covers  : SUBSET {"@status", "content-type", "content-digest"},
          altered : SUBSET ReplyPart]

ucpResponseComponents(body) == {"@status"} \cup (IF body THEN {"content-digest", "content-type"} ELSE {})

missingResponseMandatoryHeader(w) == w.body /\ ~({"content-type", "content-digest"} \subseteq w.headers)

responseBase(w) == \A c \in w.covers : c = "@status" \/ c \in w.headers

\* What signUcpResponse makes of a response whose headers name the body's type.
signUcpResponse(body, kid) ==
  [syntax |-> "parses", kid |-> kid, body |-> body,
   headers |-> IF body THEN {"content-type", "content-digest"} ELSE {},
   covers |-> ucpResponseComponents(body), altered |-> {}]

\* The order in which a response is refused, given whether its key is known.
checksOfResponse(w, found) ==
  << [reason |-> "signature_missing", fails |-> w.syntax \in {"absent", "no_signature"}],
     [reason |-> "signature_invalid", fails |-> \/ ~parseSignatureInput(w)
                                                \/ ~parseSignature(w)
                                                \/ missingResponseMandatoryHeader(w)
                                                \/ ~(ucpResponseComponents(w.body) \subseteq w.covers)],
     [reason |-> "digest_mismatch",   fails |-> ~verifyContentDigest(w)],
     [reason |-> "key_not_found",     fails |-> ~found],
     [reason |-> "signature_invalid", fails |-> ~(responseBase(w) /\ ecdsaVerifyRaw(w))] >>

verifyUcpResponse(w, found) == firstFailing(checksOfResponse(w, found))
==============================================================================
