---------------------------- MODULE McpExchange ----------------------------
(***************************************************************************)
(* The MCP endpoint: exchanges over HTTP, each a request a client signed   *)
(* and a response the server signs.  A request may open a session, call a  *)
(* tool in one, or close one; requests interleave at the reading of the    *)
(* sender's key, at the tool and at the signer, and a session may be gone  *)
(* by the time a request to it is let in.                                  *)
(*                                                                         *)
(* With signed responses all that is written to a response is buffered     *)
(* until it ends and then signed; when the signer throws, the handler's    *)
(* own error is appended to what the buffer holds, and is signed in turn.  *)
(***************************************************************************)
EXTENDS Integers, HttpSignatures

CONSTANTS
  Exchange,     \* exchanges
  Session,      \* session identifiers
  Requests(_),  \* Requests(e): the forms of e's request
  Kids,         \* the clients' keys that resolve
  Alterations,  \* what may become of a response on its way
  HmsEnabled, SigningEnabled

Request == [wire : Wire, session : Session \cup {"none"}, rpc : {"initialize", "call", "garbled"}]

McpAssumption ==
  /\ \A e \in Exchange : Requests(e) \subseteq Request
  /\ Alterations \subseteq SUBSET ReplyPart
  /\ {HmsEnabled, SigningEnabled} \subseteq BOOLEAN

VARIABLES
  alive,    \* the server's process
  open,     \* transports: the sessions it knows
  asked,    \* asked[e]: the request
  step,     \* where the server is with it
  buffer,   \* the response so far: status, chunks and session opened
  sent,     \* the response as it left, and its form on the wire
  got       \* what the client made of it

vars == <<alive, open, asked, step, buffer, sent, got>>

NoReply == [syntax |-> "absent", kid |-> "none", body |-> TRUE, headers |-> {"content-type"},
            covers |-> {}, altered |-> {}]
Empty == [status |-> 200, chunks |-> <<>>, session |-> "none"]
Unsent == [status |-> 0, chunks |-> <<>>, session |-> "none", reply |-> NoReply]
NotGot == [verdict |-> "none", altered |-> {}]
NotAsked == [wire |-> signUcpRequest("GET", FALSE, FALSE, "none"), session |-> "none", rpc |-> "call"]

Init ==
  /\ alive = TRUE /\ open = {}
  /\ asked = [e \in Exchange |-> NotAsked]
  /\ step = [e \in Exchange |-> "idle"]
  /\ buffer = [e \in Exchange |-> Empty]
  /\ sent = [e \in Exchange |-> Unsent]
  /\ got = [e \in Exchange |-> NotGot]

\* A response written outside the buffer is not signed.
Plainly(e, status, chunk) ==
  /\ sent' = [sent EXCEPT ![e] = [status |-> status, chunks |-> <<chunk>>, session |-> "none", reply |-> NoReply]]
  /\ step' = [step EXCEPT ![e] = "sent"]

httpStatusForSignatureError(reason) ==
  IF reason \in {"digest_mismatch", "algorithm_unsupported"} THEN 400 ELSE 401

sendMcpSignatureError(e, reason) == Plainly(e, httpStatusForSignatureError(reason), reason)

\* A request let in: to its session's transport, to a new one if it initializes.
letIn(e, x) ==
  \/ x.session \in open /\ step' = [step EXCEPT ![e] = "calling"] /\ UNCHANGED sent
  \/ /\ x.session \notin open
     /\ IF x.wire.method = "POST" /\ x.rpc = "initialize"
        THEN step' = [step EXCEPT ![e] = "opening"] /\ UNCHANGED sent
        ELSE Plainly(e, 400, "unknown_session")

\* The body is read here when a signature covers it or no session has a transport to.
readsBody(x) == x.wire.method = "POST" /\ (HmsEnabled \/ x.session \notin open)

\* handleMcpHttp up to the sender's key.
handleMcpHttp(e, x) ==
  /\ alive /\ step[e] = "idle"
  /\ asked' = [asked EXCEPT ![e] = x]
  /\ \/ readsBody(x) /\ x.rpc = "garbled" /\ Plainly(e, 500, "error")
     \/ /\ ~(readsBody(x) /\ x.rpc = "garbled")
        /\ \/ ~HmsEnabled /\ letIn(e, x)
           \/ HmsEnabled /\ beforeKey(x.wire) # "ok" /\ sendMcpSignatureError(e, beforeKey(x.wire))
           \/ /\ HmsEnabled /\ beforeKey(x.wire) = "ok"
              /\ step' = [step EXCEPT ![e] = "looking"] /\ UNCHANGED sent
  /\ UNCHANGED <<alive, open, buffer, got>>

\* The key is looked up (or that throws), and the rest is checked.
resolveKey(e) ==
  /\ alive /\ step[e] = "looking"
  /\ LET verdict == afterKey(asked[e].wire, asked[e].wire.kid \in Kids)
     IN  \/ verdict = "ok" /\ letIn(e, asked[e])
         \/ verdict # "ok" /\ sendMcpSignatureError(e, verdict)
         \/ Plainly(e, 500, "error")
  /\ UNCHANGED <<alive, open, asked, buffer, got>>

\* The response has ended: it leaves, or waits for the signer.
ends(e, response) ==
  /\ buffer' = [buffer EXCEPT ![e] = response]
  /\ IF SigningEnabled THEN step' = [step EXCEPT ![e] = "signing"] /\ UNCHANGED sent
     ELSE /\ step' = [step EXCEPT ![e] = "sent"]
          /\ sent' = [sent EXCEPT ![e] = [status |-> response.status, chunks |-> response.chunks,
                                          session |-> response.session, reply |-> NoReply]]

\* A new transport: its session is known before the response that names it is written.
opens(e, session) ==
  /\ alive /\ step[e] = "opening" /\ session \notin open
  /\ open' = open \cup {session}
  /\ ends(e, [status |-> 200, chunks |-> <<"result">>, session |-> session])
  /\ UNCHANGED <<alive, asked, got>>

\* A session's transport: a tool's outcome is a response like any other, and a
\* DELETE closes the session, answered with no body.
calls(e, status) ==
  /\ alive /\ step[e] = "calling"
  /\ LET deleted == status = 200 /\ asked[e].wire.method = "DELETE"
     IN  /\ open' = IF deleted THEN open \ {asked[e].session} ELSE open
         /\ ends(e, [status |-> status, session |-> "none",
                     chunks |-> IF deleted THEN <<>> ELSE <<IF status = 200 THEN "result" ELSE "error">>])
  /\ UNCHANGED <<alive, asked, got>>

\* flushSignedResponse: the whole buffer, signed with its status.
flushSignedResponse(e) ==
  /\ alive /\ step[e] \in {"signing", "again"}
  /\ sent' = [sent EXCEPT ![e] =
       [status |-> buffer[e].status, chunks |-> buffer[e].chunks, session |-> buffer[e].session,
        reply |-> signUcpResponse(buffer[e].chunks # <<>>, "server")]]
  /\ step' = [step EXCEPT ![e] = "sent"]
  /\ UNCHANGED <<alive, open, asked, buffer, got>>

\* The signer throws: the handler's catch writes its error to the same buffer.
signerThrows(e) ==
  /\ alive /\ step[e] = "signing"
  /\ buffer' = [buffer EXCEPT ![e].status = 500, ![e].chunks = Append(@, "error")]
  /\ step' = [step EXCEPT ![e] = "again"]
  /\ UNCHANGED <<alive, open, asked, sent, got>>

\* It throws where nobody waits for it: the second time, or when the transport had
\* handed over before its response ended.  The rejection ends the process.
unhandledRejection(e) ==
  /\ alive /\ step[e] \in {"signing", "again"}
  /\ alive' = FALSE /\ open' = {}
  /\ step' = [f \in Exchange |-> IF step[f] \in {"idle", "sent", "done"} THEN step[f] ELSE "lost"]
  /\ UNCHANGED <<asked, buffer, sent, got>>

\* The client checks what arrives of a response (which may have got a body on its way).
receive(e, altered) ==
  /\ step[e] = "sent"
  /\ LET w == [sent[e].reply EXCEPT !.altered = altered, !.body = @ \/ "body" \in altered]
     IN  got' = [got EXCEPT ![e] = [verdict |-> verifyUcpResponse(w, w.kid = "server"), altered |-> altered]]
  /\ step' = [step EXCEPT ![e] = "done"]
  /\ UNCHANGED <<alive, open, asked, buffer, sent>>

Next ==
  \/ \E e \in Exchange : \E x \in Requests(e) : handleMcpHttp(e, x)
  \/ \E e \in Exchange : \/ resolveKey(e) \/ flushSignedResponse(e)
                         \/ signerThrows(e) \/ unhandledRejection(e)
  \/ \E e \in Exchange, session \in Session : opens(e, session)
  \/ \E e \in Exchange, status \in {200, 400} : calls(e, status)
  \/ \E e \in Exchange : \E altered \in Alterations : receive(e, altered)

Spec == Init /\ [][Next]_vars

(***************************************************************************)
(* Properties                                                              *)
(***************************************************************************)

\* What reached a transport was signed as it stood by a key that resolves: body,
\* route and sender.  A response the client accepts arrived as it left, status and
\* body, and reports success only if it is the transport's answer and nothing else.
ExchangedAsSigned ==
  \A e \in Exchange :
    /\ HmsEnabled /\ buffer[e] # Empty =>
         /\ asked[e].wire.kid \in Kids
         /\ asked[e].wire.altered \cap {"@method", "@authority", "@path", "body", "idempotency-key", "ucp-agent"} = {}
    /\ got[e].verdict = "ok" => /\ got[e].altered \cap {"@status", "body"} = {}
                                /\ sent[e].status = 200 => sent[e].chunks \in {<<>>, <<"result">>}
==============================================================================
