------------------------------ MODULE PolicyIpc ------------------------------
(***************************************************************************)
(* The policy engine's local socket: JSON-RPC lines over connections that  *)
(* cut them anywhere, one promise chain per connection that handles its    *)
(* lines in turn, a caller token read from its file at each line, and a    *)
(* stop that does not wait for the handlers.  The file may be removed or   *)
(* spoilt meanwhile.                                                       *)
(*                                                                         *)
(* A line travels in two pieces, the second with its newline.  What the    *)
(* handlers do is the engine's and external here: one runs for a while and *)
(* returns or throws.                                                      *)
(***************************************************************************)
EXTENDS Integers, Sequences, FiniteSets

CONSTANTS
  Conn,          \* connections
  Script(_),     \* Script(c): the lines c sends
  Peer(_),       \* Peer(c): whose c is, as far as the platform tells
  MaxRotations   \* bound on new caller tokens

Line == [shape : {"ok", "no_json", "no_record", "no_request"}, token : Nat,
         method : {"served", "unserved", "unknown"}]

IpcAssumption ==
  /\ \A c \in Conn : Script(c) \in Seq(Line) /\ Peer(c) \in {"same", "other", "unreadable"}
  /\ MaxRotations \in Nat

VARIABLES
  listening,  \* "up", "stopped", or "dead" when an error event had no listener
  token,      \* the token in the file; earlier ones are smaller
  private,    \* the file holds a token and is the engine's alone
  link,       \* link[c]: "new", "open", "closed"
  arrived,    \* arrived[c]: how many pieces of its lines have come
  turn,       \* turn[c]: how many of its lines have had their turn
  running,    \* running[c]: its lines whose handler has not returned
  written     \* written[c]: the answers, with the line each is for

vars == <<listening, token, private, link, arrived, turn, running, written>>

Init ==
  /\ listening = "up" /\ token = 1 /\ private = TRUE
  /\ link = [c \in Conn |-> "new"]
  /\ arrived = [c \in Conn |-> 0]
  /\ turn = [c \in Conn |-> 0]
  /\ running = [c \in Conn |-> {}]
  /\ written = [c \in Conn |-> <<>>]

\* What is written to a closed connection is lost.
Write(c, line, answer) ==
  written' = IF link[c] = "open"
             THEN [written EXCEPT ![c] = Append(@, [line |-> line, answer |-> answer])]
             ELSE written

\* A peer whose credentials the platform does not give is trusted to the socket's
\* mode and the token.
checkPeerCredentials(c) == Peer(c) # "other"

\* onConnection: a peer of another user is told so and cut off.
onConnection(c) ==
  /\ listening = "up" /\ link[c] = "new"
  /\ link' = [link EXCEPT ![c] = IF checkPeerCredentials(c) THEN "open" ELSE "closed"]
  /\ written' = [written EXCEPT ![c] = 
       IF checkPeerCredentials(c) THEN @ ELSE <<[line |-> 0, answer |-> "peer_rejected"]>>]
  /\ UNCHANGED <<listening, token, private, arrived, turn, running>>

\* A chunk brings any number of pieces; whole lines join the queue.
onData(c) ==
  /\ link[c] = "open" /\ listening = "up"
  /\ \E n \in 1..(2 * Len(Script(c)) - arrived[c]) : arrived' = [arrived EXCEPT ![c] = @ + n]
  /\ UNCHANGED <<listening, token, private, link, turn, running, written>>

Queued(c) == (arrived[c] \div 2) - turn[c]

isRpcMethodName(l) == l.method # "unknown"

\* parseRequest and the checks after it, in the order the code makes them; a file
\* that verify cannot trust throws, and the chain answers.
Refusal(l) ==
  IF l.shape = "no_json" THEN "parse_error"
  ELSE IF l.shape \in {"no_record", "no_request"} THEN "invalid_request"
  ELSE IF ~private THEN "internal_error"
  ELSE IF l.token # token THEN "unauthenticated"
  ELSE IF ~isRpcMethodName(l) \/ l.method = "unserved" THEN "method_not_found"
  ELSE "none"

Takes(c) ==
  LET i == turn[c] + 1
      l == Script(c)[i]
  IN /\ turn' = [turn EXCEPT ![c] = i]
     /\ IF Refusal(l) # "none"
        THEN Write(c, i, Refusal(l)) /\ UNCHANGED running
        ELSE running' = [running EXCEPT ![c] = @ \cup {i}] /\ UNCHANGED written
     /\ UNCHANGED <<listening, token, private, link, arrived>>

\* Mutant of handleLine: the next line is taken while a handler still runs.
handleLineUnqueued(c) == listening # "dead" /\ Queued(c) > 0 /\ Takes(c)

\* The chain takes a line when the handler of the one before has returned,
\* whether or not its connection, or the server, is still there.
handleLine(c) == listening # "dead" /\ Queued(c) > 0 /\ running[c] = {} /\ Takes(c)

handlerReturns(c, i) ==
  /\ listening # "dead" /\ i \in running[c]
  /\ running' = [running EXCEPT ![c] = @ \ {i}]
  /\ \E answer \in {"result", "internal_error"} : Write(c, i, answer)
  /\ UNCHANGED <<listening, token, private, link, arrived, turn>>

\* The caller hangs up; one that leaves an answer unread resets the connection, and
\* the error event of a connection has no listener: the process may die of it.
hangUp(c) ==
  /\ link[c] = "open"
  /\ link' = [link EXCEPT ![c] = "closed"]
  /\ listening' \in {listening} \cup (IF written[c] = <<>> THEN {} ELSE {"dead"})
  /\ UNCHANGED <<token, private, arrived, turn, running, written>>

\* enforcePrivatePath: the file is another user's, or holds no token.
spoilToken ==
  /\ listening = "up" /\ private
  /\ private' = FALSE
  /\ UNCHANGED <<listening, token, link, arrived, turn, running, written>>

\* CallerTokenManager.ensure: a token file that was removed is made anew.
newToken ==
  /\ listening = "up" /\ token <= MaxRotations
  /\ token' = token + 1 /\ private' = TRUE
  /\ UNCHANGED <<listening, link, arrived, turn, running, written>>

\* stop destroys the connections; their queues and handlers go on.
stop ==
  /\ listening = "up"
  /\ listening' = "stopped"
  /\ link' = [c \in Conn |-> "closed"]
  /\ UNCHANGED <<token, private, arrived, turn, running, written>>

Next ==
  \/ \E c \in Conn : onConnection(c) \/ onData(c) \/ handleLine(c) \/ hangUp(c)
  \/ \E c \in Conn : \E i \in running[c] : handlerReturns(c, i)
  \/ newToken \/ spoilToken \/ stop

Spec == Init /\ [][Next]_vars

(***************************************************************************)
(* Properties                                                              *)
(***************************************************************************)

\* However lines are cut, handlers linger, tokens change and others hang up: the
\* answers on a connection are those of its lines, one for each in the order sent,
\* none for a line that has not wholly come and none after a missing one.
AnsweredInOrder ==
  \A c \in Conn :
    checkPeerCredentials(c) =>
      /\ \A i \in DOMAIN written[c] : written[c][i].line = i
      /\ 2 * Len(written[c]) <= arrived[c]
==============================================================================
