----------------------------- MODULE ProfileCache -----------------------------
(***************************************************************************)
(* Requests a merchant authenticates by the signing keys of their sender's *)
(* published profile.  The profile is fetched, cached for the time its     *)
(* answer allows (within limits), and fetched once more when it has no key *)
(* of the name a request asks for.  Requests interleave at every await: a  *)
(* fetch begins, the profile's host answers with the keys of that moment,  *)
(* and the answer is stored later, possibly after a newer one.             *)
(*                                                                         *)
(* One sender and one profile; the URL checks, the size limit and the      *)
(* redirects are one failing fetch.  The clock counts units of MinTtl.     *)
(***************************************************************************)
EXTENDS Integers, HttpSignatures

CONSTANTS
  Request,      \* requests
  Kid,          \* names of signing keys
  FirstKids,    \* the ones the profile starts with
  Wires(_),     \* Wires(r): the forms request r may have on the wire
  HmsEnabled,   \* ucp.auth.hms.enabled
  BearerEnabled,
  MinTtl, MaxTtl,
  MaxAge,       \* max-age values of the profile's host, 0 for none
  FetchMax,     \* bound on a fetch: the time limit covers the header, not the body
  MaxTime       \* bound on the clock

ProfileAssumption ==
  /\ FirstKids \subseteq Kid
  /\ \A r \in Request : Wires(r) \subseteq Wire
  /\ {HmsEnabled, BearerEnabled} \subseteq BOOLEAN
  /\ MinTtl \in Nat \ {0} /\ MaxTtl \in Nat /\ MinTtl <= MaxTtl
  /\ MaxAge \subseteq Nat
  /\ {FetchMax, MaxTime} \subseteq Nat

VARIABLES
  clock,
  published,  \* the keys the profile's host serves
  since,      \* since[k]: when it began to, or stopped to, serve k
  entry,      \* the cache's entry
  blocked,    \* no forced refresh before this time
  wire,       \* wire[r]: the request
  step,       \* where the merchant is with it
  started,    \* nowMs of its resolveSigningKey, or when its fetch began
  got,        \* the entry or the profile answer it holds
  verdict,    \* what authentication said, and when
  forced      \* history: the windows in which a refresh was forced

vars == <<clock, published, since, entry, blocked, wire, step, started, got, verdict, forced>>

NoEntry == [kids |-> {}, expires |-> 0]
Nothing == [kids |-> {}, expires |-> 0, served |-> FALSE]
NotStarted == [lookup |-> 0, fetch |-> 0]
NoVerdict == [code |-> "none", at |-> 0]
NoWire == [signUcpRequest("GET", FALSE, FALSE, "none") EXCEPT !.syntax = "absent"]

Init ==
  /\ clock = 0
  /\ published = FirstKids
  /\ since = [k \in Kid |-> 0]
  /\ entry = NoEntry /\ blocked = 0
  /\ wire = [r \in Request |-> NoWire]
  /\ step = [r \in Request |-> "idle"]
  /\ started = [r \in Request |-> NotStarted]
  /\ got = [r \in Request |-> Nothing]
  /\ verdict = [r \in Request |-> NoVerdict]
  /\ forced = {}

\* Mutant of profileCacheTtlMs: no upper limit.
profileCacheTtlAsTold(maxAge) == IF maxAge = 0 \/ maxAge < MinTtl THEN MinTtl ELSE maxAge

\* The max-age of the profile's answer within [MinTtl, MaxTtl]; MinTtl without one.
profileCacheTtlMs(maxAge) ==
  IF maxAge <= MinTtl THEN MinTtl ELSE IF maxAge >= MaxTtl THEN MaxTtl ELSE maxAge

(***************************************************************************)
(* Authentication of a request                                             *)
(***************************************************************************)
\* A request leaves authentication with a verdict.  Those of its signature's key are
\* kept, with the request and the time; of the others it is kept that there was one.
Judged == {"ok", "key_not_found"}

Answered(r, w, code) ==
  /\ step' = [step EXCEPT ![r] = "done"]
  /\ wire' = [wire EXCEPT ![r] = IF code \in Judged THEN w ELSE NoWire]
  /\ verdict' = [verdict EXCEPT ![r] = IF code \in Judged THEN [code |-> code, at |-> clock]
                                       ELSE [code |-> "other", at |-> 0]]
  /\ got' = [got EXCEPT ![r] = Nothing]
  /\ started' = [started EXCEPT ![r] = NotStarted]

\* getEntry: an entry that has not expired is used, else the profile is fetched.
getEntry(r) ==
  /\ started' = [started EXCEPT ![r] = [lookup |-> clock, fetch |-> clock]]
  /\ IF entry.expires > clock
     THEN /\ got' = [got EXCEPT ![r] = [kids |-> entry.kids, expires |-> entry.expires, served |-> TRUE]]
          /\ step' = [step EXCEPT ![r] = "looking"]
     ELSE /\ step' = [step EXCEPT ![r] = "fetching"]
          /\ UNCHANGED got

\* authenticateUcpRequest up to the first await that matters: a signature is
\* preferred to a bearer token, which the merchant's verifier judges.
authenticateUcpRequest(r, w) ==
  /\ step[r] = "idle"
  /\ \/ /\ w.syntax # "absent" /\ HmsEnabled /\ beforeKey(w) = "ok"
        /\ getEntry(r)
        /\ wire' = [wire EXCEPT ![r] = w]
        /\ UNCHANGED verdict
     \/ /\ \/ w.syntax # "absent" /\ ~HmsEnabled /\ Answered(r, w, "auth_method_not_supported")
           \/ w.syntax # "absent" /\ HmsEnabled /\ beforeKey(w) # "ok" /\ Answered(r, w, beforeKey(w))
           \/ w.syntax = "absent" /\ Answered(r, w, "auth_missing")
           \/ w.syntax = "absent" /\ ~BearerEnabled /\ Answered(r, w, "auth_method_not_supported")
           \/ w.syntax = "absent" /\ BearerEnabled
              /\ \E code \in {"bearer_ok", "auth_invalid"} : Answered(r, w, code)
  /\ UNCHANGED <<clock, published, since, entry, blocked, forced>>

\* The profile's host answers a fetch under way.
serve(r, maxAge) ==
  /\ step[r] \in {"fetching", "forcing"} /\ ~got[r].served
  /\ got' = [got EXCEPT ![r] = [kids |-> published, expires |-> profileCacheTtlMs(maxAge), served |-> TRUE]]
  /\ UNCHANGED <<clock, published, since, entry, blocked, wire, step, started, verdict, forced>>

\* fetchAndStore, once the body is read and valid: the entry expires from now.
Stored(r) == [kids |-> got[r].kids, expires |-> clock + got[r].expires]

fetchAndStore(r) ==
  /\ step[r] \in {"fetching", "forcing"} /\ got[r].served
  /\ entry' = Stored(r)
  /\ IF step[r] = "fetching"
     THEN /\ got' = [got EXCEPT ![r].expires = Stored(r).expires]
          /\ step' = [step EXCEPT ![r] = "looking"]
          /\ UNCHANGED <<wire, verdict, started>>
     ELSE Answered(r, wire[r], afterKey(wire[r], wire[r].kid \in got[r].kids))
  /\ UNCHANGED <<clock, published, since, blocked, forced>>

\* A refused URL, a failed or late answer, a body too large or invalid: it throws.
fetchFails(r) ==
  /\ step[r] \in {"fetching", "forcing"}
  /\ Answered(r, wire[r], "profile_error")
  /\ UNCHANGED <<clock, published, since, entry, blocked, forced>>

\* Mutant of blockUntil: the answer to a forced refresh may be asked for again.
blockNothing(r) == clock

\* A forced refresh bars another one until the entry it was forced from expires.
blockUntil(r) == got[r].expires

\* resolveSigningKey after getEntry: the key is there, or another refresh is
\* barred (compared with the time before the await), or this one goes ahead.
resolveSigningKey(r) ==
  /\ step[r] = "looking"
  /\ \/ /\ wire[r].kid \in got[r].kids
        /\ Answered(r, wire[r], afterKey(wire[r], TRUE))
        /\ UNCHANGED <<blocked, forced>>
     \/ /\ wire[r].kid \notin got[r].kids /\ blocked > started[r].lookup
        /\ Answered(r, wire[r], afterKey(wire[r], FALSE))
        /\ UNCHANGED <<blocked, forced>>
     \/ /\ wire[r].kid \notin got[r].kids /\ blocked <= started[r].lookup
        /\ blocked' = blockUntil(r)
        /\ forced' = forced \cup {got[r].expires}
        /\ started' = [started EXCEPT ![r].fetch = clock]
        /\ got' = [got EXCEPT ![r] = Nothing]
        /\ step' = [step EXCEPT ![r] = "forcing"]
        /\ UNCHANGED <<wire, verdict>>
  /\ UNCHANGED <<clock, published, since, entry>>

(***************************************************************************)
(* The sender rotates its keys: it publishes new ones and retires the ones *)
(* it began with.  Time passes while no fetch is too old.                  *)
(***************************************************************************)
publish(k) ==
  /\ k \notin published \cup FirstKids
  /\ published' = published \cup {k}
  /\ since' = [since EXCEPT ![k] = clock]
  /\ UNCHANGED <<clock, entry, blocked, wire, step, started, got, verdict, forced>>

revoke(k) ==
  /\ k \in published \cap FirstKids
  /\ published' = published \ {k}
  /\ since' = [since EXCEPT ![k] = clock]
  /\ UNCHANGED <<clock, entry, blocked, wire, step, started, got, verdict, forced>>

tick ==
  /\ clock < MaxTime
  /\ \A r \in Request : /\ step[r] \in {"fetching", "forcing"} => clock < started[r].fetch + FetchMax
                        /\ step[r] # "looking"
  /\ clock' = clock + 1
  /\ UNCHANGED <<published, since, entry, blocked, wire, step, started, got, verdict, forced>>

Next ==
  \/ \E r \in Request : \E w \in Wires(r) : authenticateUcpRequest(r, w)
  \/ \E r \in Request, age \in MaxAge : serve(r, age)
  \/ \E r \in Request : fetchAndStore(r) \/ fetchFails(r) \/ resolveSigningKey(r)
  \/ \E k \in Kid : publish(k) \/ revoke(k)
  \/ tick

Spec == Init /\ [][Next]_vars

(***************************************************************************)
(* Properties                                                              *)
(***************************************************************************)

\* However requests and their fetches overlap, an older answer replaces a newer one
\* and refreshes fail, and whatever the profile's host says of caching: a key that
\* left the profile is accepted, and one that joined it is unknown, for no longer
\* than the longest lifetime of an entry and the time of one fetch.
RotationIsSeen ==
  \A r \in Request : LET k == wire[r].kid IN
    (\/ verdict[r].code = "ok" /\ k \notin published /\ verdict[r].at > since[k]
     \/ verdict[r].code = "key_not_found" /\ k \in published)
      => verdict[r].at - since[k] <= MaxTtl + FetchMax

\* Requests for keys nobody publishes, however many and in whatever order they
\* overlap, make the merchant fetch the profile once more per lifetime of an entry.
ForcesOnce ==
  \A r \in Request :
    step[r] # "forcing" /\ step'[r] = "forcing" => got[r].expires \notin forced

OneRefreshPerWindow == [][ForcesOnce]_vars

\* What the merchant acts on is what the holder of the key signed: the route, the
\* body, the idempotency key and the sender's profile.
AcceptedAsSigned ==
  \A r \in Request :
    verdict[r].code = "ok" =>
      wire[r].altered \cap {"@method", "@authority", "@path", "body", "idempotency-key", "ucp-agent"} = {}
==============================================================================
