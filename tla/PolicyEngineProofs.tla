------------------------- MODULE PolicyEngineProofs -------------------------
(***************************************************************************)
(* Proofs about PolicyEngine for every set of calls, keys, policies and    *)
(* rules, every limit and every bound; and about the two ways into the     *)
(* engine from outside its process, for any connections, scripts, peers,   *)
(* prompts, lifetimes and bounds: that a connection's answers on the local *)
(* socket are those of its lines, in order, and that the engine and the    *)
(* approver hear of one end of a prompt posted to the webhook.             *)
(*                                                                         *)
(* The socket and the webhook are systems of their own; their constants    *)
(* and variables are declared in their sections, and their definitions are *)
(* those of the instances Ipc and Hook.                                    *)
(***************************************************************************)
EXTENDS PolicyEngine, SumLemmas, Sequences

\* How the parts of one call's state belong together between two steps.
Shape(c) ==
  /\ pc[c] \in {"idle", "facts"} => res[c].status = "none"
  /\ pc[c] \in {"minting", "prompting"} => res[c].status = "pending"
  /\ pc[c] \notin {"done", "failed"} => prompt[c] = "none" /\ cred[c] = "none"
  /\ prompt[c] = "pending_approval" =>
       held[c] /\ res[c].status = "pending" /\ row[c] = "pending"
  /\ prompt[c] = "approved" => held[c] /\ res[c].status = "committed"
  /\ prompt[c] = "expired" => Expired(c)
  /\ held[c] => prompt[c] \in {"pending_approval", "approved"}
  /\ cred[c] # "none" => prompt[c] \in {"none", "approved"}
  /\ cred[c] # "none" \/ row[c] = "approved" => res[c].status = "committed"
  /\ pc[c] = "failed" /\ prompt[c] = "none" => res[c].status # "pending"

Shapes == \A c \in Call : Shape(c)

-----------------------------------------------------------------------------
(* Reference counts as cardinalities.                                      *)

LEMMA FiniteHolders == \A p \in Policy : IsFiniteSet(Holders(p))
BY FS_Subset, CallAssumption DEF Holders

\* A step that changes no holder and no reference count.
LEMMA SameHolders ==
  ASSUME RefsExact,
         \A c \in Call : Holder(c)' <=> Holder(c),
         \A c \in Call : Holder(c) => captured'[c] = captured[c],
         UNCHANGED refs
  PROVE  RefsExact' /\ \A p \in Policy : Holders(p)' = Holders(p)
<1>1. \A p \in Policy : Holders(p)' = Holders(p)
  BY DEF Holders
<1>2. QED
  BY <1>1 DEF RefsExact

\* A step that makes c a holder and retains its snapshot.
LEMMA GainHolder ==
  ASSUME TypeOK, RefsExact, NEW c \in Call,
         ~Holder(c), Holder(c)',
         \A d \in Call \ {c} : Holder(d)' <=> Holder(d),
         UNCHANGED captured,
         RetainSnapshot(captured[c])
  PROVE  /\ RefsExact'
         /\ \A p \in Policy : Holders(p)' \subseteq Holders(p) \cup
                                (IF p = captured[c] THEN {c} ELSE {})
<1> DEFINE q == captured[c]
<1>1. q \in Policy
  BY DEF TypeOK
<1>2. Holders(q)' = Holders(q) \cup {c} /\ c \notin Holders(q)
  BY DEF Holders
<1>3. \A p \in Policy \ {q} : Holders(p)' = Holders(p)
  BY DEF Holders
<1>4. IsFiniteSet(Holders(q))
  BY <1>1, FiniteHolders
<1>5. Cardinality(Holders(q)') = Cardinality(Holders(q)) + 1
  BY <1>2, <1>4, FS_AddElement
<1>6. refs'[q] = refs[q] + 1 /\ \A p \in Policy \ {q} : refs'[p] = refs[p]
  BY <1>1 DEF RetainSnapshot, TypeOK
<1>7. QED
  BY <1>1, <1>2, <1>3, <1>5, <1>6 DEF RefsExact

\* A step that stops c being a holder and releases its snapshot.
LEMMA LoseHolder ==
  ASSUME TypeOK, RefsExact, NEW c \in Call,
         Holder(c), ~Holder(c)',
         \A d \in Call \ {c} : Holder(d)' <=> Holder(d),
         UNCHANGED captured,
         refs' = [refs EXCEPT ![captured[c]] = @ - 1]
  PROVE  /\ RefsExact'
         /\ refs' \in [Policy -> Nat]
         /\ \A p \in Policy : Holders(p)' \subseteq Holders(p)
<1> DEFINE q == captured[c]
<1>1. q \in Policy
  BY DEF TypeOK
<1>2. Holders(q)' = Holders(q) \ {c} /\ c \in Holders(q)
  BY DEF Holders
<1>3. \A p \in Policy \ {q} : Holders(p)' = Holders(p)
  BY DEF Holders
<1>4. IsFiniteSet(Holders(q))
  BY <1>1, FiniteHolders
<1>5. Cardinality(Holders(q)') = Cardinality(Holders(q)) - 1
  BY <1>2, <1>4, FS_RemoveElement
<1>6. refs'[q] = refs[q] - 1 /\ \A p \in Policy \ {q} : refs'[p] = refs[p]
  BY <1>1 DEF TypeOK
<1>7. Cardinality(Holders(q)) \in Nat /\ Cardinality(Holders(q)') \in Nat
  BY <1>2, <1>4, FS_CardinalityType, FS_RemoveElement
<1>8. refs[q] - 1 \in Nat
  BY <1>1, <1>5, <1>7 DEF RefsExact
<1>9. refs' \in [Policy -> Nat]
  BY <1>1, <1>8 DEF TypeOK
<1>10. \A p \in Policy : Holders(p)' \subseteq Holders(p)
  BY <1>2, <1>3
<1>11. QED
  BY <1>1, <1>3, <1>5, <1>6, <1>9, <1>10 DEF RefsExact

\* gc after a release keeps every snapshot that still has a holder.
LEMMA GcKeepsHolders ==
  ASSUME RefsExact', HeldAreKept, UNCHANGED current,
         snaps' = Kept(snaps, refs', current),
         \A p \in Policy : Holders(p)' \subseteq Holders(p)
  PROVE  HeldAreKept'
<1>1. SUFFICES ASSUME NEW p \in Policy, Holders(p)' # {} \/ p = current
               PROVE  p \in snaps'
  BY DEF HeldAreKept
<1>2. p \in snaps
  BY <1>1 DEF HeldAreKept
<1>3. CASE p = current
  BY <1>2, <1>3 DEF Kept
<1>4. CASE Holders(p)' # {}
  <2>1. IsFiniteSet(Holders(p)')
    BY FiniteHolders, FS_Subset
  <2>2. Cardinality(Holders(p)') \in Nat /\ Cardinality(Holders(p)') # 0
    BY <1>4, <2>1, FS_CardinalityType, FS_EmptySet
  <2>3. refs'[p] > 0
    BY <2>2 DEF RefsExact
  <2>4. QED
    BY <1>2, <2>3 DEF Kept
<1>5. QED
  BY <1>1, <1>3, <1>4

-----------------------------------------------------------------------------
(* Shapes is inductive.                                                    *)

LEMMA TickShapes == TypeOK /\ Shapes /\ Tick => Shapes'
BY TimeAssumption DEF TypeOK, Shapes, Shape, Expired, Tick, memory

LEMMA ProposeShapes ==
  ASSUME TypeOK, Shapes, NEW c \in Call, Propose(c) PROVE Shapes'
BY DEF TypeOK, Shapes, Shape, Expired, Propose, Waiting, Settled

LEMMA DecideShapes ==
  ASSUME TypeOK, Shapes, NEW c \in Call, NEW audited \in BOOLEAN,
         \/ FactsFail(c) \/ DecideDeny(c, audited)
         \/ DecideAllow(c, audited) \/ DecideApproval(c, audited)
  PROVE  Shapes'
<1>1. CASE FactsFail(c)
  BY <1>1 DEF TypeOK, Shapes, Shape, Expired, FactsFail
<1>2. CASE DecideDeny(c, audited)
  BY <1>2 DEF TypeOK, Shapes, Shape, Expired, DecideDeny, Deny
<1>3. CASE DecideAllow(c, audited)
  BY <1>3 DEF TypeOK, Shapes, Shape, Expired, DecideAllow, Deny, Reserve, RetainThen
<1>4. CASE DecideApproval(c, audited)
  BY <1>4 DEF TypeOK, Shapes, Shape, Expired, DecideApproval, Deny, Reserve, RetainThen
<1>5. QED
  BY <1>1, <1>2, <1>3, <1>4

LEMMA MintShapes ==
  ASSUME TypeOK, Shapes, NEW c \in Call, NEW audited \in BOOLEAN,
         RailMints(c) \/ MintReturns(c, audited) \/ MintFails(c)
  PROVE  Shapes'
<1>1. CASE RailMints(c)
  BY <1>1 DEF Shapes, Shape, Expired, RailMints, memory
<1>2. CASE MintReturns(c, audited)
  BY <1>2 DEF TypeOK, Shapes, Shape, Expired, MintReturns, CanCommit, Committed
<1>3. CASE MintFails(c)
  BY <1>3 DEF TypeOK, Shapes, Shape, Expired, MintFails, Released
<1>4. QED
  BY <1>1, <1>2, <1>3

LEMMA PromptShapes ==
  ASSUME TypeOK, Shapes, NEW c \in Call, NEW audited \in BOOLEAN,
         PromptReturns(c, audited) \/ PromptFails(c)
  PROVE  Shapes'
<1>1. CASE PromptReturns(c, audited)
  BY <1>1 DEF TypeOK, Shapes, Shape, Expired, PromptReturns
<1>2. CASE PromptFails(c)
  BY <1>2 DEF TypeOK, Shapes, Shape, Expired, PromptFails, Released
<1>3. QED
  BY <1>1, <1>2

\* Whatever decides a prompt: c is undecided or stale before, and an expired
\* record is past its expiry.
LEMMA ResolveShapes ==
  ASSUME TypeOK, Shapes, NEW c \in Call,
         NEW state \in {"cancelled", "expired", "stale", "denied"},
         NEW status \in {"pending", "denied", "expired"},
         prompt[c] \in {"pending_approval", "stale"},
         state = "expired" => Expired(c),
         Resolve(c, state, status)
  PROVE  Shapes'
<1>1. ASSUME NEW d \in Call \ {c} PROVE Shape(d)'
  <2>1. /\ UNCHANGED <<pc[d], prompt[d], held[d], cred[d], row[d], res[d]>>
        /\ UNCHANGED now
    BY DEF TypeOK, Resolve, LetGo
  <2>2. QED
    BY <2>1 DEF Shapes, Shape, Expired
<1>2. Shape(c)'
  <2>1. /\ ~held'[c] /\ prompt'[c] = state /\ row'[c] = status
        /\ UNCHANGED <<pc[c], cred[c], now>>
        /\ UNCHANGED res[c].created
        /\ pc[c] \in {"done", "failed"} /\ cred[c] = "none"
    BY DEF TypeOK, Shapes, Shape, Resolve, LetGo, Released
  <2>2. QED
    BY <2>1 DEF Shape, Expired
<1>3. QED
  BY <1>1, <1>2 DEF Shapes

LEMMA ApproveShapes ==
  ASSUME TypeOK, Shapes, NEW c \in Call,
         CallbackApprove(c) \/ ApproveReturns(c) \/ ApproveFails(c)
  PROVE  Shapes'
<1>1. CASE CallbackApprove(c)
  BY <1>1 DEF Shapes, Shape, Expired, CallbackApprove
<1>2. CASE ApproveReturns(c)
  <2>1. ASSUME NEW d \in Call \ {c} PROVE Shape(d)'
    <3>1. UNCHANGED <<pc[d], prompt[d], held[d], cred[d], row[d], res[d], now>>
      BY <1>2 DEF TypeOK, ApproveReturns
    <3>2. QED
      BY <3>1 DEF Shapes, Shape, Expired
  <2>2. Shape(c)'
    <3>1. CASE held[c] /\ CanCommit(c)
      <4>1. /\ res'[c].status = "committed" /\ prompt'[c] = "approved"
            /\ UNCHANGED <<pc[c], held[c]>>
        <5>1. Committed(c).status = "committed"
          BY DEF TypeOK, Committed
        <5>2. /\ res'[c] = Committed(c) /\ prompt'[c] = "approved"
              /\ UNCHANGED <<pc[c], held[c]>>
          BY <1>2, <3>1 DEF TypeOK, ApproveReturns
        <5>3. QED
          BY <5>1, <5>2
      <4>2. pc[c] \in {"done", "failed"}
        BY <3>1 DEF Shapes, Shape
      <4>3. QED
        BY <3>1, <4>1, <4>2 DEF Shape
    <3>2. CASE ~(held[c] /\ CanCommit(c))
      <4>1. UNCHANGED <<pc[c], prompt[c], held[c], cred[c], row[c], res[c], now>>
        BY <1>2, <3>2 DEF ApproveReturns
      <4>2. QED
        BY <4>1 DEF Shapes, Shape, Expired
    <3>3. QED
      BY <3>1, <3>2
  <2>3. QED
    BY <2>1, <2>2 DEF Shapes
<1>3. CASE ApproveFails(c)
  BY <1>3 DEF Shapes, Shape, Expired, ApproveFails
<1>4. QED
  BY <1>1, <1>2, <1>3

LEMMA CredentialShapes ==
  ASSUME TypeOK, Shapes, NEW c \in Call, RevokeCredential(c) \/ AckSettlement(c)
  PROVE  Shapes'
BY DEF TypeOK, Shapes, Shape, Expired, RevokeCredential, AckSettlement, CloseCredential

LEMMA ProcessShapes ==
  ASSUME TypeOK, Shapes, NEW p \in Policy, ReloadPolicy(p) \/ Restart(p)
  PROVE  Shapes'
<1>1. CASE ReloadPolicy(p)
  BY <1>1 DEF Shapes, Shape, Expired, ReloadPolicy, memory
<1>2. CASE Restart(p)
  BY <1>2 DEF TypeOK, Shapes, Shape, Expired, Restart, Released
<1>3. QED
  BY <1>1, <1>2

-----------------------------------------------------------------------------
(* Reference counts are exact.                                             *)

RefsGood == RefsExact /\ HeldAreKept /\ refs \in [Policy -> Nat]

LEMMA QuietRefs ==
  ASSUME RefsGood, UNCHANGED <<refs, snaps, current>>,
         \A c \in Call : Holder(c)' <=> Holder(c),
         \A c \in Call : Holder(c) => captured'[c] = captured[c]
  PROVE  RefsGood'
BY SameHolders DEF RefsGood, HeldAreKept

LEMMA GainRefs ==
  ASSUME TypeOK, RefsGood, NEW c \in Call,
         ~Holder(c), Holder(c)', captured[c] \in snaps,
         \A d \in Call \ {c} : Holder(d)' <=> Holder(d),
         UNCHANGED <<captured, snaps, current>>,
         RetainSnapshot(captured[c])
  PROVE  RefsGood'
<1>1. /\ RefsExact'
      /\ \A p \in Policy : Holders(p)' \subseteq Holders(p) \cup
                             (IF p = captured[c] THEN {c} ELSE {})
  BY GainHolder DEF RefsGood
<1>2. HeldAreKept'
  BY <1>1 DEF RefsGood, HeldAreKept
<1>3. refs' \in [Policy -> Nat]
  BY DEF RetainSnapshot, TypeOK
<1>4. QED
  BY <1>1, <1>2, <1>3 DEF RefsGood

LEMMA LoseRefs ==
  ASSUME TypeOK, RefsGood, NEW c \in Call,
         Holder(c), ~Holder(c)',
         \A d \in Call \ {c} : Holder(d)' <=> Holder(d),
         UNCHANGED <<captured, current>>,
         ReleaseSnapshot(captured[c])
  PROVE  RefsGood'
<1>1. refs' = [refs EXCEPT ![captured[c]] = @ - 1] /\ snaps' = Kept(snaps, refs', current)
  BY DEF ReleaseSnapshot
<1>2. /\ RefsExact' /\ refs' \in [Policy -> Nat]
      /\ \A p \in Policy : Holders(p)' \subseteq Holders(p)
  BY <1>1, LoseHolder DEF RefsGood
<1>3. HeldAreKept'
  BY <1>1, <1>2, GcKeepsHolders DEF RefsGood
<1>4. QED
  BY <1>2, <1>3 DEF RefsGood

LEMMA ProposeRefs ==
  ASSUME TypeOK, Shapes, RefsGood, NEW c \in Call, NEW audited \in BOOLEAN,
         \/ Propose(c) \/ FactsFail(c) \/ DecideDeny(c, audited)
         \/ DecideAllow(c, audited) \/ DecideApproval(c, audited)
  PROVE  RefsGood'
<1>1. /\ pc[c] \in {"idle", "facts"} /\ ~Holder(c)
      /\ UNCHANGED <<snaps, current, held, prompt, cred>>
      /\ \A d \in Call \ {c} : /\ UNCHANGED pc[d]
                              /\ UNCHANGED captured[d]
  BY DEF TypeOK, Shapes, Shape, Holder, Propose, FactsFail, DecideDeny, DecideAllow,
         DecideApproval, Deny, RetainThen
<1>2. \A d \in Call \ {c} : Holder(d)' <=> Holder(d)
  BY <1>1 DEF Holder
<1>3. \/ pc'[c] \notin {"minting", "prompting", "stranded"} /\ UNCHANGED refs
      \/ /\ captured[c] \in snaps /\ RetainSnapshot(captured[c]) /\ UNCHANGED captured
         /\ pc'[c] \in {"minting", "prompting"}
  BY DEF TypeOK, Propose, FactsFail, DecideDeny, DecideAllow, DecideApproval, Deny, RetainThen
<1>4. CASE pc'[c] \notin {"minting", "prompting", "stranded"} /\ UNCHANGED refs
  <2>1. ~Holder(c)'
    BY <1>1, <1>4 DEF Holder
  <2>2. QED
    BY <1>1, <1>2, <1>4, <2>1, QuietRefs
<1>5. CASE /\ captured[c] \in snaps /\ RetainSnapshot(captured[c]) /\ UNCHANGED captured
           /\ pc'[c] \in {"minting", "prompting"}
  BY <1>1, <1>2, <1>5, GainRefs DEF Holder
<1>6. QED
  BY <1>3, <1>4, <1>5

LEMMA WaitRefs ==
  ASSUME TypeOK, Shapes, RefsGood, NEW c \in Call, NEW audited \in BOOLEAN,
         \/ MintReturns(c, audited) \/ MintFails(c)
         \/ PromptReturns(c, audited) \/ PromptFails(c)
  PROVE  RefsGood'
<1>1. Holder(c) /\ UNCHANGED <<captured, current>>
  BY DEF Holder, MintReturns, MintFails, PromptReturns, PromptFails
<1>2. \A d \in Call \ {c} : Holder(d)' <=> Holder(d)
  BY DEF TypeOK, Holder, MintReturns, MintFails, PromptReturns, PromptFails
<1>3. CASE MintReturns(c, audited)
  <2>1. Holder(c)' /\ UNCHANGED <<refs, snaps>>
    BY <1>3 DEF TypeOK, Holder, MintReturns
  <2>2. QED
    BY <1>1, <1>2, <2>1, QuietRefs
<1>4. CASE PromptReturns(c, audited)
  <2>1. Holder(c)' /\ UNCHANGED <<refs, snaps>>
    BY <1>4 DEF TypeOK, Holder, PromptReturns
  <2>2. QED
    BY <1>1, <1>2, <2>1, QuietRefs
<1>5. CASE MintFails(c) \/ PromptFails(c)
  <2>1. ~Holder(c)' /\ ReleaseSnapshot(captured[c])
    BY <1>5 DEF TypeOK, Shapes, Shape, Holder, MintFails, PromptFails
  <2>2. QED
    BY <1>1, <1>2, <2>1, LoseRefs
<1>6. QED
  BY <1>3, <1>4, <1>5

LEMMA ResolveRefs ==
  ASSUME TypeOK, Shapes, RefsGood, NEW c \in Call,
         NEW state \in {"cancelled", "expired", "stale", "denied"}, NEW status,
         prompt[c] \in {"pending_approval", "stale"},
         Resolve(c, state, status)
  PROVE  RefsGood'
<1>1. UNCHANGED <<captured, current, pc, cred>> /\ pc[c] \in {"done", "failed"}
      /\ cred[c] = "none"
  BY DEF TypeOK, Shapes, Shape, Resolve
<1>2. \A d \in Call \ {c} : Holder(d)' <=> Holder(d)
  BY <1>1 DEF TypeOK, Holder, Resolve, LetGo
<1>3. ~Holder(c)'
  BY <1>1 DEF TypeOK, Holder, Resolve
<1>4. CASE held[c]
  <2>1. Holder(c) /\ ReleaseSnapshot(captured[c])
    BY <1>4 DEF Shapes, Shape, Holder, Resolve, LetGo
  <2>2. QED
    BY <1>1, <1>2, <1>3, <2>1, LoseRefs
<1>5. CASE ~held[c]
  <2>1. ~Holder(c) /\ UNCHANGED <<refs, snaps>>
    BY <1>1, <1>5 DEF Holder, Resolve, LetGo
  <2>2. QED
    BY <1>1, <1>2, <1>3, <2>1, QuietRefs
<1>6. QED
  BY <1>4, <1>5

LEMMA ApproveRefs ==
  ASSUME TypeOK, Shapes, RefsGood, NEW c \in Call,
         CallbackApprove(c) \/ ApproveReturns(c) \/ ApproveFails(c)
  PROVE  RefsGood'
<1>1. UNCHANGED <<refs, snaps, current, captured, pc, held>>
  BY DEF CallbackApprove, ApproveReturns, ApproveFails
<1>2. \A d \in Call \ {c} : Holder(d)' <=> Holder(d)
  BY DEF TypeOK, Holder, CallbackApprove, ApproveReturns, ApproveFails
<1>3. Holder(c)' <=> Holder(c)
  BY DEF TypeOK, Shapes, Shape, Holder, CallbackApprove, ApproveReturns, ApproveFails,
         CanCommit
<1>4. QED
  BY <1>1, <1>2, <1>3, QuietRefs

LEMMA CredentialRefs ==
  ASSUME TypeOK, Shapes, RefsGood, NEW c \in Call,
         RevokeCredential(c) \/ AckSettlement(c)
  PROVE  RefsGood'
<1>1. UNCHANGED <<captured, current, pc, held, prompt>>
  BY DEF RevokeCredential, AckSettlement
<1>2. \A d \in Call \ {c} : Holder(d)' <=> Holder(d)
  BY DEF TypeOK, Holder, RevokeCredential, AckSettlement, CloseCredential
<1>3. CASE cred[c] = "open"
  <2>1. Holder(c) /\ ReleaseSnapshot(captured[c])
    BY <1>3 DEF Holder, RevokeCredential, AckSettlement, CloseCredential
  <2>2. /\ pc[c] \notin {"minting", "prompting", "stranded"}
        /\ prompt[c] # "pending_approval"
    BY <1>3 DEF TypeOK, Shapes, Shape
  <2>3. cred'[c] = "closed"
    BY <1>3 DEF TypeOK, RevokeCredential, AckSettlement, CloseCredential
  <2>4. ~Holder(c)'
    BY <1>1, <2>2, <2>3 DEF Holder
  <2>5. QED
    BY <1>1, <1>2, <2>1, <2>4, LoseRefs
<1>4. CASE cred[c] # "open"
  <2>1. UNCHANGED <<cred, refs, snaps>>
    BY <1>4 DEF RevokeCredential, AckSettlement, CloseCredential
  <2>2. \A d \in Call : Holder(d)' <=> Holder(d)
    BY <1>1, <2>1 DEF Holder
  <2>3. QED
    BY <1>1, <2>1, <2>2, QuietRefs
<1>5. QED
  BY <1>3, <1>4

LEMMA ReloadRefs ==
  ASSUME RefsGood, NEW p \in Policy, ReloadPolicy(p)
  PROVE  RefsGood'
<1>1. /\ UNCHANGED <<refs, pc, held, prompt, cred, captured>>
      /\ snaps' = Kept(snaps \cup {p}, refs, p) /\ current' = p
  BY DEF ReloadPolicy, memory
<1>2. RefsExact' /\ \A q \in Policy : Holders(q)' = Holders(q)
  BY <1>1, SameHolders DEF RefsGood, Holder
<1>3. ASSUME NEW q \in Policy, Holders(q) # {} PROVE refs[q] > 0
  <2>1. Cardinality(Holders(q)) \in Nat /\ Cardinality(Holders(q)) # 0
    BY <1>3, FiniteHolders, FS_CardinalityType, FS_EmptySet
  <2>2. QED
    BY <2>1 DEF RefsGood, RefsExact
<1>4. HeldAreKept'
  BY <1>1, <1>2, <1>3 DEF RefsGood, HeldAreKept, Kept
<1>5. QED
  BY <1>1, <1>2, <1>4 DEF RefsGood

LEMMA RestartRefs ==
  ASSUME NEW p \in Policy, Restart(p)
  PROVE  RefsGood'
<1>1. \A c \in Call : ~Holder(c)'
  BY DEF Restart, Holder
<1>2. \A q \in Policy : Holders(q)' = {}
  BY <1>1 DEF Holders
<1>3. refs' = [q \in Policy |-> 0] /\ snaps' = {p} /\ current' = p
  BY DEF Restart
<1>4. RefsExact'
  BY <1>2, <1>3, FS_EmptySet DEF RefsExact
<1>5. QED
  BY <1>2, <1>3, <1>4 DEF RefsGood, HeldAreKept

-----------------------------------------------------------------------------
(* Type correctness.                                                       *)

RowType == [status  : {"none", "pending", "committed", "released"},
            created : 0..MaxTime, expires : Nat, late : BOOLEAN]

LEMMA RowUpdate ==
  ASSUME NEW r \in RowType, NEW late \in BOOLEAN,
         NEW status \in {"none", "pending", "committed", "released"}
  PROVE  /\ [r EXCEPT !.status = status] \in RowType
         /\ [r EXCEPT !.status = status, !.late = late] \in RowType
BY DEF RowType

LEMMA SameStatus ==
  ASSUME NEW r \in RowType PROVE [r EXCEPT !.status = r.status] = r
BY DEF RowType

LEMMA LateField ==
  ASSUME NEW r \in RowType, NEW late \in BOOLEAN
  PROVE  [r EXCEPT !.status = "committed", !.late = late].late = late
BY DEF RowType

LEMMA ReservedType ==
  ASSUME TypeOK, NEW c \in Call, Reserve(c) PROVE res' \in [Call -> RowType]
BY TimeAssumption, BoundAssumption DEF TypeOK, Reserve, RowType

LEMMA ReleasedType ==
  ASSUME TypeOK, NEW c \in Call PROVE Released(c) \in RowType
<1>1. res[c] \in RowType
  BY DEF TypeOK, RowType
<1>2. res[c].status \in {"none", "pending", "committed", "released"}
  BY <1>1 DEF RowType
<1>3. QED
  BY <1>1, <1>2, RowUpdate DEF Released

LEMMA CommittedType ==
  ASSUME TypeOK, NEW c \in Call PROVE Committed(c) \in RowType
<1>1. res[c] \in RowType /\ (res[c].expires < now) \in BOOLEAN
  BY DEF TypeOK, RowType
<1>2. QED
  BY <1>1, RowUpdate, Zenon DEF Committed

LEMMA InitType == Init => TypeOK
BY PolicyAssumption, BoundAssumption
DEF Init, TypeOK, NoRow, Never, Envelopes, NoEnvelope

LEMMA TickType == TypeOK /\ Tick => TypeOK'
BY BoundAssumption DEF TypeOK, Tick, memory

LEMMA ProposeType ==
  ASSUME TypeOK, refs' \in [Policy -> Nat], NEW c \in Call, NEW audited \in BOOLEAN,
         \/ Propose(c) \/ FactsFail(c) \/ DecideDeny(c, audited)
         \/ DecideAllow(c, audited) \/ DecideApproval(c, audited)
  PROVE  TypeOK'
<1>1. KeyOf[c] \in Key /\ Envelope("deny", c) \in Envelopes
  BY CallAssumption DEF Envelope, Envelopes
<1>2. CASE Propose(c)
  <2>1. pc' \in [Call -> {"idle"} \cup Waiting \cup Settled]
    <3>1. pc' = [pc EXCEPT ![c] = "done"] \/ pc' = [pc EXCEPT ![c] = "facts"]
      BY <1>2 DEF Propose
    <3>2. QED
      BY <3>1 DEF TypeOK, Waiting, Settled
  <2>2. captured' \in [Call -> Policy]
    <3>1. captured' = captured \/ captured' = [captured EXCEPT ![c] = current]
      BY <1>2 DEF Propose
    <3>2. QED
      BY <3>1 DEF TypeOK
  <2>3. QED
    BY <1>2, <2>1, <2>2 DEF TypeOK, Propose
<1>3. CASE FactsFail(c)
  BY <1>3 DEF TypeOK, FactsFail, Waiting, Settled
<1>4. CASE DecideDeny(c, audited)
  BY <1>1, <1>4 DEF TypeOK, DecideDeny, Deny, Waiting, Settled
<1>5. CASE DecideAllow(c, audited)
  <2>1. res' \in [Call -> RowType]
    BY <1>5, ReservedType DEF DecideAllow, TypeOK, RowType
  <2>2. /\ pc' \in [Call -> {"idle"} \cup Waiting \cup Settled]
        /\ idem' \in [Key -> Envelopes]
    BY <1>1, <1>5 DEF DecideAllow, TypeOK, Deny, RetainThen, Waiting, Settled
  <2>3. QED
    BY <1>5, <2>1, <2>2 DEF DecideAllow, TypeOK, RowType
<1>6. CASE DecideApproval(c, audited)
  <2>1. res' \in [Call -> RowType]
    BY <1>6, ReservedType DEF DecideApproval, TypeOK, RowType
  <2>2. /\ pc' \in [Call -> {"idle"} \cup Waiting \cup Settled]
        /\ idem' \in [Key -> Envelopes]
    <3>1. CASE BudgetLeft /\ WithinLimits(c)
      BY <1>6, <3>1 DEF DecideApproval, TypeOK, RetainThen, Waiting, Settled
    <3>2. CASE ~(BudgetLeft /\ WithinLimits(c))
      <4>1. \E b \in BOOLEAN : Deny(c, b)
        BY <1>6, <3>2 DEF DecideApproval
      <4>2. QED
        BY <1>1, <4>1 DEF TypeOK, Deny, Waiting, Settled
    <3>3. QED
      BY <3>1, <3>2
  <2>3. consumed' \in [Call -> {Never} \cup 0..MaxTime]
    BY <1>6 DEF DecideApproval, TypeOK
  <2>4. QED
    BY <1>6, <2>1, <2>2, <2>3 DEF DecideApproval, TypeOK, RowType
<1>7. QED
  BY <1>2, <1>3, <1>4, <1>5, <1>6

LEMMA WaitType ==
  ASSUME TypeOK, refs' \in [Policy -> Nat], NEW c \in Call, NEW audited \in BOOLEAN,
         \/ RailMints(c) \/ MintReturns(c, audited) \/ MintFails(c)
         \/ PromptReturns(c, audited) \/ PromptFails(c)
  PROVE  TypeOK'
<1>1. KeyOf[c] \in Key /\ \A d \in {"allow", "pending_approval"} : Envelope(d, c) \in Envelopes
  BY CallAssumption DEF Envelope, Envelopes
<1>2. CASE RailMints(c)
  BY <1>2 DEF TypeOK, RailMints, memory
<1>3. CASE MintReturns(c, audited)
  <2>1. res' \in [Call -> RowType]
    BY <1>3, CommittedType DEF MintReturns, TypeOK, RowType
  <2>2. /\ pc' \in [Call -> {"idle"} \cup Waiting \cup Settled]
        /\ idem' \in [Key -> Envelopes]
        /\ cred' \in [Call -> {"none", "open", "closed"}]
    <3>1. \/ /\ pc' = [pc EXCEPT ![c] = "done"]
             /\ idem' = [idem EXCEPT ![KeyOf[c]] = Envelope("allow", c)]
             /\ cred' = [cred EXCEPT ![c] = "open"]
          \/ pc' = [pc EXCEPT ![c] = "stranded"] /\ UNCHANGED <<idem, cred>>
      BY <1>3 DEF MintReturns
    <3>2. /\ pc \in [Call -> {"idle"} \cup Waiting \cup Settled]
          /\ idem \in [Key -> Envelopes]
          /\ cred \in [Call -> {"none", "open", "closed"}]
          /\ Envelope("allow", c) \in Envelopes
      BY <1>1 DEF TypeOK
    <3>3. "done" \in Settled /\ "stranded" \in Settled
      BY DEF Settled
    <3>4. QED
      BY <1>1, <3>1, <3>2, <3>3
  <2>3. QED
    BY <1>3, <2>1, <2>2 DEF MintReturns, TypeOK, RowType
<1>4. CASE MintFails(c) \/ PromptFails(c)
  <2>1. res' \in [Call -> RowType]
    BY <1>4, ReleasedType DEF MintFails, PromptFails, TypeOK, RowType
  <2>2. QED
    BY <1>4, <2>1 DEF MintFails, PromptFails, ReleaseSnapshot, Kept, TypeOK, RowType,
                      Waiting, Settled
<1>5. CASE PromptReturns(c, audited)
  BY <1>1, <1>5 DEF TypeOK, PromptReturns, Waiting, Settled
<1>6. QED
  BY <1>2, <1>3, <1>4, <1>5

LEMMA ResolveType ==
  ASSUME TypeOK, refs' \in [Policy -> Nat], NEW c \in Call,
         NEW state \in {"cancelled", "expired", "stale", "denied"},
         NEW status \in {"none", "pending", "approved", "denied", "expired"},
         Resolve(c, state, status)
  PROVE  TypeOK'
<1>1. res' \in [Call -> RowType] /\ held' \in [Call -> BOOLEAN] /\ snaps' \in SUBSET Policy
  BY ReleasedType DEF Resolve, LetGo, ReleaseSnapshot, Kept, TypeOK, RowType
<1>2. QED
  BY <1>1 DEF Resolve, TypeOK, RowType

LEMMA ApproveType ==
  ASSUME TypeOK, NEW c \in Call,
         CallbackApprove(c) \/ ApproveReturns(c) \/ ApproveFails(c)
  PROVE  TypeOK'
<1>1. CASE CallbackApprove(c)
  BY <1>1, BoundAssumption DEF TypeOK, CallbackApprove
<1>2. CASE ApproveReturns(c)
  <2>1. res' \in [Call -> RowType]
    BY <1>2, CommittedType DEF ApproveReturns, TypeOK, RowType
  <2>2. approving' \in [Call -> 0..MaxCallbacks]
    BY <1>2, BoundAssumption DEF ApproveReturns, TypeOK
  <2>3. QED
    BY <1>2, <2>1, <2>2 DEF ApproveReturns, TypeOK, RowType
<1>3. CASE ApproveFails(c)
  BY <1>3, BoundAssumption DEF TypeOK, ApproveFails
<1>4. QED
  BY <1>1, <1>2, <1>3

LEMMA CredentialType ==
  ASSUME TypeOK, refs' \in [Policy -> Nat], NEW c \in Call,
         RevokeCredential(c) \/ AckSettlement(c)
  PROVE  TypeOK'
BY DEF TypeOK, RevokeCredential, AckSettlement, CloseCredential, ReleaseSnapshot, Kept

LEMMA ProcessType ==
  ASSUME TypeOK, NEW p \in Policy, ReloadPolicy(p) \/ Restart(p)
  PROVE  TypeOK'
<1>1. CASE ReloadPolicy(p)
  BY <1>1 DEF TypeOK, ReloadPolicy, Kept, memory
<1>2. CASE Restart(p)
  <2>1. res' \in [Call -> RowType]
    BY <1>2, ReleasedType DEF Restart, TypeOK, RowType
  <2>2. QED
    BY <1>2, <2>1, BoundAssumption DEF Restart, TypeOK, RowType, NoEnvelope, Envelopes,
                                       Waiting, Settled, Never
<1>3. QED
  BY <1>1, <1>2

-----------------------------------------------------------------------------
(* The inductive invariant.                                                *)

\* The counts stay naturals only because they are exact, and stay exact only
\* because the parts of a call's state fit together.
IInv == TypeOK /\ Shapes /\ RefsGood

LEMMA InitInv == Init => IInv
<1> SUFFICES ASSUME Init PROVE IInv
  OBVIOUS
<1>1. TypeOK
  BY InitType
<1>2. Shapes
  BY DEF Init, Shapes, Shape, NoRow
<1>3. \A p \in Policy : Holders(p) = {}
  BY DEF Init, Holders, Holder
<1>4. RefsGood
  BY <1>3, FS_EmptySet DEF Init, RefsGood, RefsExact, HeldAreKept
<1>5. QED
  BY <1>1, <1>2, <1>4 DEF IInv

LEMMA TickInv == IInv /\ Tick => IInv'
<1> SUFFICES ASSUME IInv, Tick PROVE IInv'
  OBVIOUS
<1>1. RefsGood'
  <2>1. \A c \in Call : Holder(c)' <=> Holder(c)
    BY DEF Tick, memory, Holder
  <2>2. QED
    BY <2>1, QuietRefs DEF IInv, Tick, memory
<1>2. QED
  BY <1>1, TickType, TickShapes DEF IInv

\* A callback's checks leave the undecided and the stale records.
LEMMA OpenIsUndecided ==
  ASSUME IInv, NEW c \in Call, CallbackOpen(c)
  PROVE  prompt[c] \in {"pending_approval", "stale"}
BY DEF IInv, TypeOK, Shapes, Shape, CallbackOpen

LEMMA ResolveInv ==
  ASSUME IInv, NEW c \in Call,
         NEW state \in {"cancelled", "expired", "stale", "denied"},
         NEW status \in {"pending", "denied", "expired"},
         prompt[c] \in {"pending_approval", "stale"},
         state = "expired" => Expired(c),
         Resolve(c, state, status)
  PROVE  IInv'
<1>1. Shapes'
  BY ResolveShapes DEF IInv
<1>2. RefsGood'
  BY ResolveRefs DEF IInv
<1>3. TypeOK'
  BY <1>2, ResolveType DEF IInv, RefsGood
<1>4. QED
  BY <1>1, <1>2, <1>3 DEF IInv

LEMMA ContinueInv ==
  ASSUME IInv, NEW c \in Call, Continue(c)
  PROVE  IInv'
<1>1. PICK audited \in BOOLEAN :
        \/ FactsFail(c) \/ DecideDeny(c, audited)
        \/ DecideAllow(c, audited) \/ DecideApproval(c, audited)
        \/ MintReturns(c, audited) \/ MintFails(c)
        \/ PromptReturns(c, audited) \/ PromptFails(c)
  BY DEF Continue
<1>2. TypeOK /\ Shapes /\ RefsGood
  BY DEF IInv
<1>3. Shapes'
  BY <1>1, <1>2, DecideShapes, MintShapes, PromptShapes
<1>4. RefsGood'
  BY <1>1, <1>2, ProposeRefs, WaitRefs
<1>5. TypeOK'
  BY <1>1, <1>2, <1>4, ProposeType, WaitType DEF RefsGood
<1>6. QED
  BY <1>3, <1>4, <1>5 DEF IInv

LEMMA FinishInv ==
  ASSUME IInv, NEW c \in Call, FinishApproval(c) \/ CallbackApprove(c)
  PROVE  IInv'
BY ApproveShapes, ApproveRefs, ApproveType DEF IInv, FinishApproval

LEMMA EnvironmentInv ==
  ASSUME IInv, NEW c \in Call, Environment(c)
  PROVE  IInv'
<1>1. TypeOK /\ Shapes /\ RefsGood
  BY DEF IInv
<1>2. CASE Propose(c)
  <2>1. RefsGood'
    BY <1>1, <1>2, ProposeRefs
  <2>2. QED
    BY <1>1, <1>2, <2>1, ProposeShapes, ProposeType DEF IInv, RefsGood
<1>3. CASE RailMints(c)
  <2>1. RefsGood'
    <3>1. \A d \in Call : Holder(d)' <=> Holder(d)
      BY <1>3 DEF RailMints, memory, Holder
    <3>2. QED
      BY <1>1, <1>3, <3>1, QuietRefs DEF RailMints, memory
  <2>2. QED
    BY <1>1, <1>3, <2>1, MintShapes, WaitType DEF IInv, RefsGood
<1>4. ASSUME NEW audited \in BOOLEAN, CancelIntent(c, audited) PROVE IInv'
  <2>1. row[c] = "pending"
    BY <1>1, <1>4 DEF CancelIntent, Shapes, Shape
  <2>2. PICK status \in {"pending", "denied"} : Resolve(c, "cancelled", status)
    BY <1>4, <2>1 DEF CancelIntent
  <2>3. QED
    BY <1>4, <2>2, ResolveInv DEF CancelIntent
<1>5. CASE ExpirePrompt(c)
  BY <1>5, ResolveInv DEF ExpirePrompt
<1>6. ASSUME NEW sameHash \in BOOLEAN, CallbackStale(c, sameHash) PROVE IInv'
  BY <1>6, OpenIsUndecided, ResolveInv DEF CallbackStale
<1>7. CASE CallbackDeny(c)
  BY <1>7, OpenIsUndecided, ResolveInv DEF CallbackDeny
<1>8. CASE CallbackApprove(c)
  BY <1>8, FinishInv
<1>9. CASE RevokeCredential(c) \/ AckSettlement(c)
  BY <1>1, <1>9, CredentialShapes, CredentialRefs, CredentialType DEF IInv, RefsGood
<1>10. QED
  BY <1>2, <1>3, <1>4, <1>5, <1>6, <1>7, <1>8, <1>9 DEF Environment

LEMMA ProcessInv ==
  ASSUME IInv, NEW p \in Policy, ReloadPolicy(p) \/ Restart(p)
  PROVE  IInv'
BY ProcessShapes, ProcessType, ReloadRefs, RestartRefs DEF IInv

LEMMA StutterInv == IInv /\ UNCHANGED vars => IInv'
BY DEF IInv, TypeOK, Shapes, Shape, Expired, RefsGood, RefsExact, HeldAreKept, Holders,
       Holder, vars

LEMMA StepInv == IInv /\ [Next]_vars => IInv'
BY TickInv, ContinueInv, FinishInv, EnvironmentInv, ProcessInv, StutterInv DEF Next

\* IInv holds in every reachable state.
THEOREM Inductive == Spec => []IInv
BY InitInv, StepInv, PTL DEF Spec

\* Every variable keeps its type, whatever the calls, policies and limits.
THEOREM TypeCorrect == Spec => []TypeOK
<1>1. IInv => TypeOK
  BY DEF IInv
<1>2. QED
  BY <1>1, Inductive, PTL

\* The reference count of a snapshot is the number of waiting proposals,
\* undecided prompts and unsettled credentials that need it.
THEOREM RefsAreExact == Spec => []RefsExact
<1>1. IInv => RefsExact
  BY DEF IInv, RefsGood
<1>2. QED
  BY <1>1, Inductive, PTL

\* gc never drops a snapshot somebody still needs, nor the current one.
THEOREM SnapshotsAreKept == Spec => []HeldAreKept
<1>1. IInv => HeldAreKept
  BY DEF IInv, RefsGood
<1>2. QED
  BY <1>1, Inductive, PTL

\* No credential is handed out, and no approval recorded, without a committed
\* reservation behind it.
THEOREM HandedOutAreCommitted == Spec => []HandedOutIsCommitted
<1>1. IInv => HandedOutIsCommitted
  BY DEF IInv, Shapes, Shape, HandedOutIsCommitted
<1>2. QED
  BY <1>1, Inductive, PTL

\* A failed proposal that left no prompt holds none of the rule's budget.
THEOREM FailuresHoldNothing == Spec => []FailedHoldsNothing
<1>1. IInv => FailedHoldsNothing
  BY DEF IInv, Shapes, Shape, FailedHoldsNothing
<1>2. QED
  BY <1>1, Inductive, PTL

-----------------------------------------------------------------------------
(* The rolling count.                                                      *)

\* What a step that admits no intent does to the row of d.
Shrinks(d) ==
  \/ res'[d].status \in {"none", "released"}
  \/ res'[d] = res[d] /\ captured'[d] = captured[d]
  \/ CanCommit(d) /\ res'[d] = Committed(d) /\ captured'[d] = captured[d]

ShrinkStep == now' >= now /\ \A d \in Call : Shrinks(d)

\* What a step that admits c does.
Admits(c) == WithinLimits(c) /\ Reserve(c) /\ UNCHANGED <<now, captured>>

LEMMA ShrinkDay ==
  ASSUME TypeOK, TypeOK', ShrinkStep, NEW r \in Rule
  PROVE  OnTime(DaySet(r))' \subseteq OnTime(DaySet(r))
<1>1. SUFFICES ASSUME NEW d \in Call, d \in OnTime(DaySet(r))'
               PROVE  d \in OnTime(DaySet(r))
  BY DEF OnTime, DaySet
<1>2. /\ Active(d)' /\ OfRule(d, r)' /\ res'[d].created >= now' - Window
      /\ ~(res'[d].status = "committed" /\ res'[d].late)
      /\ now' >= now /\ Shrinks(d)
  BY <1>1 DEF OnTime, DaySet, ShrinkStep
<1>3. now \in Nat /\ now' \in Nat /\ res[d].expires \in Nat /\ res[d].created \in Nat
  BY BoundAssumption DEF TypeOK
<1>4. CASE res'[d].status \in {"none", "released"}
  BY <1>2, <1>4 DEF Active
<1>5. CASE res'[d] = res[d] /\ captured'[d] = captured[d]
  <2>1. Active(d) /\ OfRule(d, r) /\ res[d].created >= now - Window
        /\ ~(res[d].status = "committed" /\ res[d].late)
    BY <1>2, <1>3, <1>5, TimeAssumption DEF Active, OfRule
  <2>2. QED
    BY <2>1 DEF OnTime, DaySet
<1>6. CASE CanCommit(d) /\ res'[d] = Committed(d) /\ captured'[d] = captured[d]
  <2>1. Committed(d).created = res[d].created
    BY DEF TypeOK, Committed
  <2>2. Committed(d).late = (res[d].expires < now)
    <3>1. res[d] \in RowType /\ (res[d].expires < now) \in BOOLEAN
      BY DEF TypeOK, RowType
    <3>2. QED
      BY <3>1, LateField, Zenon DEF Committed
  <2>3. ~(res[d].expires < now)
    <3>1. Committed(d).status = "committed"
      BY DEF TypeOK, Committed
    <3>2. QED
      BY <1>2, <1>6, <2>2, <3>1
  <2>4. res[d].status = "pending" /\ res[d].expires >= now
    BY <1>3, <1>6, <2>3 DEF CanCommit
  <2>5. Active(d) /\ OfRule(d, r)
    BY <1>2, <1>6, <2>4 DEF Active, OfRule
  <2>6. res[d].created >= now - Window
    BY <1>2, <1>3, <1>6, <2>1, TimeAssumption
  <2>7. QED
    BY <2>4, <2>5, <2>6 DEF OnTime, DaySet
<1>7. QED
  BY <1>2, <1>4, <1>5, <1>6 DEF Shrinks

\* Everything but an admission shrinks the window.
LEMMA RowSteps ==
  ASSUME IInv, Next
  PROVE  ShrinkStep \/ \E c \in Call : Admits(c)
<1>1. TypeOK /\ Shapes /\ now \in Nat
  BY BoundAssumption DEF IInv, TypeOK
<1>2. CASE Tick
  BY <1>1, <1>2 DEF ShrinkStep, Shrinks, Tick, memory
<1>3. ASSUME NEW c \in Call, Continue(c)
      PROVE  ShrinkStep \/ Admits(c)
  <2>1. PICK audited \in BOOLEAN :
          \/ FactsFail(c) \/ DecideDeny(c, audited)
          \/ DecideAllow(c, audited) \/ DecideApproval(c, audited)
          \/ MintReturns(c, audited) \/ MintFails(c)
          \/ PromptReturns(c, audited) \/ PromptFails(c)
    BY <1>3 DEF Continue
  <2>2. UNCHANGED <<now, captured>>
    BY <2>1 DEF FactsFail, DecideDeny, DecideAllow, DecideApproval, MintReturns, MintFails,
                PromptReturns, PromptFails
  <2>3. CASE UNCHANGED res
    BY <1>1, <2>2, <2>3 DEF ShrinkStep, Shrinks
  <2>4. CASE DecideAllow(c, audited) \/ DecideApproval(c, audited)
    BY <2>2, <2>3, <2>4 DEF DecideAllow, DecideApproval, Admits
  <2>5. CASE MintReturns(c, audited)
    BY <1>1, <2>2, <2>5 DEF TypeOK, ShrinkStep, Shrinks, MintReturns
  <2>6. CASE MintFails(c) \/ PromptFails(c)
    <3>1. res[c].status = "pending"
      BY <1>1, <2>6 DEF Shapes, Shape, MintFails, PromptFails
    <3>2. Released(c).status = "released"
      BY <1>1, <3>1 DEF TypeOK, Released
    <3>3. res' = [res EXCEPT ![c] = Released(c)]
      BY <2>6 DEF MintFails, PromptFails
    <3>4. QED
      BY <1>1, <2>2, <3>2, <3>3 DEF TypeOK, ShrinkStep, Shrinks
  <2>7. QED
    BY <2>1, <2>3, <2>4, <2>5, <2>6 DEF FactsFail, DecideDeny, PromptReturns
<1>4. ASSUME NEW c \in Call, NEW state, NEW status, prompt[c] \in {"pending_approval", "stale"},
             Resolve(c, state, status)
      PROVE  ShrinkStep
  <2>1. UNCHANGED <<now, captured>> /\ LetGo(c)
    BY <1>4 DEF Resolve
  <2>2. CASE ~held[c]
    BY <1>1, <2>1, <2>2 DEF LetGo, ShrinkStep, Shrinks
  <2>3. CASE held[c]
    <3>1. Released(c).status = "released"
      BY <1>1, <1>4, <2>3 DEF TypeOK, Shapes, Shape, Released
    <3>2. QED
      BY <1>1, <2>1, <2>3, <3>1 DEF TypeOK, LetGo, ShrinkStep, Shrinks
  <2>4. QED
    BY <2>2, <2>3
<1>5. ASSUME NEW c \in Call, FinishApproval(c) PROVE ShrinkStep
  BY <1>1, <1>5 DEF TypeOK, FinishApproval, ApproveReturns, ApproveFails, ShrinkStep, Shrinks
<1>6. ASSUME NEW c \in Call, Environment(c) PROVE ShrinkStep
  <2>1. CASE Propose(c)
    BY <1>1, <2>1 DEF TypeOK, Shapes, Shape, Propose, ShrinkStep, Shrinks
  <2>2. CASE RailMints(c) \/ CallbackApprove(c) \/ RevokeCredential(c) \/ AckSettlement(c)
    BY <1>1, <2>2 DEF RailMints, CallbackApprove, RevokeCredential, AckSettlement, memory,
                      ShrinkStep, Shrinks
  <2>3. CASE \E audited \in BOOLEAN : CancelIntent(c, audited)
    BY <1>4, <2>3 DEF CancelIntent
  <2>4. CASE ExpirePrompt(c)
    BY <1>4, <2>4 DEF ExpirePrompt
  <2>5. CASE CallbackDeny(c) \/ \E sameHash \in BOOLEAN : CallbackStale(c, sameHash)
    BY <1>4, <2>5, OpenIsUndecided DEF CallbackDeny, CallbackStale
  <2>6. QED
    BY <1>6, <2>1, <2>2, <2>3, <2>4, <2>5 DEF Environment
<1>7. ASSUME NEW p \in Policy, ReloadPolicy(p) \/ Restart(p) PROVE ShrinkStep
  <2>1. CASE ReloadPolicy(p)
    BY <1>1, <2>1 DEF ReloadPolicy, memory, ShrinkStep, Shrinks
  <2>2. CASE Restart(p)
    <3>1. ASSUME NEW d \in Call PROVE Released(d) = res[d] \/ Released(d).status = "released"
      <4>1. res[d] \in RowType
        BY <1>1 DEF TypeOK, RowType
      <4>2. CASE res[d].status = "pending"
        BY <4>1, <4>2 DEF Released, RowType
      <4>3. CASE res[d].status # "pending"
        BY <4>1, <4>3, SameStatus DEF Released
      <4>4. QED
        BY <4>2, <4>3
    <3>2. QED
      BY <1>1, <2>2, <3>1 DEF Restart, ShrinkStep, Shrinks
  <2>3. QED
    BY <1>7, <2>1, <2>2
<1>8. QED
  BY <1>2, <1>3, <1>5, <1>6, <1>7 DEF Next

LEMMA FiniteDay == \A r \in Rule : IsFiniteSet(OnTime(DaySet(r))) /\ IsFiniteSet(DaySet(r))
BY FS_Subset, CallAssumption DEF OnTime, DaySet

\* An admission adds its intent to its own rule's window and to no other.
LEMMA AdmitDay ==
  ASSUME TypeOK, NEW c \in Call, Admits(c), NEW r \in Rule
  PROVE  OnTime(DaySet(r))' \subseteq
           OnTime(DaySet(r)) \cup {d \in {c} : RuleOf[captured[c]][c] = r}
<1>1. \A d \in Call \ {c} : res'[d] = res[d]
  BY DEF TypeOK, Admits, Reserve
<1>2. QED
  BY <1>1 DEF Admits, OnTime, DaySet, Active, OfRule

LEMMA InitCount == Init => CountCap
<1> SUFFICES ASSUME Init PROVE CountCap
  OBVIOUS
<1>1. \A r \in Rule : OnTime(DaySet(r)) = {}
  BY DEF Init, OnTime, DaySet, Active, NoRow
<1>2. \A r \in Rule : 0 <= MaxCount[FirstPolicy][r]
  BY PolicyAssumption, LimitAssumption
<1>3. Cardinality({}) = 0
  BY FS_EmptySet
<1>4. QED
  BY <1>1, <1>2, <1>3, PolicyAssumption DEF CountCap

LEMMA ShrinkCount ==
  ASSUME TypeOK, TypeOK', ShrinkStep, CountCap
  PROVE  CountCap'
<1>1. SUFFICES ASSUME NEW r \in Rule
               PROVE  \E p \in Policy : Cardinality(OnTime(DaySet(r))') <= MaxCount[p][r]
  BY DEF CountCap
<1>2. PICK p \in Policy : Cardinality(OnTime(DaySet(r))) <= MaxCount[p][r]
  BY DEF CountCap
<1>3. /\ Cardinality(OnTime(DaySet(r))') <= Cardinality(OnTime(DaySet(r)))
      /\ IsFiniteSet(OnTime(DaySet(r))')
  BY ShrinkDay, FiniteDay, FS_Subset
<1>4. /\ Cardinality(OnTime(DaySet(r))) \in Nat /\ Cardinality(OnTime(DaySet(r))') \in Nat
      /\ MaxCount[p][r] \in Nat
  BY <1>3, FiniteDay, FS_CardinalityType, LimitAssumption
<1>5. Cardinality(OnTime(DaySet(r))') <= MaxCount[p][r]
  BY <1>2, <1>3, <1>4
<1>6. QED
  BY <1>5

LEMMA AdmitCount ==
  ASSUME TypeOK, CountCap, NEW c \in Call, Admits(c)
  PROVE  CountCap'
<1>1. SUFFICES ASSUME NEW r \in Rule
               PROVE  \E p \in Policy : Cardinality(OnTime(DaySet(r))') <= MaxCount[p][r]
  BY DEF CountCap
<1>2. captured[c] \in Policy
  BY DEF TypeOK
<1>3. CASE RuleOf[captured[c]][c] # r
  <2>1. PICK p \in Policy : Cardinality(OnTime(DaySet(r))) <= MaxCount[p][r]
    BY DEF CountCap
  <2>2. /\ Cardinality(OnTime(DaySet(r))') <= Cardinality(OnTime(DaySet(r)))
        /\ IsFiniteSet(OnTime(DaySet(r))')
    BY <1>3, AdmitDay, FiniteDay, FS_Subset
  <2>3. /\ Cardinality(OnTime(DaySet(r))) \in Nat /\ Cardinality(OnTime(DaySet(r))') \in Nat
        /\ MaxCount[p][r] \in Nat
    BY <2>2, FiniteDay, FS_CardinalityType, LimitAssumption
  <2>4. QED
    BY <2>1, <2>2, <2>3
<1>4. CASE RuleOf[captured[c]][c] = r
  <2>1. OnTime(DaySet(r))' \subseteq DaySet(r) \cup {c}
    BY AdmitDay DEF OnTime
  <2>2. /\ IsFiniteSet(DaySet(r) \cup {c})
        /\ Cardinality(DaySet(r) \cup {c}) <= Cardinality(DaySet(r)) + 1
    BY FiniteDay, FS_AddElement, FS_CardinalityType
  <2>3. /\ Cardinality(OnTime(DaySet(r))') <= Cardinality(DaySet(r) \cup {c})
        /\ IsFiniteSet(OnTime(DaySet(r))')
    BY <2>1, <2>2, FS_Subset
  <2>4. Cardinality(DaySet(r)) + 1 <= MaxCount[captured[c]][r]
    BY <1>4 DEF Admits, WithinLimits
  <2>5. /\ Cardinality(OnTime(DaySet(r))') \in Nat /\ Cardinality(DaySet(r) \cup {c}) \in Nat
        /\ Cardinality(DaySet(r)) \in Nat /\ MaxCount[captured[c]][r] \in Nat
    BY <1>2, <2>2, <2>3, FiniteDay, FS_CardinalityType, LimitAssumption
  <2>6. Cardinality(OnTime(DaySet(r))') <= MaxCount[captured[c]][r]
    BY <2>2, <2>3, <2>4, <2>5
  <2>7. QED
    BY <1>2, <2>6
<1>5. QED
  BY <1>3, <1>4

\* per_day_count holds for every number of concurrent proposals, approvals,
\* reloads and restarts, late commits left aside.
THEOREM CountIsCapped == Spec => []CountCap
<1>1. Init => CountCap
  BY InitCount
<1>2. IInv /\ IInv' /\ CountCap /\ [Next]_vars => CountCap'
  <2>1. SUFFICES ASSUME IInv, IInv', CountCap, [Next]_vars PROVE CountCap'
    OBVIOUS
  <2>2. TypeOK /\ TypeOK'
    BY <2>1 DEF IInv
  <2>3. CASE Next
    BY <2>1, <2>2, <2>3, RowSteps, ShrinkCount, AdmitCount
  <2>4. CASE UNCHANGED vars
    <3>1. ShrinkStep
      BY <2>2, <2>4, BoundAssumption DEF vars, ShrinkStep, Shrinks, TypeOK
    <3>2. QED
      BY <2>1, <2>2, <3>1, ShrinkCount
  <2>5. QED
    BY <2>1, <2>3, <2>4
<1>3. QED
  BY <1>1, <1>2, Inductive, PTL DEF Spec

-----------------------------------------------------------------------------
(* Decisions are final.                                                    *)

Decided == {"approved", "denied", "cancelled", "expired"}

\* Only an undecided or a stale prompt is resolved, and a decided row stays.
LEMMA ResolveKeeps ==
  ASSUME IInv, NEW c \in Call, NEW state, NEW status,
         prompt[c] \in {"pending_approval", "stale"}, Resolve(c, state, status)
  PROVE  \A d \in Call : /\ prompt[d] \in Decided => prompt'[d] = prompt[d]
                         /\ res[d].status \in {"committed", "released"} => res'[d] = res[d]
<1>1. TypeOK /\ Shapes
  BY DEF IInv
<1>2. prompt' = [prompt EXCEPT ![c] = state] /\ LetGo(c)
  BY DEF Resolve
<1>3. \A d \in Call : prompt[d] \in Decided => prompt'[d] = prompt[d]
  BY <1>1, <1>2 DEF TypeOK, Decided
<1>4. held[c] => res[c].status = "pending"
  BY <1>1 DEF Shapes, Shape
<1>5. \A d \in Call : res[d].status \in {"committed", "released"} => res'[d] = res[d]
  BY <1>1, <1>2, <1>4 DEF TypeOK, LetGo
<1>6. QED
  BY <1>3, <1>5

LEMMA StepKeeps ==
  ASSUME IInv, Next, NEW d \in Call
  PROVE  /\ prompt[d] \in Decided => prompt'[d] = prompt[d] \/ restarts' # restarts
         /\ res[d].status \in {"committed", "released"} => res'[d] = res[d]
<1>1. TypeOK /\ Shapes
  BY DEF IInv
<1>2. CASE Tick
  BY <1>2 DEF Tick, memory
<1>3. ASSUME NEW c \in Call, Continue(c)
      PROVE  /\ prompt[d] \in Decided => prompt'[d] = prompt[d]
             /\ res[d].status \in {"committed", "released"} => res'[d] = res[d]
  <2>1. PICK audited \in BOOLEAN :
          \/ FactsFail(c) \/ DecideDeny(c, audited)
          \/ DecideAllow(c, audited) \/ DecideApproval(c, audited)
          \/ MintReturns(c, audited) \/ MintFails(c)
          \/ PromptReturns(c, audited) \/ PromptFails(c)
    BY <1>3 DEF Continue
  <2>2. /\ pc[c] = "facts" => res[c].status = "none"
        /\ pc[c] \in {"minting", "prompting"} => res[c].status = "pending" /\ prompt[c] = "none"
    BY <1>1 DEF Shapes, Shape
  <2>3. res'[d] = res[d] \/ (d = c /\ res[c].status \in {"none", "pending"})
    BY <1>1, <2>1, <2>2 DEF TypeOK, FactsFail, DecideDeny, DecideAllow, DecideApproval,
         Reserve, MintReturns, MintFails, PromptReturns, PromptFails
  <2>4. prompt'[d] = prompt[d] \/ (d = c /\ prompt[c] = "none")
    <3>1. \/ prompt' = prompt
          \/ pc[c] = "prompting" /\ prompt' = [prompt EXCEPT ![c] = "pending_approval"]
      BY <2>1 DEF FactsFail, DecideDeny, DecideAllow, DecideApproval, MintReturns,
                  MintFails, PromptReturns, PromptFails
    <3>2. CASE prompt' = prompt
      BY <3>2
    <3>3. CASE pc[c] = "prompting" /\ prompt' = [prompt EXCEPT ![c] = "pending_approval"]
      <4>1. prompt[c] = "none"
        BY <2>2, <3>3
      <4>2. d # c => prompt'[d] = prompt[d]
        BY <1>1, <3>3 DEF TypeOK
      <4>3. QED
        BY <4>1, <4>2
    <3>4. QED
      BY <3>1, <3>2, <3>3
  <2>5. QED
    BY <2>3, <2>4 DEF Decided
<1>4. ASSUME NEW c \in Call, FinishApproval(c)
      PROVE  /\ prompt[d] \in Decided => prompt'[d] = prompt[d]
             /\ res[d].status \in {"committed", "released"} => res'[d] = res[d]
  <2>1. held[c] /\ CanCommit(c) => prompt[c] = "pending_approval" /\ res[c].status = "pending"
    BY <1>1 DEF Shapes, Shape, CanCommit
  <2>2. \/ prompt'[d] = prompt[d] /\ res'[d] = res[d]
        \/ d = c /\ held[c] /\ CanCommit(c)
    BY <1>1, <1>4 DEF TypeOK, FinishApproval, ApproveReturns, ApproveFails
  <2>3. QED
    BY <2>1, <2>2 DEF Decided
<1>5. ASSUME NEW c \in Call, Environment(c)
      PROVE  /\ prompt[d] \in Decided => prompt'[d] = prompt[d]
             /\ res[d].status \in {"committed", "released"} => res'[d] = res[d]
  <2>1. CASE Propose(c) \/ RailMints(c) \/ CallbackApprove(c) \/ RevokeCredential(c)
             \/ AckSettlement(c)
    BY <2>1 DEF Propose, RailMints, CallbackApprove, RevokeCredential, AckSettlement, memory
  <2>2. CASE \E audited \in BOOLEAN : CancelIntent(c, audited)
    BY <2>2, ResolveKeeps DEF CancelIntent
  <2>3. CASE ExpirePrompt(c)
    BY <2>3, ResolveKeeps DEF ExpirePrompt
  <2>4. CASE CallbackDeny(c) \/ \E sameHash \in BOOLEAN : CallbackStale(c, sameHash)
    BY <2>4, OpenIsUndecided, ResolveKeeps DEF CallbackDeny, CallbackStale
  <2>5. QED
    BY <1>5, <2>1, <2>2, <2>3, <2>4 DEF Environment
<1>6. ASSUME NEW p \in Policy, ReloadPolicy(p) PROVE UNCHANGED <<prompt, res>>
  BY <1>6 DEF ReloadPolicy, memory
<1>7. ASSUME NEW p \in Policy, Restart(p)
      PROVE  /\ restarts' # restarts
             /\ res[d].status \in {"committed", "released"} => res'[d] = res[d]
  <2>1. res[d] \in RowType
    BY <1>1 DEF TypeOK, RowType
  <2>2. res[d].status \in {"committed", "released"} => Released(d) = res[d]
    BY <2>1, SameStatus DEF Released
  <2>3. QED
    BY <1>1, <1>7, <2>2, BoundAssumption DEF TypeOK, Restart
<1>8. QED
  BY <1>2, <1>3, <1>4, <1>5, <1>6, <1>7 DEF Next

\* A decided prompt keeps its decision while the process lives, and a ledger
\* row keeps its outcome for ever.
THEOREM DecisionsAreFinal == Spec => DecisionsFinal
<1>1. IInv /\ [Next]_vars =>
        [\A c \in Call :
           /\ prompt[c] \in {"approved", "denied", "cancelled", "expired"} =>
                prompt'[c] = prompt[c] \/ restarts' # restarts
           /\ res[c].status \in {"committed", "released"} => res'[c] = res[c]]_vars
  BY StepKeeps DEF Decided
<1>2. QED
  BY <1>1, Inductive, PTL DEF Spec, DecisionsFinal

-----------------------------------------------------------------------------
(* The sums: per_day_usd and per_purchase_usd.                             *)

LEMMA AmountsOf == \A S \in SUBSET Call : \A c \in S : Amount[c] \in Nat
BY LimitAssumption

LEMMA UsdType == \A S \in SUBSET Call : Usd(S) \in Nat
<1>1. SUFFICES ASSUME NEW S \in SUBSET Call PROVE Usd(S) \in Nat
  OBVIOUS
<1>2. \A c \in S : Amount[c] \in Nat
  BY AmountsOf
<1>3. QED
  BY <1>2, SumType, CallAssumption DEF Usd

LEMMA UsdGrows ==
  ASSUME NEW S \in SUBSET Call, NEW U \in SUBSET S
  PROVE  Usd(U) <= Usd(S)
<1>1. \A c \in S : Amount[c] \in Nat
  BY AmountsOf
<1>2. QED
  BY <1>1, SumGrows, CallAssumption DEF Usd

\* One more call adds its amount at most.
LEMMA UsdAdds ==
  ASSUME NEW S \in SUBSET Call, NEW c \in Call
  PROVE  Usd(S \cup {c}) <= Usd(S) + Amount[c]
<1>1. Usd(S) \in Nat /\ Amount[c] \in Nat
  BY UsdType, LimitAssumption
<1>2. CASE c \in S
  <2>1. S \cup {c} = S
    BY <1>2
  <2>2. QED
    BY <1>1, <2>1
<1>3. CASE c \notin S
  <2>1. c \in Call \ S
    BY <1>3
  <2>2. S \cup {c} \in SUBSET Call
    OBVIOUS
  <2>3. \A d \in S \cup {c} : Amount[d] \in Nat
    BY <2>2, AmountsOf
  <2>4. Usd(S \cup {c}) = Amount[c] + Usd(S)
    BY <2>1, <2>3, SumAdds, CallAssumption DEF Usd
  <2>5. QED
    BY <1>1, <2>4
<1>4. QED
  BY <1>2, <1>3

\* A window that only shrank stays within what bounded it.
LEMMA UsdStays ==
  ASSUME NEW S \in SUBSET Call, NEW U \in SUBSET S, NEW most \in Nat, Usd(S) <= most
  PROVE  Usd(U) <= most
<1>1. Usd(U) <= Usd(S)
  BY UsdGrows
<1>2. Usd(S) \in Nat /\ Usd(U) \in Nat
  BY UsdType
<1>3. QED
  BY <1>1, <1>2

\* A window that gained what the check had found room for is within its limit.
LEMMA UsdRoom ==
  ASSUME NEW S \in SUBSET Call, NEW c \in Call, NEW U \in SUBSET (S \cup {c}),
         NEW most \in Nat, Usd(S) + Amount[c] <= most
  PROVE  Usd(U) <= most
<1>1. S \cup {c} \in SUBSET Call
  OBVIOUS
<1>2. Usd(U) <= Usd(S \cup {c})
  BY <1>1, UsdGrows
<1>3. Usd(S \cup {c}) <= Usd(S) + Amount[c]
  BY UsdAdds
<1>4. Usd(S \cup {c}) \in Nat /\ Usd(U) \in Nat /\ Usd(S) \in Nat /\ Amount[c] \in Nat
  BY <1>1, UsdType, LimitAssumption
<1>5. QED
  BY <1>2, <1>3, <1>4

LEMMA UsdOfNothing == Usd({}) = 0
BY SumOfNothing DEF Usd

LEMMA ParametersOf ==
  /\ \A p \in Policy, r \in Rule : MaxUsd[p][r] \in Nat /\ MaxPurchase[p][r] \in Nat
  /\ \A p \in Policy, c \in Call : RuleOf[p][c] \in Rule
BY LimitAssumption, PolicyAssumption

LEMMA InitUsd == Init => UsdCap
<1> SUFFICES ASSUME Init PROVE UsdCap
  OBVIOUS
<1>1. \A r \in Rule : OnTime(DaySet(r)) = {}
  BY DEF Init, OnTime, DaySet, Active, NoRow
<1>2. \A r \in Rule : 0 <= MaxUsd[FirstPolicy][r]
  BY PolicyAssumption, ParametersOf
<1>3. QED
  BY <1>1, <1>2, UsdOfNothing, PolicyAssumption DEF UsdCap

LEMMA ShrinkUsd ==
  ASSUME TypeOK, TypeOK', ShrinkStep, UsdCap
  PROVE  UsdCap'
<1>1. SUFFICES ASSUME NEW r \in Rule
               PROVE  \E p \in Policy : Usd(OnTime(DaySet(r))') <= MaxUsd[p][r]
  BY DEF UsdCap, Usd
<1>2. PICK p \in Policy : Usd(OnTime(DaySet(r))) <= MaxUsd[p][r]
  BY DEF UsdCap
<1>3. OnTime(DaySet(r))' \subseteq OnTime(DaySet(r)) /\ OnTime(DaySet(r)) \in SUBSET Call
  BY ShrinkDay DEF OnTime, DaySet
<1>4. Usd(OnTime(DaySet(r))') <= MaxUsd[p][r]
  BY <1>2, <1>3, UsdStays, ParametersOf
<1>5. QED
  BY <1>4

LEMMA AdmitUsd ==
  ASSUME TypeOK, UsdCap, NEW c \in Call, Admits(c)
  PROVE  UsdCap'
<1>1. SUFFICES ASSUME NEW r \in Rule
               PROVE  \E p \in Policy : Usd(OnTime(DaySet(r))') <= MaxUsd[p][r]
  BY DEF UsdCap, Usd
<1>2. captured[c] \in Policy
  BY DEF TypeOK
<1>3. DaySet(r) \in SUBSET Call /\ OnTime(DaySet(r)) \in SUBSET DaySet(r)
  BY DEF OnTime, DaySet
<1>4. CASE RuleOf[captured[c]][c] # r
  <2>1. PICK p \in Policy : Usd(OnTime(DaySet(r))) <= MaxUsd[p][r]
    BY DEF UsdCap
  <2>2. OnTime(DaySet(r))' \subseteq OnTime(DaySet(r))
    BY <1>4, AdmitDay
  <2>3. Usd(OnTime(DaySet(r))') <= MaxUsd[p][r]
    BY <1>3, <2>1, <2>2, UsdStays, ParametersOf
  <2>4. QED
    BY <2>3
<1>5. CASE RuleOf[captured[c]][c] = r
  <2>1. OnTime(DaySet(r))' \subseteq DaySet(r) \cup {c}
    BY AdmitDay DEF OnTime
  <2>2. Usd(DaySet(r)) + Amount[c] <= MaxUsd[captured[c]][r]
    BY <1>5 DEF Admits, WithinLimits
  <2>3. Usd(OnTime(DaySet(r))') <= MaxUsd[captured[c]][r]
    BY <1>2, <1>3, <2>1, <2>2, UsdRoom, ParametersOf
  <2>4. QED
    BY <1>2, <2>3
<1>6. QED
  BY <1>4, <1>5

\* per_day_usd holds for every number of concurrent proposals, approvals,
\* reloads and restarts: the sum that reserveAfterLimitCheck compares is the
\* sum of what it has let through before, late commits left aside.
THEOREM UsdIsCapped == Spec => []UsdCap
<1>1. Init => UsdCap
  BY InitUsd
<1>2. IInv /\ IInv' /\ UsdCap /\ [Next]_vars => UsdCap'
  <2>1. SUFFICES ASSUME IInv, IInv', UsdCap, [Next]_vars PROVE UsdCap'
    OBVIOUS
  <2>2. TypeOK /\ TypeOK'
    BY <2>1 DEF IInv
  <2>3. CASE Next
    BY <2>1, <2>2, <2>3, RowSteps, ShrinkUsd, AdmitUsd
  <2>4. CASE UNCHANGED vars
    <3>1. ShrinkStep
      BY <2>2, <2>4, BoundAssumption DEF vars, ShrinkStep, Shrinks, TypeOK
    <3>2. QED
      BY <2>1, <2>2, <3>1, ShrinkUsd
  <2>5. QED
    BY <2>1, <2>3, <2>4
<1>3. QED
  BY <1>1, <1>2, Inductive, PTL DEF Spec

\* The reservations of one purchase, which has no window, shrink alike.
LEMMA ShrinkPurchase ==
  ASSUME TypeOK, TypeOK', ShrinkStep, NEW q
  PROVE  OnTime(PurchaseSet(q))' \subseteq OnTime(PurchaseSet(q))
<1>1. SUFFICES ASSUME NEW d \in Call, d \in OnTime(PurchaseSet(q))'
               PROVE  d \in OnTime(PurchaseSet(q))
  BY DEF OnTime, PurchaseSet
<1>2. /\ Active(d)' /\ PurchaseOf[d] = q
      /\ ~(res'[d].status = "committed" /\ res'[d].late)
      /\ now' >= now /\ Shrinks(d)
  BY <1>1 DEF OnTime, PurchaseSet, ShrinkStep
<1>3. now \in Nat /\ now' \in Nat /\ res[d].expires \in Nat
  BY BoundAssumption DEF TypeOK
<1>4. CASE res'[d].status \in {"none", "released"}
  BY <1>2, <1>4 DEF Active
<1>5. CASE res'[d] = res[d] /\ captured'[d] = captured[d]
  <2>1. Active(d) /\ ~(res[d].status = "committed" /\ res[d].late)
    BY <1>2, <1>3, <1>5 DEF Active
  <2>2. QED
    BY <1>2, <2>1 DEF OnTime, PurchaseSet
<1>6. CASE CanCommit(d) /\ res'[d] = Committed(d) /\ captured'[d] = captured[d]
  <2>1. Committed(d).late = (res[d].expires < now)
    <3>1. res[d] \in RowType /\ (res[d].expires < now) \in BOOLEAN
      BY DEF TypeOK, RowType
    <3>2. QED
      BY <3>1, LateField, Zenon DEF Committed
  <2>2. ~(res[d].expires < now)
    <3>1. Committed(d).status = "committed"
      BY DEF TypeOK, Committed
    <3>2. QED
      BY <1>2, <1>6, <2>1, <3>1
  <2>3. res[d].status = "pending" /\ res[d].expires >= now
    BY <1>3, <1>6, <2>2 DEF CanCommit
  <2>4. QED
    BY <1>2, <2>3 DEF OnTime, PurchaseSet, Active
<1>7. QED
  BY <1>2, <1>4, <1>5, <1>6 DEF Shrinks

LEMMA AdmitPurchase ==
  ASSUME TypeOK, NEW c \in Call, Admits(c), NEW q
  PROVE  OnTime(PurchaseSet(q))' \subseteq
           OnTime(PurchaseSet(q)) \cup {d \in {c} : PurchaseOf[c] = q}
<1>1. \A d \in Call \ {c} : res'[d] = res[d]
  BY DEF TypeOK, Admits, Reserve
<1>2. QED
  BY <1>1 DEF Admits, OnTime, PurchaseSet, Active

\* What PurchaseCap says of one purchase.
Within(q) == \E p \in Policy, r \in Rule : Usd(OnTime(PurchaseSet(q))) <= MaxPurchase[p][r]

LEMMA InitPurchase == Init => PurchaseCap
<1> SUFFICES ASSUME Init, NEW c \in Call PROVE Within(PurchaseOf[c])
  BY DEF PurchaseCap, Within
<1>1. OnTime(PurchaseSet(PurchaseOf[c])) = {}
  BY DEF Init, OnTime, PurchaseSet, Active, NoRow
<1>2. FirstPolicy \in Policy /\ RuleOf[FirstPolicy][c] \in Rule
  BY PolicyAssumption, ParametersOf
<1>3. 0 <= MaxPurchase[FirstPolicy][RuleOf[FirstPolicy][c]]
  BY <1>2, ParametersOf
<1>4. QED
  BY <1>1, <1>2, <1>3, UsdOfNothing DEF Within

LEMMA StepPurchase ==
  ASSUME TypeOK, TypeOK', PurchaseCap, ShrinkStep \/ \E c \in Call : Admits(c)
  PROVE  PurchaseCap'
<1>1. SUFFICES ASSUME NEW e \in Call PROVE Within(PurchaseOf[e])'
  BY DEF PurchaseCap, Within
<1> DEFINE q == PurchaseOf[e]
<1>2. PICK p \in Policy, r \in Rule : Usd(OnTime(PurchaseSet(q))) <= MaxPurchase[p][r]
  BY DEF PurchaseCap
<1>3. PurchaseSet(q) \in SUBSET Call /\ OnTime(PurchaseSet(q)) \in SUBSET Call
  BY DEF OnTime, PurchaseSet
<1>4. ASSUME OnTime(PurchaseSet(q))' \subseteq OnTime(PurchaseSet(q)) PROVE Within(q)'
  <2>1. Usd(OnTime(PurchaseSet(q))') <= MaxPurchase[p][r]
    BY <1>2, <1>3, <1>4, UsdStays, ParametersOf
  <2>2. QED
    BY <2>1 DEF Within, Usd
<1>5. CASE ShrinkStep
  BY <1>4, <1>5, ShrinkPurchase
<1>6. ASSUME NEW c \in Call, Admits(c) PROVE Within(q)'
  <2>1. CASE PurchaseOf[c] # q
    BY <1>4, <1>6, <2>1, AdmitPurchase
  <2>2. CASE PurchaseOf[c] = q
    <3> DEFINE s == RuleOf[captured[c]][c]
    <3>1. captured[c] \in Policy /\ s \in Rule
      BY ParametersOf DEF TypeOK
    <3>2. OnTime(PurchaseSet(q))' \subseteq PurchaseSet(q) \cup {c}
      BY <1>6, AdmitPurchase DEF OnTime
    <3>3. Usd(PurchaseSet(q)) + Amount[c] <= MaxPurchase[captured[c]][s]
      BY <1>6, <2>2 DEF Admits, WithinLimits
    <3>4. Usd(OnTime(PurchaseSet(q))') <= MaxPurchase[captured[c]][s]
      BY <1>3, <3>1, <3>2, <3>3, UsdRoom, ParametersOf
    <3>5. QED
      BY <3>1, <3>4 DEF Within, Usd
  <2>3. QED
    BY <2>1, <2>2
<1>7. QED
  BY <1>5, <1>6

\* per_purchase_usd: however the intents of one purchase are proposed, approved
\* and retried, what they reserve and commit together stays within the cap of
\* some policy that was asked.
THEOREM PurchaseIsCapped == Spec => []PurchaseCap
<1>1. Init => PurchaseCap
  BY InitPurchase
<1>2. IInv /\ IInv' /\ PurchaseCap /\ [Next]_vars => PurchaseCap'
  <2>1. SUFFICES ASSUME IInv, IInv', PurchaseCap, [Next]_vars PROVE PurchaseCap'
    OBVIOUS
  <2>2. TypeOK /\ TypeOK'
    BY <2>1 DEF IInv
  <2>3. CASE Next
    BY <2>1, <2>2, <2>3, RowSteps, StepPurchase
  <2>4. CASE UNCHANGED vars
    <3>1. ShrinkStep
      BY <2>2, <2>4, BoundAssumption DEF vars, ShrinkStep, Shrinks, TypeOK
    <3>2. QED
      BY <2>1, <2>2, <3>1, StepPurchase
  <2>5. QED
    BY <2>1, <2>3, <2>4
<1>3. QED
  BY <1>1, <1>2, Inductive, PTL DEF Spec

-----------------------------------------------------------------------------
(* What the idempotency map tells a retry.                                 *)

\* What an envelope says of the intent c it names.  A denied intent never gets
\* a reservation later, because its call is over.
Told(e, c) ==
  /\ e = "allow" => cred[c] # "none" /\ res[c].status = "committed"
  /\ e = "pending_approval" => prompt[c] # "none"
  /\ e = "deny" => res[c].status = "none" /\ pc[c] = "done"

Decision == {"allow", "deny", "pending_approval"}

Retellable == \A k \in Key, c \in Call, e \in Decision : idem[k] = Envelope(e, c) => Told(e, c)

\* Nothing an envelope tells of an intent is undone while the process lives.
LEMMA ToldStays ==
  ASSUME IInv, Next, NEW d \in Call, NEW e, Told(e, d), restarts' = restarts
  PROVE  Told(e, d)'
<1>1. TypeOK /\ Shapes
  BY DEF IInv
<1>2. res[d].status = "committed" => res'[d].status = "committed"
  BY StepKeeps
<1>3. CASE Tick
  BY <1>3 DEF Tick, memory, Told
<1>4. ASSUME NEW c \in Call, Continue(c) PROVE Told(e, d)'
  <2>1. PICK audited \in BOOLEAN :
          \/ FactsFail(c) \/ DecideDeny(c, audited)
          \/ DecideAllow(c, audited) \/ DecideApproval(c, audited)
          \/ MintReturns(c, audited) \/ MintFails(c)
          \/ PromptReturns(c, audited) \/ PromptFails(c)
    BY <1>4 DEF Continue
  <2>2. pc[c] \in Waiting
    BY <2>1 DEF FactsFail, DecideDeny, DecideAllow, DecideApproval, MintReturns, MintFails,
                PromptReturns, PromptFails, Waiting
  <2>3. cred'[d] = cred[d] \/ cred'[d] = "open"
    BY <1>1, <2>1 DEF TypeOK, FactsFail, DecideDeny, DecideAllow, DecideApproval, MintReturns,
                MintFails, PromptReturns, PromptFails
  <2>4. prompt'[d] = prompt[d] \/ prompt'[d] = "pending_approval"
    BY <1>1, <2>1 DEF TypeOK, FactsFail, DecideDeny, DecideAllow, DecideApproval, MintReturns,
                MintFails, PromptReturns, PromptFails
  <2>5. d # c => pc'[d] = pc[d] /\ res'[d] = res[d]
    BY <1>1, <2>1 DEF TypeOK, FactsFail, DecideDeny, Deny, DecideAllow, DecideApproval,
                RetainThen, Reserve, MintReturns, MintFails, PromptReturns, PromptFails
  <2>6. e = "deny" => d # c
    BY <2>2 DEF Told, Waiting
  <2>7. QED
    BY <1>2, <2>3, <2>4, <2>5, <2>6 DEF Told
<1>5. ASSUME NEW c \in Call, FinishApproval(c) PROVE Told(e, d)'
  <2>1. UNCHANGED pc
    BY <1>5 DEF FinishApproval, ApproveReturns, ApproveFails
  <2>2. cred'[d] = cred[d] \/ cred'[d] = "open"
    BY <1>1, <1>5 DEF TypeOK, FinishApproval, ApproveReturns, ApproveFails
  <2>3. prompt'[d] = prompt[d] \/ prompt'[d] = "approved"
    BY <1>1, <1>5 DEF TypeOK, FinishApproval, ApproveReturns, ApproveFails
  <2>4. res[d].status = "none" => res'[d] = res[d]
    BY <1>1, <1>5 DEF TypeOK, FinishApproval, ApproveReturns, ApproveFails, CanCommit
  <2>5. QED
    BY <1>2, <2>1, <2>2, <2>3, <2>4 DEF Told
<1>6. ASSUME NEW c \in Call, NEW state, NEW status, state # "none", Resolve(c, state, status)
      PROVE  Told(e, d)'
  <2>1. UNCHANGED <<pc, cred>> /\ LetGo(c)
    BY <1>6 DEF Resolve
  <2>2. prompt'[d] = prompt[d] \/ prompt'[d] # "none"
    BY <1>1, <1>6 DEF TypeOK, Resolve
  <2>3. res[d].status = "none" => res'[d].status = "none"
    <3>1. held[c] => res[c].status # "none"
      BY <1>1 DEF Shapes, Shape
    <3>2. QED
      BY <1>1, <2>1, <3>1 DEF TypeOK, LetGo
  <2>4. QED
    BY <1>2, <2>1, <2>2, <2>3 DEF Told
<1>7. ASSUME NEW c \in Call, Environment(c) PROVE Told(e, d)'
  <2>1. CASE Propose(c)
    BY <1>1, <2>1 DEF TypeOK, Propose, Told
  <2>2. CASE RailMints(c) \/ CallbackApprove(c)
    BY <2>2 DEF RailMints, CallbackApprove, memory, Told
  <2>3. CASE RevokeCredential(c) \/ AckSettlement(c)
    <3>1. UNCHANGED <<pc, res, prompt>> /\ CloseCredential(c)
      BY <2>3 DEF RevokeCredential, AckSettlement
    <3>2. cred'[d] = cred[d] \/ cred'[d] = "closed"
      BY <1>1, <3>1 DEF TypeOK, CloseCredential
    <3>3. QED
      BY <3>1, <3>2 DEF Told
  <2>4. CASE \E audited \in BOOLEAN : CancelIntent(c, audited)
    BY <1>6, <2>4 DEF CancelIntent
  <2>5. CASE ExpirePrompt(c)
    BY <1>6, <2>5 DEF ExpirePrompt
  <2>6. CASE CallbackDeny(c) \/ \E sameHash \in BOOLEAN : CallbackStale(c, sameHash)
    BY <1>6, <2>6 DEF CallbackDeny, CallbackStale
  <2>7. QED
    BY <1>7, <2>1, <2>2, <2>3, <2>4, <2>5, <2>6 DEF Environment
<1>8. ASSUME NEW p \in Policy, ReloadPolicy(p) PROVE Told(e, d)'
  BY <1>8 DEF ReloadPolicy, memory, Told
<1>9. ASSUME NEW p \in Policy, Restart(p) PROVE FALSE
  BY <1>1, <1>9, BoundAssumption DEF TypeOK, Restart
<1>10. QED
  BY <1>3, <1>4, <1>5, <1>7, <1>8, <1>9 DEF Next

\* An envelope is cached in the step that makes what it says true.
LEMMA IdemSteps ==
  ASSUME IInv, Next
  PROVE  \/ UNCHANGED <<idem, restarts>>
         \/ \A k \in Key : idem'[k] = NoEnvelope
         \/ /\ UNCHANGED restarts
            /\ \E c \in Call, e \in Decision :
                 /\ idem' = [idem EXCEPT ![KeyOf[c]] = Envelope(e, c)]
                 /\ Told(e, c)'
<1>1. TypeOK /\ Shapes
  BY DEF IInv
<1>2. {"allow", "deny", "pending_approval"} = Decision
  BY DEF Decision
<1>3. CASE Tick
  BY <1>3 DEF Tick, memory
<1>4. ASSUME NEW c \in Call, Continue(c)
      PROVE  \/ UNCHANGED <<idem, restarts>>
             \/ /\ UNCHANGED restarts
                /\ \E e \in Decision :
                     /\ idem' = [idem EXCEPT ![KeyOf[c]] = Envelope(e, c)]
                     /\ Told(e, c)'
  <2>1. PICK audited \in BOOLEAN :
          \/ FactsFail(c) \/ DecideDeny(c, audited)
          \/ DecideAllow(c, audited) \/ DecideApproval(c, audited)
          \/ MintReturns(c, audited) \/ MintFails(c)
          \/ PromptReturns(c, audited) \/ PromptFails(c)
    BY <1>4 DEF Continue
  <2>2. UNCHANGED restarts
    BY <2>1 DEF FactsFail, DecideDeny, DecideAllow, DecideApproval, MintReturns, MintFails,
                PromptReturns, PromptFails
  <2>3. ASSUME NEW b \in BOOLEAN, pc[c] = "facts", Deny(c, b), UNCHANGED res
        PROVE  \/ UNCHANGED idem
               \/ idem' = [idem EXCEPT ![KeyOf[c]] = Envelope("deny", c)] /\ Told("deny", c)'
    <3>1. res[c].status = "none"
      BY <1>1, <2>3 DEF Shapes, Shape
    <3>2. CASE b
      <4>1. pc'[c] = "done"
        BY <1>1, <2>3, <3>2 DEF TypeOK, Deny
      <4>2. QED
        BY <2>3, <3>1, <3>2, <4>1 DEF Deny, Told
    <3>3. CASE ~b
      BY <2>3, <3>3 DEF Deny
    <3>4. QED
      BY <3>2, <3>3
  <2>4. CASE FactsFail(c) \/ MintFails(c) \/ PromptFails(c)
    BY <2>4 DEF FactsFail, MintFails, PromptFails
  <2>5. CASE DecideDeny(c, audited)
    BY <1>2, <2>2, <2>3, <2>5 DEF DecideDeny
  <2>6. CASE DecideAllow(c, audited)
    BY <1>2, <2>2, <2>3, <2>6 DEF DecideAllow
  <2>7. CASE DecideApproval(c, audited)
    BY <1>2, <2>2, <2>3, <2>7 DEF DecideApproval
  <2>8. CASE MintReturns(c, audited)
    <3>1. CASE audited
      <4>1. /\ cred' = [cred EXCEPT ![c] = "open"]
            /\ res' = [res EXCEPT ![c] = Committed(c)]
            /\ idem' = [idem EXCEPT ![KeyOf[c]] = Envelope("allow", c)]
        BY <2>8, <3>1 DEF MintReturns
      <4>2. Committed(c).status = "committed"
        BY <1>1 DEF TypeOK, Committed
      <4>3. cred'[c] = "open" /\ res'[c].status = "committed"
        BY <1>1, <4>1, <4>2 DEF TypeOK
      <4>4. QED
        BY <1>2, <2>2, <4>1, <4>3 DEF Told
    <3>2. CASE ~audited
      BY <2>2, <2>8, <3>2 DEF MintReturns
    <3>3. QED
      BY <3>1, <3>2
  <2>9. CASE PromptReturns(c, audited)
    <3>1. prompt'[c] = "pending_approval"
      BY <1>1, <2>9 DEF TypeOK, PromptReturns
    <3>2. QED
      BY <1>2, <2>2, <2>9, <3>1 DEF PromptReturns, Told
  <2>10. QED
    BY <2>1, <2>2, <2>4, <2>5, <2>6, <2>7, <2>8, <2>9
<1>5. ASSUME NEW c \in Call, FinishApproval(c) \/ Environment(c)
      PROVE  UNCHANGED <<idem, restarts>>
  BY <1>5 DEF FinishApproval, ApproveReturns, ApproveFails, Environment, Propose, RailMints,
       CancelIntent, ExpirePrompt, CallbackStale, CallbackDeny, CallbackApprove,
       RevokeCredential, AckSettlement, Resolve, memory
<1>6. ASSUME NEW p \in Policy, ReloadPolicy(p) \/ Restart(p)
      PROVE  UNCHANGED <<idem, restarts>> \/ \A k \in Key : idem'[k] = NoEnvelope
  BY <1>6 DEF ReloadPolicy, Restart, memory
<1>7. QED
  BY <1>3, <1>4, <1>5, <1>6 DEF Next

LEMMA StepRetells ==
  ASSUME IInv, Retellable, Next
  PROVE  Retellable'
<1>1. SUFFICES ASSUME NEW k \in Key, NEW d \in Call, NEW e \in Decision,
                      idem'[k] = Envelope(e, d)
               PROVE  Told(e, d)'
  BY DEF Retellable
<1>2. TypeOK
  BY DEF IInv
<1>3. ASSUME idem'[k] = idem[k], UNCHANGED restarts PROVE Told(e, d)'
  <2>1. Told(e, d)
    BY <1>1, <1>3 DEF Retellable
  <2>2. QED
    BY <1>3, <2>1, ToldStays
<1>4. ASSUME UNCHANGED restarts, NEW c \in Call, NEW f \in Decision,
             idem' = [idem EXCEPT ![KeyOf[c]] = Envelope(f, c)], Told(f, c)'
      PROVE  Told(e, d)'
  <2>1. CASE k = KeyOf[c]
    <3>1. Envelope(e, d) = Envelope(f, c)
      BY <1>1, <1>2, <1>4, <2>1 DEF TypeOK
    <3>2. e = f /\ d = c
      BY <3>1 DEF Envelope
    <3>3. QED
      BY <1>4, <3>2
  <2>2. CASE k # KeyOf[c]
    <3>1. idem'[k] = idem[k]
      BY <1>2, <1>4, <2>2 DEF TypeOK
    <3>2. QED
      BY <1>3, <1>4, <3>1
  <2>3. QED
    BY <2>1, <2>2
<1>5. Envelope(e, d) # NoEnvelope
  BY DEF Envelope, NoEnvelope, Decision
<1>6. QED
  BY <1>1, <1>3, <1>4, <1>5, IdemSteps

\* A cached envelope tells a retry the truth about the intent it names, also
\* when a cancellation, an expiry, another approval or an audit failure came
\* between the step that cached it and the retry.
THEOREM EnvelopesAreTrue == Spec => []EnvelopeTrue
<1>1. Init => Retellable
  BY CallAssumption DEF Init, Retellable, Envelope, NoEnvelope, Decision
<1>2. IInv /\ Retellable /\ [Next]_vars => Retellable'
  <2>1. IInv /\ Retellable /\ Next => Retellable'
    BY StepRetells
  <2>2. Retellable /\ UNCHANGED vars => Retellable'
    BY DEF vars, Retellable, Told
  <2>3. QED
    BY <2>1, <2>2
<1>3. IInv /\ Retellable => EnvelopeTrue
  <2>1. SUFFICES ASSUME IInv, Retellable, NEW k \in Key, idem[k] # NoEnvelope
                 PROVE  Told(idem[k].decision, idem[k].intent)
    BY DEF EnvelopeTrue, Told, NoEnvelope
  <2>2. idem[k] \in [decision : Decision, intent : Call]
    BY <2>1 DEF IInv, TypeOK, Envelopes, Decision
  <2>3. /\ idem[k].decision \in Decision /\ idem[k].intent \in Call
        /\ idem[k] = Envelope(idem[k].decision, idem[k].intent)
    BY <2>2 DEF Envelope
  <2>4. QED
    BY <2>1, <2>3 DEF Retellable
<1>4. QED
  BY <1>1, <1>2, <1>3, Inductive, PTL DEF Spec

(***************************************************************************)
(* The local socket                                                        *)
(***************************************************************************)
CONSTANTS Conn, Script(_), Peer(_), MaxRotations
VARIABLES listening, token, private, link, arrived, turn, running, written

Ipc == INSTANCE PolicyIpc

Answer == {"parse_error", "invalid_request", "internal_error", "unauthenticated",
           "method_not_found", "result", "none"}

\* Where a connection's chain is: a line is taken when it has wholly come, one at
\* a time, and while the connection is open every line taken before the running
\* one has its answer.  Once it is closed the answers stay behind.
Counted(c) ==
  /\ arrived[c] \in Nat /\ turn[c] \in Nat /\ 2 * turn[c] <= arrived[c]
  /\ running[c] \subseteq {turn[c]}
  /\ link[c] = "new" => arrived[c] = 0 /\ turn[c] = 0 /\ running[c] = {}

Ordered(c) ==
  /\ written[c] \in Seq([line : Nat, answer : Answer])
  /\ \A i \in 1..Len(written[c]) : written[c][i].line = i

Answered(c) ==
  /\ Len(written[c]) \in Nat /\ Len(written[c]) <= turn[c]
  /\ link[c] = "open" => Len(written[c]) = IF running[c] = {} THEN turn[c] ELSE turn[c] - 1

Chained(c) == Counted(c) /\ Ordered(c) /\ Answered(c)

Typed ==
  /\ DOMAIN link = Conn /\ DOMAIN arrived = Conn /\ DOMAIN turn = Conn
  /\ DOMAIN running = Conn /\ DOMAIN written = Conn

IpcInv == Typed /\ \A c \in Conn : Ipc!checkPeerCredentials(c) => Chained(c)

LEMMA IpcInitKeeps == Ipc!Init => IpcInv
  BY DEF Ipc!Init, IpcInv, Typed, Chained, Counted, Ordered, Answered

\* An answer to the line due keeps the answers in order.
LEMMA AppendKeepsOrder ==
  ASSUME NEW s \in Seq([line : Nat, answer : Answer]), NEW i \in Nat, NEW a \in Answer,
         \A j \in 1..Len(s) : s[j].line = j, i = Len(s) + 1
  PROVE  LET t == Append(s, [line |-> i, answer |-> a])
         IN /\ t \in Seq([line : Nat, answer : Answer]) /\ Len(t) = i
            /\ \A j \in 1..Len(t) : t[j].line = j
<1> DEFINE r == [line |-> i, answer |-> a]
           t == Append(s, r)
<1>1. r \in [line : Nat, answer : Answer] /\ r.line = i
  OBVIOUS
<1>2. t \in Seq([line : Nat, answer : Answer]) /\ Len(t) = i /\ t[i] = r
      /\ \A j \in 1..Len(s) : t[j] = s[j]
  <2> HIDE DEF r
  <2> QED BY <1>1
<1>3. \A j \in 1..Len(t) : t[j].line = j
  <2> HIDE DEF r, t
  <2> QED BY <1>1, <1>2
<1> QED BY <1>2, <1>3

LEMMA QueuedHasCome ==
  ASSUME NEW a \in Nat, NEW t \in Nat, (a \div 2) - t > 0
  PROVE  2 * (t + 1) <= a
  OBVIOUS

\* A step of one connection leaves the others as they were.
LEMMA OthersKeep ==
  ASSUME NEW c, Chained(c),
         link'[c] = link[c], arrived'[c] = arrived[c], turn'[c] = turn[c],
         running'[c] = running[c], written'[c] = written[c]
  PROVE  Chained(c)'
  BY DEF Chained, Counted, Ordered, Answered

\* The answer to the line due, written or lost with its connection.
LEMMA WriteKeeps ==
  ASSUME Typed, NEW c \in Conn, Ordered(c), NEW i \in Nat, NEW a \in Answer, Ipc!Write(c, i, a),
         link[c] = "open" => i = Len(written[c]) + 1
  PROVE  /\ Ordered(c)'
         /\ link[c] = "open" => Len(written'[c]) = i
         /\ link[c] # "open" => written'[c] = written[c]
<1>1. CASE link[c] = "open"
  <2>1. written'[c] = Append(written[c], [line |-> i, answer |-> a])
    BY <1>1 DEF Ipc!Write, Typed, Ordered
  <2> QED BY <1>1, <2>1, AppendKeepsOrder DEF Ordered
<1>2. CASE link[c] # "open"
  BY <1>2 DEF Ipc!Write, Ordered
<1> QED BY <1>1, <1>2

LEMMA ConnectionKeeps ==
  ASSUME Ipc!IpcAssumption, IpcInv, NEW c \in Conn,
         \/ Ipc!onConnection(c) \/ Ipc!onData(c) \/ Ipc!handleLine(c) \/ Ipc!hangUp(c)
         \/ \E i \in running[c] : Ipc!handlerReturns(c, i)
  PROVE  IpcInv'
<1>1. Typed
  BY DEF IpcInv
<1>2. Typed'
  BY <1>1 DEF Typed, Ipc!onConnection, Ipc!onData, Ipc!handleLine, Ipc!hangUp,
                 Ipc!handlerReturns, Ipc!Takes, Ipc!Write
<1>3. ASSUME NEW d \in Conn \ {c}, Ipc!checkPeerCredentials(d)
      PROVE  Chained(d)'
  <2>1. /\ link'[d] = link[d] /\ arrived'[d] = arrived[d] /\ turn'[d] = turn[d]
        /\ running'[d] = running[d] /\ written'[d] = written[d]
    BY <1>1 DEF Typed, Ipc!onConnection, Ipc!onData, Ipc!handleLine, Ipc!hangUp,
                 Ipc!handlerReturns, Ipc!Takes, Ipc!Write
  <2> QED BY <1>3, <2>1, OthersKeep DEF IpcInv
<1>4. ASSUME Ipc!checkPeerCredentials(c) PROVE Chained(c)'
  <2>0. Counted(c) /\ Ordered(c) /\ Answered(c)
    BY <1>4 DEF IpcInv, Chained
  <2>1. CASE Ipc!onConnection(c)
    <3>1. link[c] = "new" /\ link'[c] = "open" /\ written'[c] = written[c]
          /\ UNCHANGED <<arrived, turn, running>>
      BY <1>1, <1>4, <2>1 DEF Typed, Ipc!onConnection
    <3>2. Counted(c)' /\ Ordered(c)'
      BY <2>0, <3>1 DEF Counted, Ordered
    <3>3. Answered(c)'
      BY <2>0, <3>1 DEF Counted, Answered
    <3> QED BY <3>2, <3>3 DEF Chained
  <2>2. CASE Ipc!onData(c)
    <3>1. Len(Script(c)) \in Nat
      BY DEF Ipc!IpcAssumption
    <3>2. PICK n \in 1..(2 * Len(Script(c)) - arrived[c]) : arrived'[c] = arrived[c] + n
      BY <1>1, <2>2 DEF Typed, Ipc!onData
    <3>3. link[c] = "open" /\ UNCHANGED <<link, turn, running, written>>
      BY <2>2 DEF Ipc!onData
    <3>4. Counted(c)'
      BY <2>0, <3>1, <3>2, <3>3 DEF Counted
    <3>5. Ordered(c)' /\ Answered(c)'
      BY <2>0, <3>3 DEF Ordered, Answered
    <3> QED BY <3>4, <3>5 DEF Chained
  <2>3. CASE Ipc!handleLine(c)
    <3> DEFINE i == turn[c] + 1
    <3>1. /\ turn'[c] = i /\ i \in Nat /\ 2 * i <= arrived[c] /\ running[c] = {}
          /\ UNCHANGED <<link, arrived>>
      BY <1>1, <2>0, <2>3, QueuedHasCome DEF Typed, Counted, Ipc!handleLine, Ipc!Queued, Ipc!Takes
    <3>2. link[c] # "new"
      <4>1. turn[c] \in Nat /\ arrived[c] \in Nat /\ (link[c] = "new" => arrived[c] = 0)
        BY <2>0 DEF Counted
      <4>2. arrived[c] > 0
        BY <3>1, <4>1
      <4> QED BY <4>1, <4>2
    <3>3. CASE Ipc!Refusal(Script(c)[i]) # "none"
      <4>1. Ipc!Refusal(Script(c)[i]) \in Answer
        BY DEF Ipc!Refusal, Answer
      <4>2. Ipc!Write(c, i, Ipc!Refusal(Script(c)[i])) /\ running' = running
        BY <2>3, <3>3 DEF Ipc!handleLine, Ipc!Takes
      <4>3. link[c] = "open" => i = Len(written[c]) + 1
        BY <2>0, <3>1 DEF Counted, Answered
      <4>4. /\ Ordered(c)'
            /\ link[c] = "open" => Len(written'[c]) = i
            /\ link[c] # "open" => written'[c] = written[c]
        BY <1>1, <2>0, <3>1, <4>1, <4>2, <4>3, WriteKeeps
      <4>5. Counted(c)'
        BY <2>0, <3>1, <3>2, <4>2 DEF Counted
      <4>6. Answered(c)'
        BY <2>0, <3>1, <4>2, <4>4 DEF Counted, Answered
      <4> QED BY <4>4, <4>5, <4>6 DEF Chained
    <3>4. CASE Ipc!Refusal(Script(c)[i]) = "none"
      <4>1. running'[c] = {i} /\ written' = written
        BY <1>1, <2>3, <3>1, <3>4 DEF Typed, Ipc!handleLine, Ipc!Takes
      <4>2. Counted(c)'
        BY <2>0, <3>1, <3>2, <4>1 DEF Counted
      <4>3. Ordered(c)'
        BY <2>0, <4>1 DEF Ordered
      <4>4. Answered(c)'
        <5>1. Len(written[c]) \in Nat /\ Len(written[c]) <= turn[c] /\ turn[c] \in Nat
              /\ (link[c] = "open" => Len(written[c]) = turn[c])
          BY <2>0, <3>1 DEF Counted, Answered
        <5>2. running'[c] # {} /\ turn'[c] = turn[c] + 1 /\ UNCHANGED <<link, written>>
          BY <3>1, <4>1
        <5>3. Len(written[c]) <= turn'[c] /\ (link[c] = "open" => Len(written[c]) = turn'[c] - 1)
          BY <5>1, <5>2
        <5> QED BY <5>1, <5>2, <5>3 DEF Answered
      <4> QED BY <4>2, <4>3, <4>4 DEF Chained
    <3> QED BY <3>3, <3>4
  <2>4. CASE Ipc!hangUp(c)
    <3>1. link[c] = "open" /\ link'[c] = "closed" /\ UNCHANGED <<arrived, turn, running, written>>
      BY <1>1, <2>4 DEF Typed, Ipc!hangUp
    <3> QED BY <2>0, <3>1 DEF Chained, Counted, Ordered, Answered
  <2>5. ASSUME NEW i \in running[c], Ipc!handlerReturns(c, i) PROVE Chained(c)'
    <3>1. PICK a \in {"result", "internal_error"} : Ipc!Write(c, i, a)
      BY <2>5 DEF Ipc!handlerReturns
    <3>2. /\ i = turn[c] /\ i \in Nat /\ running[c] = {i}
          /\ a \in Answer /\ UNCHANGED <<link, arrived, turn>>
      BY <2>0, <2>5, <3>1 DEF Counted, Ipc!handlerReturns, Answer
    <3>3. running'[c] = {}
      BY <1>1, <2>5, <3>2 DEF Typed, Ipc!handlerReturns
    <3>4. link[c] = "open" => i = Len(written[c]) + 1
      <4>1. running[c] # {}
        BY <2>5
      <4>2. link[c] = "open" => Len(written[c]) = turn[c] - 1
        BY <2>0, <4>1 DEF Answered
      <4>3. turn[c] \in Nat
        BY <2>0 DEF Counted
      <4> QED BY <3>2, <4>2, <4>3
    <3>5. /\ Ordered(c)'
          /\ link[c] = "open" => Len(written'[c]) = i
          /\ link[c] # "open" => written'[c] = written[c]
      BY <1>1, <2>0, <3>1, <3>2, <3>4, WriteKeeps
    <3>6. Counted(c)' /\ Answered(c)'
      BY <2>0, <2>5, <3>2, <3>3, <3>5 DEF Counted, Answered
    <3> QED BY <3>5, <3>6 DEF Chained
  <2> QED BY <2>1, <2>2, <2>3, <2>4, <2>5
<1>5. \A d \in Conn : Ipc!checkPeerCredentials(d)' <=> Ipc!checkPeerCredentials(d)
  BY DEF Ipc!checkPeerCredentials
<1> QED BY <1>2, <1>3, <1>4, <1>5 DEF IpcInv

LEMMA IpcStepKeeps == ASSUME Ipc!IpcAssumption PROVE IpcInv /\ [Ipc!Next]_(Ipc!vars) => IpcInv'
<1> SUFFICES ASSUME IpcInv, [Ipc!Next]_(Ipc!vars) PROVE IpcInv'
  OBVIOUS
<1>1. ASSUME Ipc!newToken \/ Ipc!spoilToken \/ Ipc!stop \/ UNCHANGED Ipc!vars PROVE IpcInv'
  <2>1. ASSUME NEW c \in Conn, Chained(c) PROVE Chained(c)'
    BY <1>1, <2>1 DEF Chained, Counted, Ordered, Answered, Ipc!newToken, Ipc!spoilToken, Ipc!stop, Ipc!vars
  <2> QED BY <1>1, <2>1 DEF IpcInv, Typed, Ipc!checkPeerCredentials, Ipc!newToken,
                             Ipc!spoilToken, Ipc!stop, Ipc!vars
<1>2. ASSUME NEW c \in Conn,
             \/ Ipc!onConnection(c) \/ Ipc!onData(c) \/ Ipc!handleLine(c) \/ Ipc!hangUp(c)
             \/ \E i \in running[c] : Ipc!handlerReturns(c, i)
      PROVE  IpcInv'
  BY <1>2, ConnectionKeeps
<1> QED BY <1>1, <1>2 DEF Ipc!Next

\* onData's promise chain (policy/src/ipc/server.ts): the answers a caller reads
\* are those of its own lines, in the order it sent them, with none left out.
THEOREM AnswersInOrder == ASSUME Ipc!IpcAssumption PROVE Ipc!Spec => []Ipc!AnsweredInOrder
<1>1. IpcInv => Ipc!AnsweredInOrder
  <2> SUFFICES ASSUME IpcInv, NEW c \in Conn, Ipc!checkPeerCredentials(c)
               PROVE  /\ \A i \in DOMAIN written[c] : written[c][i].line = i
                      /\ 2 * Len(written[c]) <= arrived[c]
    BY DEF Ipc!AnsweredInOrder
  <2>1. Chained(c)
    BY DEF IpcInv
  <2> QED BY <2>1 DEF Chained, Counted, Ordered, Answered
<1> QED BY <1>1, IpcInitKeeps, IpcStepKeeps, PTL DEF Ipc!Spec

(***************************************************************************)
(* The webhook                                                             *)
(***************************************************************************)
CONSTANTS Prompt, PromptTtl, MaxPromptTime, MaxPolicies
VARIABLES time, policyNow, post, asked, status, told

Hook == INSTANCE ApprovalWebhook
          WITH Ttl <- PromptTtl, MaxTime <- MaxPromptTime, current <- policyNow, prompt <- asked

Ended == {"approved", "denied", "expired"}

\* What the end that was heard has to do with where the prompt is: the channel
\* has a status exactly for the prompts it stored, and nothing was heard of a
\* prompt that it does not know or that is pending.
HookKept(p) ==
  /\ status[p] \in {"none", "pending"} \cup Ended
  /\ (post[p] = "stored") <=> (status[p] # "none")
  /\ told[p] = {} \/ (status[p] \in Ended /\ told[p] = {status[p]})

HookInv ==
  /\ post \in [Prompt -> {"none", "posted", "stored", "failed"}]
  /\ DOMAIN status = Prompt /\ DOMAIN told = Prompt
  /\ status = [p \in Prompt |-> status[p]] /\ told = [p \in Prompt |-> told[p]]
  /\ \A p \in Prompt : HookKept(p)

\* Nothing is stored or heard at first.
LEMMA HookInitKeeps == Hook!Init => HookInv
  BY DEF Hook!Init, HookInv, HookKept, Ended

\* What a prompt's end was stays it, poll by poll.
LEMMA PollKeeps ==
  ASSUME HookInv, NEW p \in Prompt, Hook!poll(p)
  PROVE  HookInv'
<1> USE DEF Ended
<1>1. Hook!statusFor(p) \in {"pending"} \cup Ended /\ (status[p] \in Ended => Hook!statusFor(p) = status[p])
  BY DEF HookInv, HookKept, Hook!poll, Hook!statusFor
<1>2. \A q \in Prompt : HookKept(q)'
  <2> SUFFICES ASSUME NEW q \in Prompt PROVE HookKept(q)'
    OBVIOUS
  <2>1. CASE q # p
    BY <2>1 DEF HookInv, HookKept, Hook!poll, Hook!Hears
  <2>2. CASE q = p /\ Hook!statusFor(p) = "pending"
    BY <1>1, <2>2 DEF HookInv, HookKept, Hook!poll
  <2>3. CASE q = p /\ Hook!statusFor(p) # "pending"
    <3>1. status'[p] = Hook!statusFor(p) /\ told'[p] = told[p] \cup {Hook!statusFor(p)}
         /\ post' = post /\ post[p] = "stored"
      BY <2>3 DEF HookInv, Hook!poll, Hook!Hears
    <3>2. told[p] \cup {Hook!statusFor(p)} = {Hook!statusFor(p)}
      BY <1>1 DEF HookInv, HookKept
    <3> QED BY <1>1, <2>3, <3>1, <3>2 DEF HookKept
  <2> QED BY <2>1, <2>2, <2>3
<1> QED BY <1>2 DEF HookInv, Hook!poll, Hook!Hears

\* A callback ends a prompt that has not ended, or hears again that it expired.
LEMMA CallbackKeeps ==
  ASSUME HookInv, NEW cb \in Hook!Callback, Hook!handleCallback(cb)
  PROVE  HookInv'
<1> USE DEF Ended
<1> DEFINE p == cb.prompt
<1>0. p \in Prompt /\ cb.decision \in {"approved", "denied"}
  BY DEF Hook!Callback
<1>1. status[p] \in {"pending", "expired"} /\ (status[p] = "expired" => Hook!statusFor(p) = "expired")
  BY <1>0 DEF HookInv, HookKept, Hook!handleCallback, Hook!Decided, Hook!statusFor
<1>2. PICK s \in Ended :
        /\ status' = [status EXCEPT ![p] = s] /\ told' = [told EXCEPT ![p] = @ \cup {s}]
        /\ status[p] = "expired" => s = "expired"
  BY <1>0, <1>1 DEF Hook!handleCallback, Hook!Hears
<1>3. \A q \in Prompt : HookKept(q)'
  <2> SUFFICES ASSUME NEW q \in Prompt PROVE HookKept(q)'
    OBVIOUS
  <2>1. CASE q # p
    BY <1>2, <2>1 DEF HookInv, HookKept, Hook!handleCallback
  <2>2. CASE q = p
    <3>1. status'[p] = s /\ told'[p] = told[p] \cup {s} /\ post' = post /\ post[p] = "stored"
      BY <1>0, <1>2 DEF HookInv, Hook!handleCallback
    <3>2. told[p] \cup {s} = {s}
      BY <1>0, <1>1, <1>2 DEF HookInv, HookKept
    <3> QED BY <2>2, <3>1, <3>2 DEF HookKept
  <2> QED BY <2>1, <2>2
<1> QED BY <1>2, <1>3 DEF HookInv, Hook!handleCallback

LEMMA HookStepKeeps == HookInv /\ [Hook!Next]_(Hook!vars) => HookInv'
<1> SUFFICES ASSUME HookInv, [Hook!Next]_(Hook!vars) PROVE HookInv'
  OBVIOUS
<1>1. ASSUME NEW p \in Prompt, Hook!promptPost(p) PROVE HookInv'
  BY <1>1 DEF HookInv, HookKept, Hook!promptPost
<1>2. ASSUME NEW p \in Prompt, Hook!promptStored(p) PROVE HookInv'
  BY <1>2 DEF HookInv, HookKept, Ended, Hook!promptStored
<1>3. ASSUME Hook!reload \/ Hook!tick \/ UNCHANGED Hook!vars PROVE HookInv'
  BY <1>3 DEF HookInv, HookKept, Hook!reload, Hook!tick, Hook!vars
<1> QED BY <1>1, <1>2, <1>3, PollKeeps, CallbackKeeps DEF Hook!Next

\* handleCallback, status and statusFor (approval/webhook.ts): the engine and the
\* approver hear of one end, whatever the order, number and age of the callbacks.
THEOREM EndsOnce == Hook!Spec => []Hook!OneEnd
<1>1. HookInv => Hook!OneEnd
  BY DEF HookInv, HookKept, Ended, Hook!OneEnd
<1> QED BY <1>1, HookInitKeeps, HookStepKeeps, PTL DEF Hook!Spec
=============================================================================
