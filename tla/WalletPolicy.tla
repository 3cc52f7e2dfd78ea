------------------------------ MODULE WalletPolicy ------------------------------
(***************************************************************************)
(* The policy of a wallet: two YAML files (a project's and the user's), a  *)
(* wallet handle per process that holds the documents it read last, the    *)
(* wallet's setters that rewrite a file, and the user who edits the files  *)
(* by hand.  A setter reads the file, empties it and writes it, reads both *)
(* files again; each is a step, and nothing locks the file.                *)
(***************************************************************************)
EXTENDS PolicyRules

CONSTANTS
  Handle,      \* processes with a wallet open
  Project(_),  \* Project(h): h's is the project's wallet
  Change,      \* what setters may be called with
  FirstDoc,    \* what Wallet.create wrote
  HandRule,    \* the cannot rule the user writes by hand
  Intent,      \* purchases to decide on
  Spent,       \* what the vault says is spent
  MaxChanges,  \* bound on setter calls
  MaxEdits,    \* bound on edits by hand
  MaxCrashes   \* bound on crashes

WalletPolicyAssumption ==
  /\ \A h \in Handle : Project(h) \in BOOLEAN
  /\ HandRule.effect = "cannot"
  /\ {MaxChanges, MaxEdits, MaxCrashes} \subseteq Nat

VARIABLES
  file,     \* file[f]: the document, or Torn
  loaded,   \* loaded[h]: the documents h decides by
  at,       \* where h's setter is
  draft,    \* draft[h]: what its setter will write
  got,      \* got[h]: the documents of a reload that is under way
  changes, edits, crashes,
  kept,     \* history: the files whose rule by hand no setter was racing with
  took      \* history: took[h]: the change h's last setter returned from, if it ran alone

vars == <<file, loaded, at, draft, got, changes, edits, crashes, kept, took>>

File == {"project", "global"}

\* The files of a wallet, in the order it reads them; the first is the one it writes.
walletPaths(h) == IF Project(h) THEN <<"project", "global">> ELSE <<"global">>

Mine(h) == walletPaths(h)[1]

Torn == [default |-> "torn", rules |-> <<>>, limits |-> <<>>]
NoDoc == [default |-> "none", rules |-> <<>>, limits |-> <<>>]
NoChange == [kind |-> "none"]

WalletRule == "steelyard.wallet.allowed_merchants"

Init ==
  /\ file = [f \in File |-> FirstDoc]
  /\ loaded = [h \in Handle |-> [i \in DOMAIN walletPaths(h) |-> FirstDoc]]
  /\ at = [h \in Handle |-> "idle"]
  /\ draft = [h \in Handle |-> NoDoc]
  /\ got = [h \in Handle |-> <<>>]
  /\ changes = 0 /\ edits = 0 /\ crashes = 0
  /\ kept = {}
  /\ took = [h \in Handle |-> NoChange]

(***************************************************************************)
(* Setters                                                                 *)
(***************************************************************************)
HasWalletRule(doc) == \E i \in DOMAIN doc.rules : doc.rules[i].name = WalletRule

Rewritten(rule, change) ==
  CASE change.kind = "merchants" -> [rule EXCEPT !.merchants = change.merchants]
    [] OTHER -> [rule EXCEPT !.above = change.above, !.aboveIn = change.aboveIn]

\* Mutant of updateWalletRule: the section is written, and nothing else.
updateOnlySection(doc, change) ==
  [doc EXCEPT !.rules = <<Rewritten(CHOOSE r \in ToSet(@) : r.name = WalletRule, change)>>]

\* The wallet's own rule is changed in place.
updateWalletRule(doc, change) ==
  [doc EXCEPT !.rules =
     [i \in DOMAIN @ |-> IF @[i].name = WalletRule THEN Rewritten(@[i], change) ELSE @[i]]]

\* setLimits, setAllowedMerchants, setApprovalAbove on the parsed document.
Updated(doc, change) ==
  IF change.kind = "limits" THEN [doc EXCEPT !.limits = change.limits]
                            ELSE updateWalletRule(doc, change)

\* An empty file parses as null, which no update can be applied to.
updateWalletPolicy(h, change) ==
  /\ at[h] = "idle" /\ changes < MaxChanges
  /\ file[Mine(h)] # Torn
  /\ change.kind = "limits" \/ HasWalletRule(file[Mine(h)])
  /\ changes' = changes + 1
  /\ at' = [at EXCEPT ![h] = "writing"]
  /\ draft' = [draft EXCEPT ![h] = Updated(file[Mine(h)], change)]
  /\ took' = [g \in Handle |->
               IF g # h /\ Mine(g) = Mine(h) /\ at[g] # "idle" THEN NoChange
               ELSE IF g # h THEN took[g]
               ELSE IF \E o \in Handle \ {h} : Mine(o) = Mine(h) /\ at[o] # "idle" THEN NoChange
               ELSE change]
  /\ UNCHANGED <<file, loaded, got, edits, crashes, kept>>

\* writeFile empties the file before it writes.
truncate(h) ==
  /\ at[h] = "writing"
  /\ at' = [at EXCEPT ![h] = "emptied"]
  /\ file' = [file EXCEPT ![Mine(h)] = Torn]
  /\ UNCHANGED <<loaded, draft, got, changes, edits, crashes, kept, took>>

writePolicy(h) ==
  /\ at[h] = "emptied"
  /\ at' = [at EXCEPT ![h] = "reloading"]
  /\ file' = [file EXCEPT ![Mine(h)] = draft[h]]
  /\ draft' = [draft EXCEPT ![h] = NoDoc]
  /\ UNCHANGED <<loaded, got, changes, edits, crashes, kept, took>>

\* WalletRules.load reads a file at a time; one that is empty has no version, and the
\* setter throws with the file written and the old documents in use.
readPolicyDocuments(h) ==
  /\ at[h] = "reloading"
  /\ LET f == walletPaths(h)[Len(got[h]) + 1]
         docs == Append(got[h], file[f])
     IN \/ /\ file[f] = Torn
           /\ at' = [at EXCEPT ![h] = "idle"]
           /\ got' = [got EXCEPT ![h] = <<>>]
           /\ took' = [took EXCEPT ![h] = NoChange]
           /\ UNCHANGED loaded
        \/ /\ file[f] # Torn /\ Len(docs) < Len(walletPaths(h))
           /\ got' = [got EXCEPT ![h] = docs]
           /\ UNCHANGED <<loaded, at, took>>
        \/ /\ file[f] # Torn /\ Len(docs) = Len(walletPaths(h))
           /\ loaded' = [loaded EXCEPT ![h] = docs]
           /\ got' = [got EXCEPT ![h] = <<>>]
           /\ at' = [at EXCEPT ![h] = "idle"]
           /\ UNCHANGED took
  /\ UNCHANGED <<file, draft, changes, edits, crashes, kept>>

(***************************************************************************)
(* The user, and crashes                                                   *)
(***************************************************************************)
Setting(f) == {h \in Handle : Mine(h) = f /\ at[h] \in {"writing", "emptied"}}

\* The user adds the rule, or puts an emptied file right.
editByHand(f) ==
  /\ edits < MaxEdits
  /\ edits' = edits + 1
  /\ LET doc == IF file[f] = Torn THEN FirstDoc ELSE file[f]
     IN file' = [file EXCEPT ![f] = [doc EXCEPT !.rules = Append(@, HandRule)]]
  /\ kept' = (IF Setting(f) = {} THEN kept \cup {f} ELSE kept \ {f})
  /\ took' = [h \in Handle |-> IF Mine(h) = f THEN NoChange ELSE took[h]]
  /\ UNCHANGED <<loaded, at, draft, got, changes, crashes>>

\* A process that dies with its file emptied leaves it so.
crash(h) ==
  /\ crashes < MaxCrashes /\ at[h] # "gone"
  /\ crashes' = crashes + 1
  /\ at' = [at EXCEPT ![h] = "gone"]
  /\ draft' = [draft EXCEPT ![h] = NoDoc]
  /\ got' = [got EXCEPT ![h] = <<>>]
  /\ kept' = (IF at[h] = "emptied" THEN kept \ {Mine(h)} ELSE kept)
  /\ UNCHANGED <<file, loaded, changes, edits, took>>

Next ==
  \/ \E h \in Handle, change \in Change : updateWalletPolicy(h, change)
  \/ \E h \in Handle : truncate(h) \/ writePolicy(h) \/ readPolicyDocuments(h) \/ crash(h)
  \/ \E f \in File : editByHand(f)

Spec == Init /\ [][Next]_vars

(***************************************************************************)
(* Properties                                                              *)
(***************************************************************************)
Decides(h, intent) == evaluatePolicy(loaded[h], intent, Spent)

Forbids(doc) == HandRule \in ToSet(doc.rules)

\* A rule of the file the wallet does not write lets the purchase through.  Only a
\* project's wallet has such a file: the global one.
AllowedElsewhere(h, intent) ==
  \E i \in DOMAIN loaded[h] \ {1} :
    \E r \in ToSet(Rules(loaded[h][i], "can")) : matchesRule(r, intent)

\* The wallet's own rule is about the purchase.
OwnRuleMatches(h, intent) ==
  \E r \in ToSet(loaded[h][1].rules) : r.name = WalletRule /\ matchesRule(r, intent)

\* What a change gives when nothing else has been made since.  Limits hold for every
\* wallet (all of them 0 is none).  The merchants, and the amount above which approval
\* is asked for, are a rule of the wallet's file: for a project's wallet the global
\* file still lets through what that rule no longer matches, without approval.
Honours(h, change) ==
  \A intent \in Intent :
    CASE change.kind = "limits" ->
           hasLimits(change.limits) /\ Exceeds(change.limits, intent, Spent)
             => Decides(h, intent) = "denied"
      [] change.kind = "merchants" ->
           intent.merchant \notin change.merchants /\ Decides(h, intent) # "denied"
             => AllowedElsewhere(h, intent)
      [] OTHER ->
           /\ intent.currency = change.aboveIn /\ intent.amount > change.above
           /\ Decides(h, intent) = "allowed"
           => AllowedElsewhere(h, intent) /\ ~OwnRuleMatches(h, intent)

\* Wallets and the user write the same two files.  The rule the user adds by hand
\* stays in its file through every setter that did not overlap with the edit, is
\* obeyed by every wallet that has read it whatever the can rules of either file,
\* and a setter that returned after running alone is obeyed by its wallet as far as
\* Honours says.  Setters that overlap lose one of the two changes, and a death in
\* a write leaves an empty file: nothing is said of those.
PolicyIsObeyed ==
  /\ \A f \in kept :
       /\ file[f] = Torn \/ Forbids(file[f])
       /\ \A h \in Setting(f) : Forbids(draft[h])
  /\ \A h \in Handle, intent \in Intent :
       /\ \E i \in DOMAIN loaded[h] : Forbids(loaded[h][i])
       /\ matchesRule(HandRule, intent)
       => Decides(h, intent) = "denied"
  /\ \A h \in Handle : at[h] = "idle" /\ took[h] # NoChange => Honours(h, took[h])
==============================================================================
