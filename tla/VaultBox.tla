------------------------------- MODULE VaultBox -------------------------------
(***************************************************************************)
(* The encrypted vault file of a buyer's wallet: creation with its clean-  *)
(* up, opening, cards, billing addresses, keys, a change of the password   *)
(* and the recovery file.  Every edit reads the whole record, changes it   *)
(* and writes it back through a rename; several edits make one wallet      *)
(* call, no lock is taken, a write may fail and the process may die        *)
(* anywhere.                                                               *)
(*                                                                         *)
(* A key is where it comes from: <<n, s>> is derived from the salt n and   *)
(* the password s, or drawn for the vault n and kept in the keychain, or   *)
(* lost: out of the keychain again, and wiped.                             *)
(***************************************************************************)
EXTENDS Integers, Sequences, FiniteSets, SequencesExt

CONSTANTS
  Process,     \* wallet handles, of one or of several processes
  Card,        \* card ids
  FirstCard,   \* the card a wallet is created with
  Address,     \* ids of billing addresses
  FirstAddress, \* the address a wallet is created with
  Algorithm,   \* algorithms of a UCP signing key; a wallet is created with ES256
  Password,    \* passwords; the keychain is another way
  MaxFresh,    \* bound on creations and password changes
  MaxMishaps,  \* bound on failed writes and deaths
  MaxEdits     \* bound on maintenance calls, with the mishaps

VaultAssumption ==
  /\ FirstCard \in Card /\ FirstAddress \in Address /\ "ES256" \in Algorithm
  /\ {"keychain", "lost"} \cap Password = {}
  /\ {MaxFresh, MaxMishaps, MaxEdits} \subseteq Nat

VARIABLES
  box,       \* vault.box: who can open it and what it holds
  keychain,  \* the operating system's keychain, by vault
  policy,    \* policy.yml is there
  recovery,  \* the recovery file: whose key it holds, the key, its own password
  handle,    \* handle[p]: the vault p has open
  call,      \* call[p]: the wallet call under way
  todo,      \* todo[p]: what is left of it
  record,    \* record[p]: what it read last
  fresh, mishaps, edits,
  tainted,   \* history: two calls overlapped, or one failed or died
  book       \* history: the record the calls should leave

vars == <<box, keychain, policy, recovery, handle, call, todo, record, fresh, mishaps, edits,
          tainted, book>>

NoKey == <<0, "none">>
LostKey(n) == <<n, "lost">>
Empty == [cards |-> {}, default |-> {}, addresses |-> <<>>, home |-> {}, mandateKey |-> FALSE,
          signer |-> "none"]
NoBox == [uuid |-> 0, salt |-> 0, key |-> NoKey, record |-> Empty]
NoRecovery == [uuid |-> 0, key |-> NoKey, password |-> "none"]
NoHandle == [uuid |-> 0, salt |-> 0, key |-> NoKey, open |-> FALSE]

Init ==
  /\ box = NoBox
  /\ keychain = [n \in 1..MaxFresh |-> NoKey]
  /\ policy = FALSE /\ recovery = NoRecovery
  /\ handle = [p \in Process |-> NoHandle]
  /\ call = [p \in Process |-> "none"]
  /\ todo = [p \in Process |-> <<>>]
  /\ record = [p \in Process |-> Empty]
  /\ fresh = 0 /\ mishaps = 0 /\ edits = 0
  /\ tainted = FALSE
  /\ book = Empty

(***************************************************************************)
(* Edits of the record                                                     *)
(***************************************************************************)
addCard(c, isDefault) == [do |-> "addCard", id |-> c, isDefault |-> isDefault]
Edit(do, id) == [do |-> do, id |-> id, isDefault |-> FALSE]
removeCard(c) == Edit("removeCard", c)
addAddress(a) == Edit("addAddress", a)
removeAddress(a) == Edit("removeAddress", a)
setDefaultAddress(a) == Edit("setDefaultAddress", a)
createMandateKey == Edit("createMandateKey", "mandate")
createUcpSigningKey(algorithm) == Edit("createUcpSigningKey", algorithm)

EditKind == {"addCard", "removeCard", "addAddress", "removeAddress", "setDefaultAddress",
             "createMandateKey", "createUcpSigningKey"}

\* An edit throws that finds an id already there, or not there, or a signing key of
\* another algorithm.
Throws(e, r) ==
  \/ e.do = "addCard" /\ e.id \in r.cards
  \/ e.do = "removeCard" /\ e.id \notin r.cards
  \/ e.do = "addAddress" /\ e.id \in ToSet(r.addresses)
  \/ e.do \in {"removeAddress", "setDefaultAddress"} /\ e.id \notin ToSet(r.addresses)
  \/ e.do = "createUcpSigningKey" /\ r.signer \notin {"none", e.id}

\* A key that is there is kept, and nothing is written.
Keeps(e, r) ==
  \/ e.do = "createMandateKey" /\ r.mandateKey
  \/ e.do = "createUcpSigningKey" /\ r.signer # "none"

\* When the default address goes, the first that is left becomes it.  Ids are unique, so
\* the filter drops one.
WithoutAddress(a, r) ==
  LET left == RemoveAt(r.addresses, CHOOSE i \in DOMAIN r.addresses : r.addresses[i] = a) IN
  [r EXCEPT !.addresses = left,
            !.home = (@ \ {a}) \cup (IF a \in @ /\ left # <<>> THEN {Head(left)} ELSE {})]

\* The first address becomes the default.
WithAddress(a, r) ==
  [r EXCEPT !.addresses = Append(@, a), !.home = IF r.addresses = <<>> THEN {a} ELSE @]

Edited(e, r) ==
  CASE e.do = "addCard" ->
         [r EXCEPT !.cards = @ \cup {e.id},
                   !.default = IF e.isDefault THEN @ \cup {e.id} ELSE @]
    [] e.do = "removeCard" ->
         [r EXCEPT !.cards = @ \ {e.id}, !.default = @ \ {e.id}]
    [] e.do = "addAddress" -> WithAddress(e.id, r)
    [] e.do = "removeAddress" -> WithoutAddress(e.id, r)
    [] e.do = "setDefaultAddress" -> [r EXCEPT !.home = {e.id}]
    [] e.do = "createMandateKey" -> [r EXCEPT !.mandateKey = TRUE]
    [] e.do = "createUcpSigningKey" -> [r EXCEPT !.signer = e.id]

\* Mutant of nextDefaultTags: the other cards keep their tag.
keepDefaultTags(c, chosen, r) == c = chosen \/ c \in r.default

nextDefaultTags(c, chosen, r) == c = chosen

\* setDefaultCard: the record it listed, all removed and all added again.
setDefaultCard(chosen, r) ==
  LET cards == SetToSeq(r.cards) IN
  [i \in DOMAIN cards |-> removeCard(cards[i])]
    \o [i \in DOMAIN cards |-> addCard(cards[i], nextDefaultTags(cards[i], chosen, r))]

\* The address it bills now: the default, or the first.
billing(r) ==
  IF r.home \cap ToSet(r.addresses) # {} THEN CHOOSE a \in r.home : a \in ToSet(r.addresses)
  ELSE Head(r.addresses)

\* updateBilling: the address it billed is removed, the new one added and made the default.
updateBilling(a, r) ==
  (IF r.addresses = <<>> THEN <<>> ELSE <<removeAddress(billing(r))>>)
    \o <<addAddress(a), setDefaultAddress(a)>>

(***************************************************************************)
(* Steps of the calls                                                      *)
(***************************************************************************)
Idle(p) == call[p] = "none"
Overlaps(p) == \E q \in Process \ {p} : ~Idle(q)

\* The call named what begins with these steps; the record it should leave.
Begins(p, what, steps, should) ==
  /\ Idle(p)
  /\ call' = [call EXCEPT ![p] = what]
  /\ todo' = [todo EXCEPT ![p] = steps]
  /\ tainted' = (tainted \/ Overlaps(p))
  /\ book' = IF tainted' THEN Empty ELSE should

Ends(p) == /\ call' = [call EXCEPT ![p] = "none"]
           /\ todo' = [todo EXCEPT ![p] = <<>>]
           /\ record' = [record EXCEPT ![p] = Empty]

WentWrong == tainted' = TRUE /\ book' = Empty

\* A call throws.  A creation removes the files it made, not the recovery file; only
\* a vault that could not be sealed takes its key out of the keychain again.
Throw(p) ==
  /\ Ends(p)
  /\ IF call[p] = "create"
     THEN /\ box' = (IF Head(todo[p]).do \in {"init", "seal"} THEN box ELSE NoBox)
          /\ policy' = (IF Head(todo[p]).do \in {"init", "seal", "policy"} THEN policy ELSE FALSE)
          /\ handle' = [handle EXCEPT ![p] = NoHandle]
     ELSE UNCHANGED <<box, policy, handle>>
  /\ WentWrong

Step(do) == Edit(do, "none")

\* Mutant of CreateSteps: the box is sealed before its key is kept.
CreateStepsBoxFirst(opts) ==
  <<Step("seal"), Step("init"), Step("policy"), addCard(FirstCard, TRUE), addAddress(FirstAddress),
    setDefaultAddress(FirstAddress), createMandateKey, createUcpSigningKey("ES256"),
    Step("recovery"), Step("load")>>

\* opts: with keys, with a recovery file.
CreateSteps(opts) ==
  <<Step("init"), Step("seal"), Step("policy"), addCard(FirstCard, TRUE), addAddress(FirstAddress),
    setDefaultAddress(FirstAddress)>>
    \o (IF "keys" \in opts THEN <<createMandateKey, createUcpSigningKey("ES256")>> ELSE <<>>)
    \o (IF "recovery" \in opts THEN <<Step("recovery")>> ELSE <<>>) \o <<Step("load")>>

CreatedRecord(opts) ==
  [cards |-> {FirstCard}, default |-> {FirstCard}, addresses |-> <<FirstAddress>>,
   home |-> {FirstAddress}, mandateKey |-> "keys" \in opts,
   signer |-> IF "keys" \in opts THEN "ES256" ELSE "none"]

\* A password keystore derives the key from the password and the salt in the header.
derivePasswordKey(salt, secret) == <<salt, secret>>

\* The key of a new vault, and the salt of its header.
createMasterKey(n, secret) ==
  IF secret = "keychain" THEN [salt |-> 0, key |-> <<n, "keychain">>]
  ELSE [salt |-> n, key |-> derivePasswordKey(n, secret)]

\* Wallet.create: refused while either file is there, unless it may overwrite.
create(p, secret, overwrite, opts) ==
  /\ ~handle[p].open /\ fresh < MaxFresh
  /\ overwrite \/ (box = NoBox /\ ~policy)
  /\ Begins(p, "create", CreateSteps(opts), CreatedRecord(opts))
  /\ IF overwrite THEN box' = NoBox /\ policy' = FALSE ELSE UNCHANGED <<box, policy>>
  /\ fresh' = fresh + 1
  /\ LET made == createMasterKey(fresh + 1, secret) IN
     handle' = [handle EXCEPT ![p] =
       [uuid |-> fresh + 1, salt |-> made.salt, key |-> made.key, open |-> FALSE]]
  /\ UNCHANGED <<keychain, recovery, record, mishaps, edits>>

Head1(p, do) == todo[p] # <<>> /\ Head(todo[p]).do = do
Done1(p) == todo' = [todo EXCEPT ![p] = Tail(@)]
Next1(p) == IF Len(todo[p]) = 1 THEN Ends(p) ELSE Done1(p) /\ UNCHANGED <<call, record>>

\* BuyerVault.init: no box may be there; the key is kept before the box is sealed.
initKey(p) ==
  /\ Head1(p, "init")
  /\ IF box # NoBox
     THEN Throw(p) /\ UNCHANGED keychain
     ELSE /\ keychain' = IF handle[p].salt = 0
                         THEN [keychain EXCEPT ![handle[p].uuid] = handle[p].key] ELSE keychain
          /\ Done1(p)
          /\ UNCHANGED <<box, policy, handle, call, record, tainted, book>>
  /\ UNCHANGED <<recovery, fresh, mishaps, edits>>

\* The header in clear, and the record under the key.
packVaultBox(header, key, r) == [uuid |-> header.uuid, salt |-> header.salt, key |-> key, record |-> r]

Sealed(p, r) == packVaultBox(handle[p], handle[p].key, r)

initBox(p) ==
  /\ Head1(p, "seal")
  /\ box' = Sealed(p, Empty)
  /\ handle' = [handle EXCEPT ![p].open = TRUE]
  /\ Done1(p)
  /\ UNCHANGED <<keychain, policy, recovery, call, record, fresh, mishaps, edits, tainted, book>>

\* The file is created exclusively, so another creation makes this one throw.
writePolicy(p) ==
  /\ Head1(p, "policy")
  /\ IF policy THEN Throw(p)
     ELSE /\ policy' = TRUE /\ Done1(p)
          /\ UNCHANGED <<box, handle, call, record, tainted, book>>
  /\ UNCHANGED <<keychain, recovery, fresh, mishaps, edits>>

\* exportKeyToFile refuses a file that is there; it is a step of a creation, or a call
\* of its own.
exportRecovery(p) ==
  /\ Head1(p, "recovery")
  /\ \/ /\ recovery = NoRecovery
        /\ \E password \in Password :
             recovery' = [uuid |-> handle[p].uuid, key |-> handle[p].key, password |-> password]
        /\ Next1(p)
        /\ UNCHANGED <<box, policy, handle, tainted, book>>
     \/ /\ recovery # NoRecovery
        /\ Throw(p) /\ UNCHANGED recovery
  /\ UNCHANGED <<keychain, fresh, mishaps, edits>>

\* A creation ends by loading the policy.
loadWalletPolicy(p) ==
  /\ Head1(p, "load")
  /\ IF policy THEN Ends(p) /\ UNCHANGED <<box, policy, handle, tainted, book>> ELSE Throw(p)
  /\ UNCHANGED <<keychain, recovery, fresh, mishaps, edits>>

\* readCurrentRecord: the file's header, the handle's key.
readCurrentRecord(p) ==
  /\ todo[p] # <<>> /\ Head(todo[p]).do \in EditKind
  /\ LET e == Head(todo[p]) IN
     IF box = NoBox \/ box.key # handle[p].key \/ Throws(e, box.record)
     THEN Throw(p)
     ELSE IF Keeps(e, box.record)
     THEN /\ Next1(p)
          /\ UNCHANGED <<box, policy, handle, tainted, book>>
     ELSE /\ record' = [record EXCEPT ![p] = Edited(e, box.record)]
          /\ todo' = [todo EXCEPT ![p] = <<Step("write")>> \o Tail(@)]
          /\ UNCHANGED <<box, policy, handle, call, tainted, book>>
  /\ UNCHANGED <<keychain, recovery, fresh, mishaps, edits>>

\* writeCurrentRecord: the handle's header and key, and all it read.
writeCurrentRecord(p) ==
  /\ Head1(p, "write")
  /\ box' = Sealed(p, record[p])
  /\ Next1(p)
  /\ UNCHANGED <<keychain, policy, recovery, handle, fresh, mishaps, edits, tainted, book>>

(***************************************************************************)
(* The other calls                                                         *)
(***************************************************************************)
osKeystore(uuid) == keychain[uuid]

masterKeyForOpen(secret) ==
  CASE box.salt # 0 /\ secret # "keychain" -> derivePasswordKey(box.salt, secret)
    [] box.salt = 0 /\ secret = "keychain" -> osKeystore(box.uuid)
    [] OTHER -> NoKey

Opens(secret) == box # NoBox /\ masterKeyForOpen(secret) = box.key

\* The header says where the key is: a password that is not needed is not used.
keystoreForHeader(secret) == IF box.salt # 0 THEN secret ELSE "keychain"

open(p, secret) ==
  /\ Idle(p) /\ ~handle[p].open
  /\ Opens(keystoreForHeader(secret)) /\ policy
  /\ handle' = [handle EXCEPT ![p] =
       [uuid |-> box.uuid, salt |-> box.salt, key |-> box.key, open |-> TRUE]]
  /\ UNCHANGED <<box, keychain, policy, recovery, call, todo, record, fresh, mishaps, edits, tainted, book>>

close(p) ==
  /\ Idle(p) /\ handle[p].open
  /\ handle' = [handle EXCEPT ![p] = NoHandle]
  /\ UNCHANGED <<box, keychain, policy, recovery, call, todo, record, fresh, mishaps, edits, tainted, book>>

Maintains(p) == handle[p].open /\ edits + mishaps < MaxEdits /\ edits' = edits + 1

edit(p, e) ==
  /\ Maintains(p)
  /\ Begins(p, "edit", <<e>>, IF Throws(e, book) \/ Keeps(e, book) THEN book ELSE Edited(e, book))
  /\ UNCHANGED <<box, keychain, policy, recovery, handle, record, fresh, mishaps>>

exportKey(p) ==
  /\ Maintains(p) /\ recovery = NoRecovery
  /\ Begins(p, "export", <<Step("recovery")>>, book)
  /\ UNCHANGED <<box, keychain, policy, recovery, handle, record, fresh, mishaps>>

\* listCards and revealCard read the record once for the list and again per card.
startSetDefault(p, c) ==
  /\ Maintains(p)
  /\ box # NoBox /\ box.key = handle[p].key /\ c \in box.record.cards
  /\ Begins(p, "setDefault", setDefaultCard(c, box.record), [book EXCEPT !.default = {c}])
  /\ UNCHANGED <<box, keychain, policy, recovery, handle, record, fresh, mishaps>>

\* billing() throws without an address; updateBilling goes on without one.  When the new
\* address has the id of another, the old one is gone and the call throws.
startUpdateBilling(p, a) ==
  /\ Maintains(p)
  /\ box # NoBox /\ box.key = handle[p].key
  /\ LET left == IF book.addresses = <<>> THEN <<>>
                 ELSE WithoutAddress(billing(book), book).addresses
     IN Begins(p, "billing", updateBilling(a, box.record),
          [book EXCEPT !.addresses = Append(left, a), !.home = {a}])
  /\ UNCHANGED <<box, keychain, policy, recovery, handle, record, fresh, mishaps>>

Reseal(uuid, key) == [do |-> "reseal", uuid |-> uuid, key |-> key]
Reopen(secret) == [do |-> "reopen", secret |-> secret]

\* rotatePasswordVault reads and opens the box, and writes it later under a fresh
\* salt; the wallet then opens what it finds.
startRotate(p, old, new) ==
  /\ handle[p].open /\ fresh < MaxFresh
  /\ {old, new} \subseteq Password /\ box.salt # 0 /\ Opens(old)
  /\ Begins(p, "rotate", <<Reseal(box.uuid, derivePasswordKey(fresh + 1, new)), Reopen(new)>>, book)
  /\ record' = [record EXCEPT ![p] = box.record]
  /\ fresh' = fresh + 1
  /\ UNCHANGED <<box, keychain, policy, recovery, handle, mishaps, edits>>

rotatePasswordVault(p) ==
  /\ Head1(p, "reseal")
  /\ LET s == Head(todo[p]) IN
     box' = packVaultBox([uuid |-> s.uuid, salt |-> s.key[1]], s.key, record[p])
  /\ Done1(p)
  /\ UNCHANGED <<keychain, policy, recovery, handle, call, record, fresh, mishaps, edits, tainted, book>>

rotatePassword(p) ==
  /\ Head1(p, "reopen")
  /\ \/ /\ Opens(Head(todo[p]).secret)
        /\ handle' = [handle EXCEPT ![p] =
             [uuid |-> box.uuid, salt |-> box.salt, key |-> box.key, open |-> TRUE]]
        /\ Ends(p)
        /\ UNCHANGED <<box, policy, tainted, book>>
     \/ ~Opens(Head(todo[p]).secret) /\ Throw(p)
  /\ UNCHANGED <<keychain, recovery, fresh, mishaps, edits>>

\* importKeyFromRecoveryFile installs the key in the keychain, for the vault of
\* the file, unless there is one; the key may be older than a password change.
unwrapMasterKey(password) == IF password = recovery.password THEN recovery.key ELSE NoKey

importKeyFromFile(password) ==
  /\ recovery # NoRecovery /\ recovery.uuid = box.uuid
  /\ unwrapMasterKey(password) # NoKey
  /\ keychain[box.uuid] = NoKey
  /\ keychain' = [keychain EXCEPT ![box.uuid] = unwrapMasterKey(password)]
  /\ UNCHANGED <<box, policy, recovery, handle, call, todo, record, fresh, mishaps, edits, tainted, book>>

(***************************************************************************)
(* Mishaps                                                                 *)
(***************************************************************************)
GoesWrong(p) == /\ ~Idle(p) /\ mishaps < MaxMishaps /\ edits + mishaps < MaxEdits
                /\ mishaps' = mishaps + 1

withoutKeychain(p) == [keychain EXCEPT ![handle[p].uuid] = NoKey]

\* A write, or the keychain, fails: the step's effect does not take place.
stepFails(p) ==
  /\ GoesWrong(p)
  /\ keychain' = (IF Head1(p, "seal") THEN withoutKeychain(p) ELSE keychain)
  /\ Throw(p)
  /\ UNCHANGED <<recovery, fresh, edits>>

\* A write fails with its file in place: the chmod after the rename of a box, the close of
\* a policy.  A creation takes such a box, and such a policy, for not written, and what it
\* took out of the keychain was the box's only key.  Any other write that fails so is the
\* write and a failure of the step after it.
writeFailsLate(p) ==
  /\ GoesWrong(p)
  /\ \/ /\ Head1(p, "seal")
        /\ box' = IF handle[p].salt # 0 THEN Sealed(p, Empty)
                  ELSE packVaultBox(handle[p], LostKey(handle[p].uuid), Empty)
        /\ keychain' = withoutKeychain(p)
        /\ UNCHANGED policy
     \/ /\ Head1(p, "policy") /\ ~policy
        /\ box' = NoBox /\ policy' = TRUE
        /\ UNCHANGED keychain
  /\ handle' = [handle EXCEPT ![p] = NoHandle]
  /\ Ends(p) /\ WentWrong
  /\ UNCHANGED <<recovery, fresh, edits>>

dies(p) ==
  /\ GoesWrong(p)
  /\ Ends(p)
  /\ handle' = [handle EXCEPT ![p] = NoHandle]
  /\ WentWrong
  /\ UNCHANGED <<box, keychain, policy, recovery, fresh, edits>>

Next ==
  \/ \E p \in Process :
       \/ \E s \in Password \cup {"keychain"}, o \in BOOLEAN,
            opts \in {{}, {"keys", "recovery"}} : create(p, s, o, opts)
       \/ \E s \in Password \cup {"keychain"} : open(p, s)
       \/ initKey(p) \/ initBox(p) \/ writePolicy(p) \/ exportRecovery(p) \/ loadWalletPolicy(p)
       \/ readCurrentRecord(p) \/ writeCurrentRecord(p)
       \/ \E c \in Card : \/ edit(p, addCard(c, FALSE)) \/ edit(p, removeCard(c))
                         \/ startSetDefault(p, c)
       \/ \E a \in Address : \/ edit(p, addAddress(a)) \/ edit(p, removeAddress(a))
                            \/ edit(p, setDefaultAddress(a)) \/ startUpdateBilling(p, a)
       \/ edit(p, createMandateKey) \/ exportKey(p) \/ close(p)
       \/ \E algorithm \in Algorithm : edit(p, createUcpSigningKey(algorithm))
       \/ \E old, new \in Password : startRotate(p, old, new)
       \/ rotatePasswordVault(p) \/ rotatePassword(p) \/ stepFails(p)
       \/ writeFailsLate(p) \/ dies(p)
  \/ \E s \in Password : importKeyFromFile(s)

Spec == Init /\ [][Next]_vars

(***************************************************************************)
(* Properties                                                              *)
(***************************************************************************)

\* A vault can be opened: the keychain holds the key its box is sealed under, or
\* a password and the salt in its header give it, whatever calls overlapped, failed
\* or died (creations that overwrite each other included), but for a box that its own
\* creation took for not written.
BoxOpens ==
  box # NoBox /\ box.key # LostKey(box.uuid) => \E s \in Password \cup {"keychain"} : Opens(s)

\* Calls that neither overlapped nor failed leave exactly the record they should:
\* choosing a default, which removes and adds every card, keeps all and tags one, and
\* new billing replaces the address billed before.  However calls overlapped or failed,
\* one of the addresses there is is the default.
CallsAreExact ==
  /\ ~tainted /\ (\A p \in Process : Idle(p)) /\ box # NoBox => box.record = book
  /\ box.record.addresses # <<>> =>
       \E a \in ToSet(box.record.addresses) : box.record.home = {a}
==============================================================================
