---------------------------- MODULE VaultBoxProofs ----------------------------
(***************************************************************************)
(* That a vault's box can be opened, and that calls which neither overlap  *)
(* nor fail leave exactly the record they should, for any handles, cards,  *)
(* addresses, passwords and bounds.                                        *)
(***************************************************************************)
EXTENDS VaultBox, FiniteSetTheorems, SequenceTheorems, TLAPS

Key == Nat \X (Password \cup {"keychain", "none", "lost"})
Signer == Algorithm \cup {"none"}
Record == [cards : SUBSET Card, default : SUBSET Card, addresses : Seq(Address),
           home : SUBSET Address, mandateKey : BOOLEAN, signer : Signer]
Handle == [uuid : Nat, salt : Nat, key : Key, open : BOOLEAN]

\* The steps that a call is made of.
CardStep == [do : {"addCard", "removeCard"}, id : Card, isDefault : BOOLEAN]
AddressStep == [do : {"addAddress", "removeAddress", "setDefaultAddress"}, id : Address,
                isDefault : BOOLEAN]
SignerStep == [do : {"createUcpSigningKey"}, id : Algorithm, isDefault : BOOLEAN]
PlainStep == [do : {"createMandateKey", "init", "seal", "policy", "recovery", "load", "write"},
              id : {"mandate", "none"}, isDefault : BOOLEAN]
ResealStep == [do : {"reseal"}, uuid : Nat, key : (Nat \ {0}) \X Password]
ReopenStep == [do : {"reopen"}, secret : Password]
AnyStep == CardStep \cup AddressStep \cup SignerStep \cup PlainStep \cup ResealStep \cup ReopenStep

\* A record that a call can leave: a default card is one of the cards, and when
\* there are addresses one of them is the default.
DefaultAddress(r) == r.addresses # <<>> => \E a \in ToSet(r.addresses) : r.home = {a}

Sound(r) == /\ r \in Record /\ IsFiniteSet(r.cards) /\ r.default \subseteq r.cards
            /\ DefaultAddress(r)

\* Where a step may stand in a call.  Only a creation keeps a key and seals the first
\* box, first of all and in this order; a write and a reseal are what runs next, and
\* a call ends with its load or its reopening.
Placed(s) ==
  \A i \in 1..Len(s) :
    /\ s[i].do \in {"init", "write", "reseal"} => i = 1
    /\ s[i].do = "seal" => i = 1 \/ (i = 2 /\ s[1].do = "init")
    /\ s[i].do \in {"load", "reopen"} => i = Len(s)

BoxOK == /\ box \in [uuid : Nat, salt : Nat, key : Key, record : Record]
         /\ Sound(box.record)

KeptOK == /\ keychain \in [1..MaxFresh -> Key]
          /\ recovery \in [uuid : Nat, key : Key, password : Password \cup {"none"}]

CallsOK ==
  /\ call \in [Process -> {"none", "create", "edit", "export", "setDefault", "billing", "rotate"}]
  /\ todo \in [Process -> Seq(AnyStep)]
  /\ record \in [Process -> Record]
  /\ \A p \in Process : Sound(record[p]) /\ Placed(todo[p]) /\ (Idle(p) => todo[p] = <<>>)

HandlesOK == handle \in [Process -> Handle]

TypeOK == BoxOK /\ KeptOK /\ CallsOK /\ HandlesOK /\ fresh \in 0..MaxFresh /\ tainted \in BOOLEAN

(***************************************************************************)
(* Keys                                                                    *)
(***************************************************************************)
\* The key h is sealed under can be had again: from the keychain, or from a password.
Had(h) ==
  IF h.salt = 0 THEN h.uuid \in 1..fresh /\ h.key # NoKey /\ keychain[h.uuid] = h.key
  ELSE \E s \in Password : h.key = <<h.salt, s>>

\* A box that its creation took for not written: nobody has its key.
Lost(h) == h.salt = 0 /\ h.uuid \in 1..fresh /\ h.key = LostKey(h.uuid)

\* The key of a vault that is being made, before it is kept.
ToBeKept(h) == IF h.salt = 0 THEN h.uuid \in 1..fresh /\ h.key # NoKey
               ELSE \E s \in Password : h.key = <<h.salt, s>>

Makes(p) == Head1(p, "init") \/ Head1(p, "seal")

\* Nothing else is of the vault that p is making, when its key is in the keychain.
OfItsOwn(p) ==
  /\ call[p] = "create" /\ handle[p].uuid \in 1..fresh
  /\ box.salt = 0 => box.uuid # handle[p].uuid
  /\ \A q \in Process \ {p} : handle[q].salt = 0 => handle[q].uuid # handle[p].uuid

KeysHad ==
  /\ box # NoBox => Had(box) \/ Lost(box)
  /\ box.salt = 0 => box.uuid \in 0..fresh
  /\ \A p \in Process :
       /\ handle[p].salt = 0 => handle[p].uuid \in 0..fresh
       /\ Head1(p, "init") => ToBeKept(handle[p])
       /\ (handle[p].open \/ todo[p] # <<>>) /\ ~Head1(p, "init") => Had(handle[p])
       /\ Makes(p) => OfItsOwn(p)

(***************************************************************************)
(* Records                                                                 *)
(***************************************************************************)
\* What a step that does not throw makes of the record r in the box, when its call
\* last read the record kept.
Does(e, r, after, kept) ==
  CASE e.do \in EditKind -> Throws(e, r) \/ (after = IF Keeps(e, r) THEN r ELSE Edited(e, r))
    [] e.do \in {"write", "reseal"} -> after = kept
    [] e.do = "seal" -> after = Empty
    [] OTHER -> after = r

\* The records rs that the steps s leave one after the other, to the last one.
Through(rs, s, kept, last) ==
  /\ rs[Len(s) + 1] = last
  /\ \A i \in 1..Len(s) : Does(s[i], rs[i], rs[i + 1], kept)

Leads(p) == \E rs : rs[1] = box.record /\ Through(rs, todo[p], record[p], book)

BookKept ==
  ~tainted =>
    /\ \A p, q \in Process : ~Idle(p) /\ ~Idle(q) => p = q
    /\ \A p \in Process : ~Idle(p) => Leads(p)
    /\ (\A p \in Process : Idle(p)) => box.record = book

IInv == TypeOK /\ KeysHad /\ BookKept

(***************************************************************************)
(* Lemmas on the steps and the records                                     *)
(***************************************************************************)
\* What is left of a call when its first step is done.
LEMMA TailOfSteps ==
  ASSUME NEW s \in Seq(AnyStep), s # <<>>
  PROVE  /\ Head(s) = s[1] /\ s[1] \in AnyStep /\ Len(s) \in Nat \ {0}
         /\ Tail(s) \in Seq(AnyStep) /\ Len(Tail(s)) = Len(s) - 1
         /\ \A i \in 1..Len(s) - 1 : Tail(s)[i] = s[i + 1]
<1> HIDE DEF AnyStep
<1> QED OBVIOUS

LEMMA TailPlaced ==
  ASSUME NEW s \in Seq(AnyStep), s # <<>>, Placed(s)
  PROVE  Placed(Tail(s))
<1> DEFINE t == Tail(s)
<1>1. \A i \in 1..Len(s) - 1 : t[i] = s[i + 1]
  BY TailOfSteps
<1>2. Len(t) = Len(s) - 1 /\ Len(s) \in Nat \ {0}
  BY TailOfSteps
<1> HIDE DEF AnyStep, t
<1>3. ASSUME NEW i \in 1..Len(t)
      PROVE  /\ t[i].do \in {"init", "write", "reseal"} => i = 1
             /\ t[i].do = "seal" => i = 1 \/ (i = 2 /\ t[1].do = "init")
             /\ t[i].do \in {"load", "reopen"} => i = Len(t)
  <2>1. t[i] = s[i + 1] /\ i + 1 \in 1..Len(s) /\ i \in Nat \ {0} /\ i \in 1..Len(s) - 1
    BY <1>1, <1>2
  <2>2. PICK k \in 1..Len(s) : k = i + 1
    BY <2>1
  <2>3. /\ s[k].do \in {"init", "write", "reseal"} => k = 1
        /\ s[k].do = "seal" => k = 1 \/ (k = 2 /\ s[1].do = "init")
        /\ s[k].do \in {"load", "reopen"} => k = Len(s)
    BY <2>2 DEF Placed
  <2>4. t[i] = s[k] /\ k # 1
    BY <2>1, <2>2
  <2>5. k = 2 => i = 1
    BY <2>1, <2>2
  <2>6. k = Len(s) => i = Len(t)
    BY <2>1, <2>2, <1>2
  <2> QED BY <2>3, <2>4, <2>5, <2>6
<1>4. Placed(t)
  BY <1>3 DEF Placed
<1> QED BY <1>4 DEF t

\* A write takes the place of the edit whose record it writes.
LEMMA WriteFirst ==
  ASSUME NEW s \in Seq(AnyStep), s # <<>>, Placed(s), s[1].do \in EditKind
  PROVE  LET t == <<Step("write")>> \o Tail(s)
         IN /\ t \in Seq(AnyStep) /\ Placed(t) /\ Len(t) = Len(s) /\ t # <<>>
            /\ t[1] = Step("write") /\ \A i \in 2..Len(s) : t[i] = s[i]
<1> DEFINE w == Step("write")
           t == <<w>> \o Tail(s)
<1>1. w \in AnyStep /\ w.do = "write"
  BY DEF Step, Edit, AnyStep, PlainStep
<1>2. /\ Tail(s) \in Seq(AnyStep) /\ Len(Tail(s)) = Len(s) - 1 /\ Len(s) \in Nat \ {0}
      /\ \A i \in 1..Len(s) - 1 : Tail(s)[i] = s[i + 1]
  BY TailOfSteps
<1>3. /\ t \in Seq(AnyStep) /\ Len(t) = Len(s) /\ t[1] = w /\ \A i \in 2..Len(s) : t[i] = s[i]
  <2> HIDE DEF w, AnyStep
  <2> QED BY <1>1, <1>2
<1>4. Placed(t)
  <2> HIDE DEF w, t, AnyStep
  <2>1. "init" \notin EditKind
    BY DEF EditKind
  <2> SUFFICES ASSUME NEW i \in 1..Len(s)
               PROVE  /\ t[i].do \in {"init", "write", "reseal"} => i = 1
                      /\ t[i].do = "seal" => i = 1 \/ (i = 2 /\ t[1].do = "init")
                      /\ t[i].do \in {"load", "reopen"} => i = Len(s)
    BY <1>3 DEF Placed
  <2>2. CASE i = 1
    BY <2>2, <1>1, <1>3
  <2>3. CASE i # 1
    <3>1. t[i] = s[i] /\ i \in 2..Len(s)
      BY <2>3, <1>2, <1>3
    <3>2. s[1].do # "init" /\ (s[i].do \in {"init", "write", "reseal"} => i = 1)
          /\ (s[i].do = "seal" => i = 1 \/ (i = 2 /\ s[1].do = "init"))
          /\ (s[i].do \in {"load", "reopen"} => i = Len(s))
      BY <2>1 DEF Placed
    <3> QED BY <2>3, <3>1, <3>2
  <2> QED BY <2>2, <2>3
<1> QED BY <1>1, <1>2, <1>3, <1>4

LEMMA Joined ==
  ASSUME NEW S, NEW s \in Seq(S), NEW u \in Seq(S)
  PROVE  /\ s \o u \in Seq(S) /\ Len(s \o u) = Len(s) + Len(u)
         /\ \A i \in 1..Len(s) : (s \o u)[i] = s[i]
         /\ \A i \in 1..Len(u) : (s \o u)[Len(s) + i] = u[i]
<1>1. Len(s) \in Nat /\ Len(u) \in Nat
  OBVIOUS
<1>2. /\ s \o u \in Seq(S) /\ Len(s \o u) = Len(s) + Len(u)
      /\ \A i \in 1..Len(s) + Len(u) : (s \o u)[i] = IF i <= Len(s) THEN s[i] ELSE u[i - Len(s)]
  BY ConcatProperties
<1> DEFINE t == s \o u
<1> HIDE DEF t
<1>3. \A i \in 1..Len(s) : t[i] = s[i]
  <2> SUFFICES ASSUME NEW i \in 1..Len(s) PROVE t[i] = s[i]
    OBVIOUS
  <2>1. i \in 1..Len(s) + Len(u) /\ i <= Len(s)
    BY <1>1
  <2> QED BY <1>2, <2>1 DEF t
<1>4. \A i \in 1..Len(u) : t[Len(s) + i] = u[i]
  <2> SUFFICES ASSUME NEW i \in 1..Len(u) PROVE t[Len(s) + i] = u[i]
    OBVIOUS
  <2>1. /\ Len(s) + i \in 1..Len(s) + Len(u) /\ ~(Len(s) + i <= Len(s))
        /\ (Len(s) + i) - Len(s) = i
    BY <1>1
  <2> QED BY <1>2, <2>1 DEF t
<1> QED BY <1>2, <1>3, <1>4 DEF t

LEMMA OneMore ==
  ASSUME NEW S, NEW s \in Seq(S), NEW e \in S
  PROVE  LET t == s \o <<e>>
         IN /\ t \in Seq(S) /\ Len(t) = Len(s) + 1 /\ t[Len(s) + 1] = e
            /\ \A i \in 1..Len(s) : t[i] = s[i]
<1>1. <<e>> \in Seq(S) /\ Len(<<e>>) = 1 /\ <<e>>[1] = e
  OBVIOUS
<1>2. PICK u \in Seq(S) : u = <<e>>
  BY <1>1
<1>3. Len(u) = 1 /\ u[1] = e
  BY <1>1, <1>2
<1>4. /\ s \o u \in Seq(S) /\ Len(s \o u) = Len(s) + Len(u)
      /\ \A i \in 1..Len(s) : (s \o u)[i] = s[i]
      /\ \A i \in 1..Len(u) : (s \o u)[Len(s) + i] = u[i]
  BY Joined
<1>5. s \o u = s \o <<e>>
  BY <1>2
<1> QED BY <1>3, <1>4, <1>5

LEMMA EmptySound == Sound(Empty)
<1>1. Empty \in Record
  BY DEF Empty, Record, Signer
<1>2. IsFiniteSet(Empty.cards)
  BY FS_EmptySet DEF Empty
<1> QED BY <1>1, <1>2 DEF Sound, DefaultAddress, Empty

\* A new handle and a box that is not there are of no vault.
LEMMA NoneTyped == NoHandle \in Handle /\ NoKey \in Key
  BY DEF NoHandle, NoKey, Handle, Key

\* The addresses that are left when the one at i is removed.
LEMMA RemoveAtKeeps ==
  ASSUME NEW s \in Seq(Address), NEW i \in 1..Len(s)
  PROVE  /\ RemoveAt(s, i) \in Seq(Address) /\ Len(RemoveAt(s, i)) = Len(s) - 1
         /\ \A j \in 1..Len(s) : j # i =>
              s[j] \in ToSet(RemoveAt(s, i))
<1> DEFINE l == SubSeq(s, 1, i - 1)
           r == SubSeq(s, i + 1, Len(s))
           t == RemoveAt(s, i)
<1>0. Len(s) \in Nat
  OBVIOUS
<1>1. l \in Seq(Address) /\ Len(l) = i - 1 /\ \A j \in 1..i - 1 : l[j] = s[j]
  BY <1>0, SubSeqProperties
<1>2. r \in Seq(Address) /\ Len(r) = Len(s) - i /\ \A j \in 1..Len(s) - i : r[j] = s[i + j]
  BY <1>0, SubSeqProperties
<1>3. /\ t \in Seq(Address) /\ Len(t) = Len(s) - 1
      /\ \A j \in 1..i - 1 : t[j] = s[j]
      /\ \A j \in i..Len(s) - 1 : t[j] = s[j + 1]
  <2> HIDE DEF l, r
  <2>1. t = l \o r
    BY DEF RemoveAt, l, r
  <2> HIDE DEF t
  <2>2. t \in Seq(Address) /\ Len(t) = Len(l) + Len(r) /\ \A j \in 1..Len(l) : t[j] = l[j]
    <3>1. /\ t \in Seq(Address) /\ Len(t) = Len(l) + Len(r)
          /\ \A j \in 1..Len(l) + Len(r) : t[j] = IF j <= Len(l) THEN l[j] ELSE r[j - Len(l)]
      BY <1>1, <1>2, <2>1, ConcatProperties, Zenon
    <3>2. Len(l) \in Nat /\ Len(r) \in Nat
      BY <1>1, <1>2
    <3> QED BY <3>1, <3>2
  <2>3. \A j \in 1..Len(r) : t[Len(l) + j] = r[j]
    BY <1>1, <1>2, <2>1
  <2>4. ASSUME NEW j \in i..Len(s) - 1 PROVE t[j] = s[j + 1]
    <3>1. PICK m \in 1..Len(r) : j = Len(l) + m /\ i + m = j + 1
      <4>1. j - i + 1 \in 1..Len(r) /\ j = Len(l) + (j - i + 1) /\ i + (j - i + 1) = j + 1
        BY <1>0, <1>1, <1>2
      <4> QED BY <4>1
    <3> QED BY <1>2, <2>3, <3>1
  <2>5. Len(t) = Len(s) - 1
    BY <1>0, <1>1, <1>2, <2>2
  <2> QED BY <1>1, <2>2, <2>4, <2>5
<1>4. \A j \in 1..Len(s) : j # i => s[j] \in ToSet(t)
  <2> SUFFICES ASSUME NEW j \in 1..Len(s), j # i PROVE \E m \in 1..Len(t) : t[m] = s[j]
    BY <1>3 DEF ToSet
  <2> HIDE DEF l, r, t
  <2>1. CASE j < i
    <3>1. j \in 1..Len(t) /\ t[j] = s[j]
      BY <2>1, <1>0, <1>3
    <3> QED BY <3>1
  <2>2. CASE j > i
    <3>1. j - 1 \in i..Len(s) - 1 /\ (j - 1) + 1 = j
      BY <2>2, <1>0
    <3>2. j - 1 \in 1..Len(t) /\ t[j - 1] = s[j]
      BY <3>1, <1>0, <1>3
    <3> QED BY <3>2
  <2> QED BY <1>0, <2>1, <2>2
<1> QED BY <1>3, <1>4

\* The default moves to the first address that is left, when the default goes.
LEMMA WithoutAddressSound ==
  ASSUME NEW r, Sound(r), NEW a \in ToSet(r.addresses)
  PROVE  Sound(WithoutAddress(a, r)) /\ WithoutAddress(a, r).addresses \in Seq(Address)
<1> DEFINE At(k) == k \in DOMAIN r.addresses /\ r.addresses[k] = a
           i == CHOOSE k \in DOMAIN r.addresses : r.addresses[k] = a
           left == RemoveAt(r.addresses, i)
           home == (r.home \ {a}) \cup (IF a \in r.home /\ left # <<>> THEN {Head(left)} ELSE {})
<1>0. r \in Record /\ r.addresses \in Seq(Address) /\ r.home \subseteq Address
  BY DEF Sound, Record
<1>1. \E k \in DOMAIN r.addresses : r.addresses[k] = a
  BY DEF ToSet
<1>2. i \in DOMAIN r.addresses /\ r.addresses[i] = a
  BY <1>1
<1>3. i \in 1..Len(r.addresses)
  <2> HIDE DEF i
  <2> QED BY <1>0, <1>2
<1>4. /\ left \in Seq(Address) /\ Len(left) = Len(r.addresses) - 1
      /\ \A j \in 1..Len(r.addresses) : j # i => r.addresses[j] \in ToSet(left)
  <2> HIDE DEF i
  <2> QED BY <1>0, <1>3, RemoveAtKeeps
<1>5. WithoutAddress(a, r) = [r EXCEPT !.addresses = left, !.home = home]
  BY DEF WithoutAddress
<1>6. home \subseteq Address /\ (left # <<>> => Head(left) \in ToSet(left) /\ Head(left) \in Address)
  <2>1. left # <<>> => Head(left) \in ToSet(left) /\ Head(left) \in Address
    <3> HIDE DEF left
    <3> QED BY <1>4 DEF ToSet
  <2> HIDE DEF left
  <2> QED BY <1>0, <2>1
<1>7. left # <<>> => \E b \in ToSet(left) : home = {b}
  <2> SUFFICES ASSUME left # <<>> PROVE \E b \in ToSet(left) : home = {b}
    OBVIOUS
  <2>1. PICK b \in ToSet(r.addresses) : r.home = {b}
    BY <1>3 DEF Sound, DefaultAddress
  <2>2. CASE b = a
    <3>1. home = {Head(left)}
      BY <2>1, <2>2
    <3> QED BY <1>6, <3>1
  <2>3. CASE b # a
    <3>1. home = {b}
      BY <2>1, <2>3
    <3>2. b \in ToSet(left)
      <4>1. PICK j \in DOMAIN r.addresses : r.addresses[j] = b
        BY DEF ToSet
      <4>2. j \in 1..Len(r.addresses) /\ j # i
        <5> HIDE DEF i
        <5> QED BY <1>0, <1>2, <2>3, <4>1
      <4> QED BY <1>4, <4>1, <4>2
    <3> QED BY <3>1, <3>2
  <2> QED BY <2>2, <2>3
<1> HIDE DEF left, home
<1>8. WithoutAddress(a, r) \in Record /\ WithoutAddress(a, r).addresses = left
      /\ WithoutAddress(a, r).home = home /\ WithoutAddress(a, r).cards = r.cards
      /\ WithoutAddress(a, r).default = r.default
  BY <1>0, <1>4, <1>5, <1>6 DEF Record
<1> QED BY <1>4, <1>7, <1>8 DEF Sound, DefaultAddress

LEMMA EditedSound ==
  ASSUME NEW r, Sound(r), NEW e \in AnyStep, e.do \in EditKind, ~Throws(e, r)
  PROVE  Sound(Edited(e, r))
<1>0. r \in Record /\ IsFiniteSet(r.cards) /\ r.default \subseteq r.cards /\ DefaultAddress(r)
  BY DEF Sound
<1>1. CASE e.do = "addCard"
  <2>1. e.id \in Card
    BY <1>1 DEF AnyStep, CardStep, AddressStep, SignerStep, PlainStep, ResealStep, ReopenStep
  <2>2. Edited(e, r) = [r EXCEPT !.cards = @ \cup {e.id},
                                 !.default = IF e.isDefault THEN @ \cup {e.id} ELSE @]
    BY <1>1 DEF Edited
  <2>3. Edited(e, r) \in Record /\ Edited(e, r).cards = r.cards \cup {e.id}
        /\ Edited(e, r).default \subseteq r.default \cup {e.id}
        /\ Edited(e, r).addresses = r.addresses /\ Edited(e, r).home = r.home
    <3>1. CASE e.isDefault
      <4>1. Edited(e, r) = [r EXCEPT !.cards = @ \cup {e.id}, !.default = @ \cup {e.id}]
        BY <2>2, <3>1, Zenon
      <4> QED BY <1>0, <2>1, <4>1 DEF Record
    <3>2. CASE ~e.isDefault
      <4>1. Edited(e, r) = [r EXCEPT !.cards = @ \cup {e.id}, !.default = @]
        BY <2>2, <3>2, Zenon
      <4> QED BY <1>0, <2>1, <4>1 DEF Record
    <3> QED BY <3>1, <3>2
  <2>4. IsFiniteSet(Edited(e, r).cards)
    BY <1>0, <2>3, FS_AddElement
  <2> QED BY <1>0, <2>3, <2>4 DEF Sound, DefaultAddress
<1>2. CASE e.do = "removeCard"
  <2>2. Edited(e, r) = [r EXCEPT !.cards = @ \ {e.id}, !.default = @ \ {e.id}]
    BY <1>2 DEF Edited
  <2>3. Edited(e, r) \in Record /\ Edited(e, r).cards = r.cards \ {e.id}
        /\ Edited(e, r).default = r.default \ {e.id}
        /\ Edited(e, r).addresses = r.addresses /\ Edited(e, r).home = r.home
    BY <1>0, <2>2 DEF Record
  <2>4. IsFiniteSet(Edited(e, r).cards)
    BY <1>0, <2>3, FS_RemoveElement
  <2> QED BY <1>0, <2>3, <2>4 DEF Sound, DefaultAddress
<1>3. CASE e.do = "addAddress"
  <2>1. e.id \in Address
    BY <1>3 DEF AnyStep, CardStep, AddressStep, SignerStep, PlainStep, ResealStep, ReopenStep
  <2> DEFINE n == Append(r.addresses, e.id)
             h == IF r.addresses = <<>> THEN {e.id} ELSE r.home
  <2>2. Edited(e, r) = [r EXCEPT !.addresses = n, !.home = h]
    BY <1>3 DEF Edited, WithAddress
  <2>3. r.addresses \in Seq(Address)
    BY <1>0 DEF Record
  <2>4. n \in Seq(Address) /\ ToSet(r.addresses) \subseteq ToSet(n) /\ e.id \in ToSet(n)
    <3>1. n \in Seq(Address) /\ Len(n) = Len(r.addresses) + 1 /\ n[Len(n)] = e.id
          /\ \A i \in 1..Len(r.addresses) : n[i] = r.addresses[i]
      BY <2>1, <2>3
    <3>2. DOMAIN n = 1..Len(n) /\ DOMAIN r.addresses = 1..Len(r.addresses) /\ Len(r.addresses) \in Nat
      BY <2>1, <2>3
    <3>3. Len(n) \in 1..Len(n) /\ 1..Len(r.addresses) \subseteq 1..Len(n)
      BY <3>1, <3>2
    <3> HIDE DEF n
    <3> QED BY <3>1, <3>2, <3>3 DEF ToSet
  <2>5. \E b \in ToSet(n) : h = {b}
    <3> HIDE DEF n
    <3> QED BY <1>0, <2>4 DEF DefaultAddress
  <2> HIDE DEF n, h
  <2>6. Edited(e, r) \in Record /\ Edited(e, r).cards = r.cards
        /\ Edited(e, r).default = r.default
        /\ Edited(e, r).addresses = n /\ Edited(e, r).home = h
    <3>1. h \subseteq Address
      BY <1>0, <2>1 DEF Record, h
    <3> QED BY <1>0, <2>2, <2>4, <3>1 DEF Record
  <2> QED BY <1>0, <2>5, <2>6 DEF Sound, DefaultAddress
<1>4. CASE e.do = "removeAddress"
  <2>1. e.id \in ToSet(r.addresses)
    BY <1>4 DEF Throws
  <2>2. Edited(e, r) = WithoutAddress(e.id, r)
    BY <1>4 DEF Edited
  <2> QED BY <2>1, <2>2, WithoutAddressSound
<1>5. CASE e.do = "setDefaultAddress"
  <2>1. e.id \in ToSet(r.addresses) /\ e.id \in Address
    BY <1>5 DEF Throws, AnyStep, CardStep, AddressStep, SignerStep, PlainStep, ResealStep, ReopenStep
  <2>2. Edited(e, r) = [r EXCEPT !.home = {e.id}]
    BY <1>5 DEF Edited
  <2>3. Edited(e, r) \in Record /\ Edited(e, r).cards = r.cards
        /\ Edited(e, r).default = r.default
        /\ Edited(e, r).addresses = r.addresses /\ Edited(e, r).home = {e.id}
    BY <1>0, <2>1, <2>2 DEF Record
  <2> QED BY <1>0, <2>1, <2>3 DEF Sound, DefaultAddress
<1>6. CASE e.do = "createMandateKey"
  <2>2. Edited(e, r) = [r EXCEPT !.mandateKey = TRUE]
    BY <1>6 DEF Edited
  <2>3. Edited(e, r) \in Record /\ Edited(e, r).cards = r.cards
        /\ Edited(e, r).default = r.default
        /\ Edited(e, r).addresses = r.addresses /\ Edited(e, r).home = r.home
    BY <1>0, <2>2 DEF Record
  <2> QED BY <1>0, <2>3 DEF Sound, DefaultAddress
<1>7. CASE e.do = "createUcpSigningKey"
  <2>1. e.id \in Signer
    BY <1>7 DEF Signer, AnyStep, CardStep, AddressStep, SignerStep, PlainStep, ResealStep, ReopenStep
  <2>2. Edited(e, r) = [r EXCEPT !.signer = e.id]
    BY <1>7 DEF Edited
  <2>3. Edited(e, r) \in Record /\ Edited(e, r).cards = r.cards
        /\ Edited(e, r).default = r.default
        /\ Edited(e, r).addresses = r.addresses /\ Edited(e, r).home = r.home
    BY <1>0, <2>1, <2>2 DEF Record
  <2> QED BY <1>0, <2>3 DEF Sound, DefaultAddress
<1> QED BY <1>1, <1>2, <1>3, <1>4, <1>5, <1>6, <1>7 DEF EditKind

(***************************************************************************)
(* Types                                                                   *)
(***************************************************************************)
LEMMA EndsTyped ==
  ASSUME CallsOK, NEW p \in Process, Ends(p)
  PROVE  CallsOK'
<1>1. /\ call' \in [Process -> {"none", "create", "edit", "export", "setDefault", "billing", "rotate"}]
      /\ \A q \in Process : q # p => call'[q] = call[q]
  BY DEF CallsOK, Ends
<1>2. record' \in [Process -> Record] /\ record'[p] = Empty
      /\ \A q \in Process : q # p => record'[q] = record[q]
  BY EmptySound DEF CallsOK, Ends, Sound
<1>3. todo' \in [Process -> Seq(AnyStep)] /\ todo'[p] = <<>>
      /\ \A q \in Process : q # p => todo'[q] = todo[q]
  <2> HIDE DEF AnyStep
  <2> QED BY DEF CallsOK, Ends
<1>4. Placed(<<>>)
  BY DEF Placed
<1>5. ASSUME NEW q \in Process PROVE (Sound(record[q]) /\ Placed(todo[q]) /\ (Idle(q) => todo[q] = <<>>))'
  <2>1. CASE q = p
    BY <1>2, <1>3, <1>4, <2>1, EmptySound
  <2>2. CASE q # p
    BY <1>1, <1>2, <1>3, <2>2 DEF CallsOK, Idle
  <2> QED BY <2>1, <2>2
<1> QED BY <1>1, <1>2, <1>3, <1>5 DEF CallsOK

LEMMA DoneTyped ==
  ASSUME CallsOK, NEW p \in Process, todo[p] # <<>>, Done1(p), UNCHANGED <<call, record>>
  PROVE  CallsOK'
<1>1. todo[p] \in Seq(AnyStep) /\ Placed(todo[p]) /\ ~Idle(p)
  BY DEF CallsOK
<1>2. Tail(todo[p]) \in Seq(AnyStep) /\ Placed(Tail(todo[p]))
  BY <1>1, TailOfSteps, TailPlaced
<1>3. todo' \in [Process -> Seq(AnyStep)] /\ todo'[p] = Tail(todo[p])
      /\ \A q \in Process : q # p => todo'[q] = todo[q]
  <2> HIDE DEF AnyStep
  <2> QED BY <1>2 DEF CallsOK, Done1
<1>5. ASSUME NEW q \in Process PROVE (Sound(record[q]) /\ Placed(todo[q]) /\ (Idle(q) => todo[q] = <<>>))'
  <2>1. CASE q = p
    BY <1>1, <1>2, <1>3, <2>1 DEF CallsOK, Idle
  <2>2. CASE q # p
    BY <1>3, <2>2 DEF CallsOK, Idle
  <2> QED BY <2>1, <2>2
<1> QED BY <1>3, <1>5 DEF CallsOK

LEMMA NextTyped ==
  ASSUME CallsOK, NEW p \in Process, todo[p] # <<>>, Next1(p)
  PROVE  CallsOK'
  BY EndsTyped, DoneTyped DEF Next1

\* A call begins with steps that are placed as they should be.
LEMMA BeginsTyped ==
  ASSUME CallsOK, tainted \in BOOLEAN, NEW p \in Process,
         NEW what \in {"create", "edit", "export", "setDefault", "billing", "rotate"},
         NEW steps \in Seq(AnyStep), Placed(steps), NEW should, Begins(p, what, steps, should),
         record' \in [Process -> Record],
         \A q \in Process : Sound(record'[q])
  PROVE  CallsOK' /\ tainted' \in BOOLEAN
<1>1. /\ call' \in [Process -> {"none", "create", "edit", "export", "setDefault", "billing", "rotate"}]
      /\ call'[p] = what /\ \A q \in Process : q # p => call'[q] = call[q]
  BY DEF CallsOK, Begins
<1>3. todo' \in [Process -> Seq(AnyStep)] /\ todo'[p] = steps
      /\ \A q \in Process : q # p => todo'[q] = todo[q]
  <2> HIDE DEF AnyStep
  <2> QED BY DEF CallsOK, Begins
<1>4. what # "none"
  OBVIOUS
<1>5. ASSUME NEW q \in Process PROVE (Placed(todo[q]) /\ (Idle(q) => todo[q] = <<>>))'
  <2>1. CASE q = p
    BY <1>1, <1>3, <1>4, <2>1 DEF Idle
  <2>2. CASE q # p
    BY <1>1, <1>3, <2>2 DEF CallsOK, Idle
  <2> QED BY <2>1, <2>2
<1>6. tainted' \in BOOLEAN
  BY DEF Begins
<1> QED BY <1>1, <1>3, <1>5, <1>6 DEF CallsOK

LEMMA ThrowTyped ==
  ASSUME TypeOK, NEW p \in Process, Throw(p)
  PROVE  CallsOK' /\ BoxOK' /\ HandlesOK' /\ tainted' \in BOOLEAN
<1>1. CallsOK'
  BY EndsTyped DEF Throw, WentWrong, TypeOK
<1>2. box' = box \/ box' = NoBox
  BY DEF Throw, WentWrong
<1>3. BoxOK'
  <2>1. NoBox \in [uuid : Nat, salt : Nat, key : Key, record : Record] /\ NoBox.record = Empty
    BY EmptySound, NoneTyped DEF NoBox, Sound
  <2> QED BY <1>2, <2>1, EmptySound DEF BoxOK, TypeOK
<1>4. HandlesOK'
  <2>1. handle' = handle \/ handle' = [handle EXCEPT ![p] = NoHandle]
    BY DEF Throw, WentWrong
  <2> QED BY <2>1, NoneTyped DEF HandlesOK, TypeOK
<1> QED BY <1>1, <1>3, <1>4 DEF Throw, WentWrong

\* What a creation does, one by one.
LEMMA CreateStepsAre ==
  ASSUME VaultAssumption, NEW opts \in {{}, {"keys", "recovery"}}
  PROVE  LET s == CreateSteps(opts)
         IN /\ s \in Seq(AnyStep)
            /\ s[1] = Step("init") /\ s[2] = Step("seal") /\ s[3] = Step("policy")
            /\ s[4] = addCard(FirstCard, TRUE) /\ s[5] = addAddress(FirstAddress)
            /\ s[6] = setDefaultAddress(FirstAddress)
            /\ IF opts = {} THEN Len(s) = 7 /\ s[7] = Step("load")
               ELSE /\ Len(s) = 10 /\ s[7] = createMandateKey
                    /\ s[8] = createUcpSigningKey("ES256")
                    /\ s[9] = Step("recovery") /\ s[10] = Step("load")
<1> DEFINE s == CreateSteps(opts)
           i == Step("init")
           b == Step("seal")
           l == Step("policy")
           c == addCard(FirstCard, TRUE)
           a == addAddress(FirstAddress)
           d == setDefaultAddress(FirstAddress)
           m == createMandateKey
           u == createUcpSigningKey("ES256")
           r == Step("recovery")
           o == Step("load")
<1>1. /\ i \in AnyStep /\ b \in AnyStep /\ l \in AnyStep /\ r \in AnyStep /\ o \in AnyStep
      /\ m \in AnyStep
  BY DEF Step, Edit, createMandateKey, AnyStep, PlainStep
<1>2. c \in AnyStep
  BY DEF VaultAssumption, addCard, AnyStep, CardStep
<1>3. a \in AnyStep /\ d \in AnyStep
  BY DEF VaultAssumption, addAddress, setDefaultAddress, Edit, AnyStep, AddressStep
<1>4. u \in AnyStep
  BY DEF VaultAssumption, createUcpSigningKey, Edit, AnyStep, SignerStep
<1>5. s = <<i, b, l, c, a, d>> \o (IF "keys" \in opts THEN <<m, u>> ELSE <<>>)
            \o (IF "recovery" \in opts THEN <<r>> ELSE <<>>) \o <<o>>
  BY DEF CreateSteps
<1> HIDE DEF s, i, b, l, c, a, d, m, u, r, o, AnyStep
<1>6. CASE opts = {}
  <2>1. s = <<i, b, l, c, a, d>> \o <<>> \o <<>> \o <<o>>
    BY <1>5, <1>6
  <2>2. s \in Seq(AnyStep) /\ Len(s) = 7 /\ s[1] = i /\ s[2] = b /\ s[3] = l /\ s[4] = c
        /\ s[5] = a /\ s[6] = d /\ s[7] = o
    BY <1>1, <1>2, <1>3, <1>4, <2>1
  <2> QED BY <1>6, <2>2 DEF s, i, b, l, c, a, d, o
<1>7. CASE opts = {"keys", "recovery"}
  <2>1. s = <<i, b, l, c, a, d>> \o <<m, u>> \o <<r>> \o <<o>>
    BY <1>5, <1>7
  <2>2. s \in Seq(AnyStep) /\ Len(s) = 10 /\ s[1] = i /\ s[2] = b /\ s[3] = l /\ s[4] = c
        /\ s[5] = a /\ s[6] = d /\ s[7] = m /\ s[8] = u /\ s[9] = r /\ s[10] = o
    <3>1. PICK x : x = <<i, b, l, c, a, d>> \o <<m, u>>
      OBVIOUS
    <3>2. x \in Seq(AnyStep) /\ Len(x) = 8 /\ x[1] = i /\ x[2] = b /\ x[3] = l /\ x[4] = c
          /\ x[5] = a /\ x[6] = d /\ x[7] = m /\ x[8] = u
      BY <1>1, <1>2, <1>3, <1>4, <3>1
    <3>3. PICK y : y = x \o <<r>>
      OBVIOUS
    <3>4. y \in Seq(AnyStep) /\ Len(y) = 9 /\ y[9] = r /\ \A k \in 1..8 : y[k] = x[k]
      <4>1. /\ y \in Seq(AnyStep) /\ Len(y) = Len(x) + 1 /\ y[Len(x) + 1] = r
            /\ \A k \in 1..Len(x) : y[k] = x[k]
        <5>1. x \in Seq(AnyStep) /\ r \in AnyStep
          BY <1>1, <3>2
        <5> QED BY <3>3, <5>1, OneMore
      <4> QED BY <3>2, <4>1
    <3>5. s = y \o <<o>>
      BY <2>1, <3>1, <3>3
    <3>6. s \in Seq(AnyStep) /\ Len(s) = 10 /\ s[10] = o /\ \A k \in 1..9 : s[k] = y[k]
      <4>1. /\ s \in Seq(AnyStep) /\ Len(s) = Len(y) + 1 /\ s[Len(y) + 1] = o
            /\ \A k \in 1..Len(y) : s[k] = y[k]
        <5>1. y \in Seq(AnyStep) /\ o \in AnyStep
          BY <1>1, <3>4
        <5> QED BY <3>5, <5>1, OneMore
      <4> QED BY <3>4, <4>1
    <3> QED BY <3>2, <3>4, <3>6
  <2>3. opts # {}
    BY <1>7
  <2> QED BY <2>2, <2>3 DEF s, i, b, l, c, a, d, m, u, r, o
<1> QED BY <1>6, <1>7

LEMMA CreateStepsPlaced ==
  ASSUME VaultAssumption, NEW opts \in {{}, {"keys", "recovery"}}
  PROVE  Placed(CreateSteps(opts))
<1> DEFINE s == CreateSteps(opts)
<1>0. Step("load").do = "load"
  BY DEF Step, Edit
<1>1. PICK n \in {7, 10} : Len(s) = n /\ s[n].do = "load" /\ (n = 10 => opts # {})
  <2>1. CASE opts = {}
    <3>1. Len(s) = 7 /\ s[7].do = "load"
      BY <1>0, <2>1, CreateStepsAre
    <3> HIDE DEF s
    <3> QED BY <3>1
  <2>2. CASE opts # {}
    <3>1. Len(s) = 10 /\ s[10].do = "load"
      BY <1>0, <2>2, CreateStepsAre
    <3> HIDE DEF s
    <3> QED BY <2>2, <3>1
  <2> QED BY <2>1, <2>2
<1>2. /\ s[1].do = "init" /\ s[2].do = "seal" /\ s[3].do = "policy" /\ s[4].do = "addCard"
      /\ s[5].do = "addAddress" /\ s[6].do = "setDefaultAddress"
      /\ n = 10 => s[7].do = "createMandateKey" /\ s[8].do = "createUcpSigningKey"
                   /\ s[9].do = "recovery"
  <2>1. s[1] = Step("init") /\ s[2] = Step("seal") /\ s[3] = Step("policy")
        /\ s[4] = addCard(FirstCard, TRUE) /\ s[5] = addAddress(FirstAddress)
        /\ s[6] = setDefaultAddress(FirstAddress)
        /\ (opts # {} => /\ s[7] = createMandateKey /\ s[8] = createUcpSigningKey("ES256")
                         /\ s[9] = Step("recovery"))
    BY CreateStepsAre
  <2> HIDE DEF s
  <2> QED BY <1>1, <2>1
     DEF Step, addCard, addAddress, setDefaultAddress, createMandateKey, createUcpSigningKey, Edit
<1> HIDE DEF s
<1> SUFFICES ASSUME NEW i \in 1..n
             PROVE  /\ s[i].do \in {"init", "write", "reseal"} => i = 1
                    /\ s[i].do = "seal" => i = 1 \/ (i = 2 /\ s[1].do = "init")
                    /\ s[i].do \in {"load", "reopen"} => i = n
  BY <1>1 DEF Placed, s
<1>3. i = 1 \/ i = 2 \/ i = 3 \/ i = 4 \/ i = 5 \/ i = 6 \/ (n = 10 /\ i = 7) \/ (n = 10 /\ i = 8)
      \/ (n = 10 /\ i = 9) \/ i = n
  OBVIOUS
<1> QED BY <1>1, <1>2, <1>3

\* The cards of a record, one after the other.
LEMMA CardsInSequence ==
  ASSUME NEW S, IsFiniteSet(S)
  PROVE  LET s == SetToSeq(S)
         IN /\ Cardinality(S) \in Nat /\ s \in [1..Cardinality(S) -> S] /\ s \in Seq(S)
            /\ Len(s) = Cardinality(S)
            /\ \A i, j \in 1..Cardinality(S) : s[i] = s[j] => i = j
            /\ \A x \in S : \E i \in 1..Cardinality(S) : s[i] = x
<1> DEFINE n == Cardinality(S)
           s == SetToSeq(S)
<1>1. n \in Nat /\ ExistsBijection(1..n, S)
  BY FS_CardinalityType
<1>2. PICK f \in [1..n -> S] : IsInjective(f)
  BY <1>1 DEF ExistsBijection, Bijection, Injection
<1>3. s \in [1..n -> S] /\ IsInjective(s)
  BY <1>2 DEF SetToSeq
<1> HIDE DEF s
<1>4. \A i, j \in 1..n : s[i] = s[j] => i = j
  BY <1>3 DEF IsInjective
<1>5. s \in Injection(1..n, S)
  BY <1>3, <1>4 DEF Injection
<1>6. Cardinality(1..n) = n
  BY <1>1, FS_Interval
<1>7. s \in Surjection(1..n, S)
  BY <1>5, <1>6, FS_Injection
<1>8. \A x \in S : \E i \in 1..n : s[i] = x
  BY <1>7 DEF Surjection
<1>9. s \in Seq(S) /\ Len(s) = n
  BY <1>1, <1>3
<1> QED BY <1>1, <1>3, <1>4, <1>8, <1>9 DEF s

\* Choosing a default removes each card there is and adds each again.
LEMMA SetDefaultStepsAre ==
  ASSUME NEW r, Sound(r), NEW c
  PROVE  LET s == setDefaultCard(c, r)
             x == SetToSeq(r.cards)
             n == Cardinality(r.cards)
         IN /\ n \in Nat /\ s \in Seq(AnyStep) /\ Len(s) = n + n /\ Placed(s)
            /\ \A i \in 1..n : /\ s[i] = removeCard(x[i])
                               /\ s[n + i] = addCard(x[i], x[i] = c)
<1> DEFINE x == SetToSeq(r.cards)
           n == Cardinality(r.cards)
           s == setDefaultCard(c, r)
           out == [i \in DOMAIN x |-> removeCard(x[i])]
           in == [i \in DOMAIN x |-> addCard(x[i], nextDefaultTags(x[i], c, r))]
<1>1. n \in Nat /\ x \in Seq(r.cards) /\ Len(x) = n /\ DOMAIN x = 1..n /\ \A i \in 1..n : x[i] \in Card
  <2>1. r.cards \subseteq Card /\ IsFiniteSet(r.cards)
    BY DEF Sound, Record
  <2>2. n \in Nat /\ x \in [1..n -> r.cards] /\ Len(x) = n /\ x \in Seq(r.cards)
    BY <2>1, CardsInSequence
  <2> HIDE DEF n, x
  <2> QED BY <2>1, <2>2
<1> HIDE DEF x, n
<1>2. \A i \in 1..n : out[i] \in AnyStep /\ in[i] \in AnyStep
  BY <1>1 DEF removeCard, Edit, addCard, nextDefaultTags, AnyStep, CardStep
<1>3. out \in Seq(AnyStep) /\ in \in Seq(AnyStep) /\ Len(out) = n /\ Len(in) = n
  <2>1. out \in [1..n -> AnyStep] /\ in \in [1..n -> AnyStep]
    <3>1. \A i \in 1..n : /\ removeCard(x[i]) \in AnyStep
                          /\ addCard(x[i], nextDefaultTags(x[i], c, r)) \in AnyStep
      BY <1>1 DEF removeCard, Edit, addCard, nextDefaultTags, AnyStep, CardStep
    <3> HIDE DEF AnyStep
    <3> QED BY <1>1, <3>1
  <2> HIDE DEF out, in, AnyStep
  <2> QED BY <1>1, <2>1
<1>4. s = out \o in
  BY DEF setDefaultCard, x
<1>5. \A i \in 1..n : out[i] = removeCard(x[i]) /\ in[i] = addCard(x[i], x[i] = c)
  BY <1>1 DEF nextDefaultTags
<1> HIDE DEF out, in, s
<1>6. /\ s \in Seq(AnyStep) /\ Len(s) = n + n
      /\ \A i \in 1..n : s[i] = out[i]
      /\ \A i \in 1..n : s[n + i] = in[i]
  <2>1. /\ s \in Seq(AnyStep) /\ Len(s) = Len(out) + Len(in)
        /\ \A i \in 1..Len(out) : s[i] = out[i]
        /\ \A i \in 1..Len(in) : s[Len(out) + i] = in[i]
    <3>1. out \in Seq(AnyStep) /\ in \in Seq(AnyStep)
      BY <1>3
    <3> HIDE DEF AnyStep
    <3> QED BY <1>4, <3>1, Joined
  <2>2. Len(out) = n /\ Len(in) = n
    BY <1>3
  <2> HIDE DEF AnyStep
  <2> QED BY <2>1, <2>2
<1>8. \A i \in 1..n + n : s[i].do \in {"addCard", "removeCard"}
  <2> SUFFICES ASSUME NEW i \in 1..n + n PROVE s[i].do \in {"addCard", "removeCard"}
    OBVIOUS
  <2>1. CASE i <= n
    <3>1. i \in 1..n
      BY <1>1, <2>1
    <3>2. s[i] = removeCard(x[i])
      BY <1>5, <1>6, <3>1
    <3> QED BY <3>2 DEF removeCard, Edit
  <2>2. CASE ~(i <= n)
    <3>1. PICK j \in 1..n : i = n + j
      <4>1. i - n \in 1..n /\ i = n + (i - n)
        BY <1>1, <2>2
      <4> QED BY <4>1
    <3>2. s[i] = addCard(x[j], x[j] = c)
      BY <1>5, <1>6, <3>1
    <3> QED BY <3>2 DEF addCard
  <2> QED BY <2>1, <2>2
<1>9. Placed(s)
  BY <1>6, <1>8 DEF Placed
<1> QED BY <1>1, <1>5, <1>6, <1>9 DEF s, n, x

\* What the head of a call's steps is.
LEMMA HeadOfCall ==
  ASSUME TypeOK, NEW p \in Process, todo[p] # <<>>
  PROVE  /\ Head(todo[p]) = todo[p][1] /\ todo[p][1] \in AnyStep /\ todo[p] \in Seq(AnyStep)
         /\ Placed(todo[p]) /\ ~Idle(p)
  BY TailOfSteps DEF TypeOK, CallsOK

LEMMA InitTyped == ASSUME VaultAssumption, Init PROVE TypeOK
<1>1. NoBox \in [uuid : Nat, salt : Nat, key : Key, record : Record] /\ NoBox.record = Empty
  BY EmptySound, NoneTyped DEF NoBox, Sound
<1>2. BoxOK
  BY <1>1, EmptySound DEF Init, BoxOK
<1>3. KeptOK
  BY NoneTyped DEF Init, KeptOK, NoRecovery
<1>4. CallsOK
  <2>1. todo \in [Process -> Seq(AnyStep)] /\ \A p \in Process : todo[p] = <<>>
    <3> HIDE DEF AnyStep
    <3> QED BY DEF Init
  <2>2. Placed(<<>>) /\ Empty \in Record
    BY EmptySound DEF Placed, Sound
  <2> QED BY <2>1, <2>2, EmptySound DEF Init, CallsOK
<1>5. HandlesOK
  BY NoneTyped DEF Init, HandlesOK
<1>6. MaxFresh \in Nat
  BY DEF VaultAssumption
<1>7. fresh \in 0..MaxFresh /\ tainted \in BOOLEAN
  <2>1. fresh = 0 /\ tainted \in BOOLEAN
    BY Zenon DEF Init
  <2> QED BY <1>6, <2>1
<1> QED BY <1>2, <1>3, <1>4, <1>5, <1>7 DEF TypeOK

LEMMA MadeKeyTyped ==
  ASSUME NEW n \in Nat, NEW s \in Password \cup {"keychain"}
  PROVE  createMasterKey(n, s).salt \in Nat /\ createMasterKey(n, s).key \in Key
  BY DEF createMasterKey, derivePasswordKey, Key

LEMMA CreateTyped ==
  ASSUME VaultAssumption, TypeOK, NEW p \in Process, NEW s \in Password \cup {"keychain"},
         NEW overwrite \in BOOLEAN, NEW opts \in {{}, {"keys", "recovery"}},
         create(p, s, overwrite, opts)
  PROVE  TypeOK'
<1>1. CallsOK' /\ tainted' \in BOOLEAN
  <2>1. Begins(p, "create", CreateSteps(opts), CreatedRecord(opts)) /\ record' = record
    BY DEF create
  <2>2. CreateSteps(opts) \in Seq(AnyStep) /\ Placed(CreateSteps(opts))
    BY CreateStepsAre, CreateStepsPlaced
  <2>3. CallsOK /\ tainted \in BOOLEAN /\ record' \in [Process -> Record]
        /\ \A q \in Process : Sound(record'[q])
    BY <2>1 DEF TypeOK, CallsOK
  <2> QED BY <2>1, <2>2, <2>3, BeginsTyped
<1>2. BoxOK'
  <2>1. box' = NoBox \/ box' = box
    BY DEF create
  <2>2. NoBox \in [uuid : Nat, salt : Nat, key : Key, record : Record] /\ NoBox.record = Empty
    BY EmptySound, NoneTyped DEF NoBox, Sound
  <2> QED BY <2>1, <2>2, EmptySound DEF TypeOK, BoxOK
<1>3. HandlesOK'
  <2>1. fresh + 1 \in Nat
    BY DEF TypeOK, VaultAssumption
  <2>2. PICK made : made = createMasterKey(fresh + 1, s)
    OBVIOUS
  <2>3. made.salt \in Nat /\ made.key \in Key
    BY <2>1, <2>2, MadeKeyTyped
  <2>4. handle' = [handle EXCEPT ![p] =
          [uuid |-> fresh + 1, salt |-> made.salt, key |-> made.key, open |-> FALSE]]
    BY <2>2 DEF create
  <2> QED BY <2>1, <2>3, <2>4 DEF TypeOK, HandlesOK, Handle
<1> QED BY <1>1, <1>2, <1>3 DEF create, TypeOK, KeptOK, VaultAssumption

LEMMA InitKeyTyped ==
  ASSUME TypeOK, NEW p \in Process, initKey(p)
  PROVE  TypeOK'
<1>1. CASE box # NoBox
  BY <1>1, ThrowTyped DEF initKey, TypeOK, KeptOK
<1>2. CASE box = NoBox
  <2>1. CallsOK'
    BY <1>2, DoneTyped DEF initKey, TypeOK, Head1
  <2>2. KeptOK'
    BY <1>2 DEF initKey, TypeOK, KeptOK, HandlesOK, Handle
  <2> QED BY <1>2, <2>1, <2>2 DEF initKey, TypeOK, BoxOK, HandlesOK
<1> QED BY <1>1, <1>2

LEMMA SealedTyped ==
  ASSUME TypeOK, NEW p \in Process, NEW r, Sound(r)
  PROVE  /\ Sealed(p, r) \in [uuid : Nat, salt : Nat, key : Key, record : Record]
         /\ Sealed(p, r).record = r /\ Sealed(p, r).uuid = handle[p].uuid
         /\ Sealed(p, r).salt = handle[p].salt /\ Sealed(p, r).key = handle[p].key
  BY DEF Sealed, packVaultBox, TypeOK, HandlesOK, Handle, Sound

LEMMA InitBoxTyped ==
  ASSUME TypeOK, NEW p \in Process, initBox(p)
  PROVE  TypeOK'
<1>1. BoxOK'
  BY SealedTyped, EmptySound DEF initBox, BoxOK
<1>2. HandlesOK'
  BY DEF initBox, TypeOK, HandlesOK, Handle
<1>3. CallsOK'
  BY DoneTyped DEF initBox, TypeOK, Head1
<1> QED BY <1>1, <1>2, <1>3 DEF initBox, TypeOK, KeptOK

LEMMA WritePolicyTyped ==
  ASSUME TypeOK, NEW p \in Process, writePolicy(p)
  PROVE  TypeOK'
<1>1. CASE policy
  BY <1>1, ThrowTyped DEF writePolicy, TypeOK, KeptOK
<1>2. CASE ~policy
  <2>1. CallsOK'
    BY <1>2, DoneTyped DEF writePolicy, TypeOK, Head1
  <2> QED BY <1>2, <2>1 DEF writePolicy, TypeOK, KeptOK, BoxOK, HandlesOK
<1> QED BY <1>1, <1>2

LEMMA RecoveryTyped ==
  ASSUME TypeOK, NEW p \in Process, exportRecovery(p)
  PROVE  TypeOK'
<1>1. CASE recovery # NoRecovery
  <2>1. Throw(p) /\ UNCHANGED <<keychain, recovery, fresh>>
    BY <1>1 DEF exportRecovery
  <2> QED BY <2>1, ThrowTyped DEF TypeOK, KeptOK
<1>2. CASE recovery = NoRecovery
  <2>1. CallsOK'
    BY <1>2, NextTyped DEF exportRecovery, TypeOK, Head1
  <2>2. PICK password \in Password :
          recovery' = [uuid |-> handle[p].uuid, key |-> handle[p].key, password |-> password]
    BY <1>2 DEF exportRecovery
  <2>3. KeptOK'
    <3>1. handle[p].uuid \in Nat /\ handle[p].key \in Key
      BY DEF TypeOK, HandlesOK, Handle
    <3> QED BY <2>2, <3>1 DEF exportRecovery, TypeOK, KeptOK
  <2> QED BY <1>2, <2>1, <2>3 DEF exportRecovery, TypeOK, BoxOK, HandlesOK
<1> QED BY <1>1, <1>2

LEMMA LoadTyped ==
  ASSUME TypeOK, NEW p \in Process, loadWalletPolicy(p)
  PROVE  TypeOK'
<1>1. CASE ~policy
  BY <1>1, ThrowTyped DEF loadWalletPolicy, TypeOK, KeptOK
<1>2. CASE policy
  <2>1. CallsOK'
    BY <1>2, EndsTyped DEF loadWalletPolicy, TypeOK
  <2> QED BY <1>2, <2>1 DEF loadWalletPolicy, TypeOK, KeptOK, BoxOK, HandlesOK
<1> QED BY <1>1, <1>2

LEMMA ReadTyped ==
  ASSUME TypeOK, NEW p \in Process, readCurrentRecord(p)
  PROVE  TypeOK'
<1> DEFINE e == Head(todo[p])
<1>0. todo[p] # <<>> /\ e.do \in EditKind /\ e \in AnyStep /\ e = todo[p][1]
      /\ todo[p] \in Seq(AnyStep) /\ Placed(todo[p]) /\ ~Idle(p)
      /\ UNCHANGED <<keychain, recovery, fresh>>
  BY HeadOfCall DEF readCurrentRecord
<1>1. CASE box = NoBox \/ box.key # handle[p].key \/ Throws(e, box.record)
  <2>1. Throw(p)
    BY <1>1 DEF readCurrentRecord
  <2> QED BY <1>0, <2>1, ThrowTyped DEF TypeOK, KeptOK
<1>2. CASE ~(box = NoBox \/ box.key # handle[p].key \/ Throws(e, box.record)) /\ Keeps(e, box.record)
  <2>1. Next1(p) /\ UNCHANGED <<box, handle, tainted>>
    BY <1>2 DEF readCurrentRecord
  <2>2. CallsOK'
    BY <1>0, <2>1, NextTyped DEF TypeOK
  <2> QED BY <1>0, <2>1, <2>2 DEF TypeOK, KeptOK, BoxOK, HandlesOK
<1>3. CASE ~(box = NoBox \/ box.key # handle[p].key \/ Throws(e, box.record)) /\ ~Keeps(e, box.record)
  <2>1. /\ record' = [record EXCEPT ![p] = Edited(e, box.record)]
        /\ todo' = [todo EXCEPT ![p] = <<Step("write")>> \o Tail(@)]
        /\ UNCHANGED <<box, handle, call, tainted>>
    BY <1>3 DEF readCurrentRecord
  <2>2. Sound(Edited(e, box.record))
    BY <1>0, <1>3, EditedSound DEF TypeOK, BoxOK
  <2>3. record' \in [Process -> Record] /\ \A q \in Process : Sound(record'[q])
    <3> HIDE DEF e
    <3> QED BY <2>1, <2>2 DEF TypeOK, CallsOK, Sound
  <2>4. PICK t : t = <<Step("write")>> \o Tail(todo[p])
    OBVIOUS
  <2>5. t \in Seq(AnyStep) /\ Placed(t)
    BY <1>0, <2>4, WriteFirst
  <2>6. todo' \in [Process -> Seq(AnyStep)] /\ todo'[p] = t
        /\ \A q \in Process : q # p => todo'[q] = todo[q]
    <3>1. todo' = [todo EXCEPT ![p] = t]
      BY <2>1, <2>4
    <3> HIDE DEF AnyStep
    <3> QED BY <2>5, <3>1 DEF TypeOK, CallsOK
  <2>7. ASSUME NEW q \in Process PROVE (Placed(todo[q]) /\ (Idle(q) => todo[q] = <<>>))'
    <3>1. CASE q = p
      BY <1>0, <2>1, <2>5, <2>6, <3>1 DEF Idle
    <3>2. CASE q # p
      BY <2>1, <2>6, <3>2 DEF TypeOK, CallsOK, Idle
    <3> QED BY <3>1, <3>2
  <2>8. CallsOK'
    BY <2>1, <2>3, <2>6, <2>7 DEF TypeOK, CallsOK
  <2> QED BY <1>0, <2>1, <2>8 DEF TypeOK, KeptOK, BoxOK, HandlesOK
<1> QED BY <1>1, <1>2, <1>3

LEMMA WriteTyped ==
  ASSUME TypeOK, NEW p \in Process, writeCurrentRecord(p)
  PROVE  TypeOK'
<1>1. BoxOK'
  BY SealedTyped DEF writeCurrentRecord, BoxOK, TypeOK, CallsOK
<1>2. CallsOK'
  BY NextTyped DEF writeCurrentRecord, TypeOK, Head1
<1> QED BY <1>1, <1>2 DEF writeCurrentRecord, TypeOK, KeptOK, HandlesOK

LEMMA OpenTyped ==
  ASSUME TypeOK, NEW p \in Process, NEW s, open(p, s)
  PROVE  TypeOK'
  BY DEF open, TypeOK, KeptOK, BoxOK, CallsOK, Idle, HandlesOK, Handle

LEMMA CloseTyped ==
  ASSUME TypeOK, NEW p \in Process, close(p)
  PROVE  TypeOK'
  BY NoneTyped DEF close, TypeOK, KeptOK, BoxOK, CallsOK, Idle, HandlesOK

LEMMA OneStep ==
  ASSUME NEW e \in AnyStep, e.do # "init"
  PROVE  <<e>> \in Seq(AnyStep) /\ Placed(<<e>>)
<1>1. <<e>> \in Seq(AnyStep) /\ Len(<<e>>) = 1 /\ <<e>>[1] = e
  <2> HIDE DEF AnyStep
  <2> QED OBVIOUS
<1>2. \A i \in 1..Len(<<e>>) : i = 1
  BY <1>1
<1> QED BY <1>1, <1>2 DEF Placed

\* A maintenance call of one edit or of a few steps.
LEMMA BegunTyped ==
  ASSUME TypeOK, NEW p \in Process,
         NEW what \in {"create", "edit", "export", "setDefault", "billing", "rotate"},
         NEW steps \in Seq(AnyStep), Placed(steps), NEW should, Begins(p, what, steps, should),
         UNCHANGED <<box, keychain, recovery, handle, record, fresh>>
  PROVE  TypeOK'
<1>1. CallsOK /\ tainted \in BOOLEAN /\ record' \in [Process -> Record]
      /\ \A q \in Process : Sound(record'[q])
  BY DEF TypeOK, CallsOK
<1>2. CallsOK' /\ tainted' \in BOOLEAN
  BY <1>1, BeginsTyped
<1> QED BY <1>2 DEF TypeOK, KeptOK, BoxOK, HandlesOK

LEMMA EditTyped ==
  ASSUME TypeOK, NEW p \in Process, NEW e \in AnyStep, e.do # "init", edit(p, e)
  PROVE  TypeOK'
<1>1. PICK should : Begins(p, "edit", <<e>>, should)
                    /\ UNCHANGED <<box, keychain, recovery, handle, record, fresh>>
  BY DEF edit
<1>2. <<e>> \in Seq(AnyStep) /\ Placed(<<e>>)
  BY OneStep
<1> QED BY <1>1, <1>2, BegunTyped

LEMMA EditsAreSteps ==
  /\ \A c \in Card, d \in BOOLEAN : addCard(c, d) \in AnyStep /\ addCard(c, d).do = "addCard"
  /\ \A c \in Card : removeCard(c) \in AnyStep /\ removeCard(c).do = "removeCard"
  /\ \A a \in Address :
       /\ addAddress(a) \in AnyStep /\ addAddress(a).do = "addAddress"
       /\ removeAddress(a) \in AnyStep /\ removeAddress(a).do = "removeAddress"
       /\ setDefaultAddress(a) \in AnyStep /\ setDefaultAddress(a).do = "setDefaultAddress"
  /\ createMandateKey \in AnyStep /\ createMandateKey.do = "createMandateKey"
  /\ \A algorithm \in Algorithm :
       /\ createUcpSigningKey(algorithm) \in AnyStep
       /\ createUcpSigningKey(algorithm).do = "createUcpSigningKey"
<1>1. \A c \in Card, d \in BOOLEAN : addCard(c, d) \in AnyStep /\ addCard(c, d).do = "addCard"
  BY DEF addCard, AnyStep, CardStep
<1>2. \A c \in Card : removeCard(c) \in AnyStep /\ removeCard(c).do = "removeCard"
  BY DEF removeCard, Edit, AnyStep, CardStep
<1>3. \A a \in Address :
       /\ addAddress(a) \in AnyStep /\ addAddress(a).do = "addAddress"
       /\ removeAddress(a) \in AnyStep /\ removeAddress(a).do = "removeAddress"
       /\ setDefaultAddress(a) \in AnyStep /\ setDefaultAddress(a).do = "setDefaultAddress"
  BY DEF addAddress, removeAddress, setDefaultAddress, Edit, AnyStep, AddressStep
<1>4. createMandateKey \in AnyStep /\ createMandateKey.do = "createMandateKey"
  BY DEF createMandateKey, Edit, AnyStep, PlainStep
<1>5. \A algorithm \in Algorithm :
       /\ createUcpSigningKey(algorithm) \in AnyStep
       /\ createUcpSigningKey(algorithm).do = "createUcpSigningKey"
  BY DEF createUcpSigningKey, Edit, AnyStep, SignerStep
<1> QED BY <1>1, <1>2, <1>3, <1>4, <1>5

LEMMA RecoveryIsStep == Step("recovery") \in AnyStep /\ Step("recovery").do = "recovery"
  BY DEF Step, Edit, AnyStep, PlainStep

LEMMA ExportTyped ==
  ASSUME TypeOK, NEW p \in Process, exportKey(p)
  PROVE  TypeOK'
<1>1. <<Step("recovery")>> \in Seq(AnyStep) /\ Placed(<<Step("recovery")>>)
  BY RecoveryIsStep, OneStep
<1>2. Begins(p, "export", <<Step("recovery")>>, book)
      /\ UNCHANGED <<box, keychain, recovery, handle, record, fresh>>
  BY DEF exportKey
<1> QED BY <1>1, <1>2, BegunTyped

LEMMA SetDefaultTyped ==
  ASSUME TypeOK, NEW p \in Process, NEW c \in Card, startSetDefault(p, c)
  PROVE  TypeOK'
<1>1. Sound(box.record)
  BY DEF TypeOK, BoxOK
<1>2. setDefaultCard(c, box.record) \in Seq(AnyStep) /\ Placed(setDefaultCard(c, box.record))
  BY <1>1, SetDefaultStepsAre
<1>3. Begins(p, "setDefault", setDefaultCard(c, box.record), [book EXCEPT !.default = {c}])
      /\ UNCHANGED <<box, keychain, recovery, handle, record, fresh>>
  BY DEF startSetDefault
<1> QED BY <1>2, <1>3, BegunTyped

\* The address billed before is one of those there are.
LEMMA BillingIsThere ==
  ASSUME NEW r, Sound(r), r.addresses # <<>>
  PROVE  billing(r) \in ToSet(r.addresses) /\ billing(r) \in Address
<1>1. r.addresses \in Seq(Address)
  BY DEF Sound, Record
<1>2. billing(r) \in ToSet(r.addresses)
  <2>1. CASE r.home \cap ToSet(r.addresses) # {}
    <3>1. \E a \in r.home : a \in ToSet(r.addresses)
      BY <2>1
    <3> QED BY <2>1, <3>1 DEF billing
  <2>2. CASE ~(r.home \cap ToSet(r.addresses) # {})
    <3>1. billing(r) = Head(r.addresses)
      BY <2>2 DEF billing
    <3> QED BY <1>1, <3>1 DEF ToSet
  <2> QED BY <2>1, <2>2
<1> QED BY <1>1, <1>2 DEF ToSet

\* New billing is two steps, or three when an address was billed before.
LEMMA UpdateBillingAre ==
  ASSUME NEW r, Sound(r), NEW a \in Address
  PROVE  LET s == updateBilling(a, r)
         IN /\ s \in Seq(AnyStep) /\ Placed(s)
            /\ IF r.addresses = <<>>
               THEN Len(s) = 2 /\ s[1] = addAddress(a) /\ s[2] = setDefaultAddress(a)
               ELSE /\ Len(s) = 3 /\ s[1] = removeAddress(billing(r)) /\ s[2] = addAddress(a)
                    /\ s[3] = setDefaultAddress(a)
<1> DEFINE s == updateBilling(a, r)
           x == removeAddress(billing(r))
           y == addAddress(a)
           z == setDefaultAddress(a)
<1>1. /\ y \in AnyStep /\ y.do = "addAddress" /\ z \in AnyStep /\ z.do = "setDefaultAddress"
      /\ r.addresses # <<>> => x \in AnyStep /\ x.do = "removeAddress"
  BY EditsAreSteps, BillingIsThere
<1>2. s = (IF r.addresses = <<>> THEN <<>> ELSE <<x>>) \o <<y, z>>
  BY DEF updateBilling
<1> HIDE DEF s, x, y, z, AnyStep
<1>3. IF r.addresses = <<>> THEN Len(s) = 2 /\ s[1] = y /\ s[2] = z /\ s \in Seq(AnyStep)
      ELSE Len(s) = 3 /\ s[1] = x /\ s[2] = y /\ s[3] = z /\ s \in Seq(AnyStep)
  <2>1. CASE r.addresses = <<>>
    <3>1. s = <<>> \o <<y, z>>
      BY <1>2, <2>1
    <3> QED BY <1>1, <2>1, <3>1
  <2>2. CASE r.addresses # <<>>
    <3>1. s = <<x>> \o <<y, z>>
      BY <1>2, <2>2
    <3> QED BY <1>1, <2>2, <3>1
  <2> QED BY <2>1, <2>2
<1>4. \A i \in 1..Len(s) : s[i].do \in {"addAddress", "removeAddress", "setDefaultAddress"}
  <2>1. CASE r.addresses = <<>>
    <3>0. Len(s) = 2
      BY <1>3, <2>1, Zenon
    <3>1. \A i \in 1..Len(s) : i = 1 \/ i = 2
      BY <3>0
    <3> QED BY <1>1, <1>3, <2>1, <3>1
  <2>2. CASE r.addresses # <<>>
    <3>0. Len(s) = 3
      BY <1>3, <2>2, Zenon
    <3>1. \A i \in 1..Len(s) : i = 1 \/ i = 2 \/ i = 3
      BY <3>0
    <3> QED BY <1>1, <1>3, <2>2, <3>1
  <2> QED BY <2>1, <2>2
<1>5. Placed(s)
  BY <1>4 DEF Placed
<1> QED BY <1>3, <1>5 DEF s, x, y, z

LEMMA UpdateBillingTyped ==
  ASSUME TypeOK, NEW p \in Process, NEW a \in Address, startUpdateBilling(p, a)
  PROVE  TypeOK'
<1>1. Sound(box.record)
  BY DEF TypeOK, BoxOK
<1>2. updateBilling(a, box.record) \in Seq(AnyStep) /\ Placed(updateBilling(a, box.record))
  BY <1>1, UpdateBillingAre
<1>3. PICK should : Begins(p, "billing", updateBilling(a, box.record), should)
      /\ UNCHANGED <<box, keychain, recovery, handle, record, fresh>>
  BY DEF startUpdateBilling
<1> QED BY <1>2, <1>3, BegunTyped

\* A change of the password seals the record again and opens it.
LEMMA RotateStepsAre ==
  ASSUME TypeOK, NEW new \in Password
  PROVE  LET x == Reseal(box.uuid, derivePasswordKey(fresh + 1, new))
             y == Reopen(new)
             s == <<x, y>>
         IN /\ s \in Seq(AnyStep) /\ Placed(s) /\ Len(s) = 2 /\ s[1] = x /\ s[2] = y
            /\ x.do = "reseal" /\ y.do = "reopen"
<1> DEFINE x == Reseal(box.uuid, derivePasswordKey(fresh + 1, new))
           y == Reopen(new)
           s == <<x, y>>
<1>1. x \in AnyStep /\ x.do = "reseal"
  <2>1. box.uuid \in Nat /\ fresh + 1 \in Nat \ {0}
    BY DEF TypeOK, BoxOK
  <2> QED BY <2>1 DEF Reseal, derivePasswordKey, AnyStep, ResealStep
<1>2. y \in AnyStep /\ y.do = "reopen"
  BY DEF Reopen, AnyStep, ReopenStep
<1> HIDE DEF x, y, AnyStep
<1>3. s \in Seq(AnyStep) /\ Len(s) = 2 /\ s[1] = x /\ s[2] = y
  BY <1>1, <1>2
<1>4. \A i \in 1..Len(s) : (i = 1 /\ s[i].do = "reseal") \/ (i = 2 /\ s[i].do = "reopen")
  BY <1>1, <1>2, <1>3
<1>5. Placed(s)
  <2> HIDE DEF s
  <2> QED BY <1>3, <1>4 DEF Placed
<1> QED BY <1>1, <1>2, <1>3, <1>5 DEF x, y

LEMMA StartRotateTyped ==
  ASSUME VaultAssumption, TypeOK, NEW p \in Process, NEW old, NEW new, startRotate(p, old, new)
  PROVE  TypeOK'
<1>1. new \in Password
  BY DEF startRotate
<1>2. PICK s : s = <<Reseal(box.uuid, derivePasswordKey(fresh + 1, new)), Reopen(new)>>
  OBVIOUS
<1>3. s \in Seq(AnyStep) /\ Placed(s)
  BY <1>1, <1>2, RotateStepsAre
<1>4. /\ Begins(p, "rotate", s, book) /\ record' = [record EXCEPT ![p] = box.record]
      /\ fresh' = fresh + 1 /\ fresh < MaxFresh /\ UNCHANGED <<box, keychain, recovery, handle>>
  BY <1>2 DEF startRotate
<1>5. record' \in [Process -> Record] /\ \A q \in Process : Sound(record'[q])
  BY <1>4 DEF TypeOK, CallsOK, BoxOK, Sound
<1>6. CallsOK' /\ tainted' \in BOOLEAN
  BY <1>3, <1>4, <1>5, BeginsTyped DEF TypeOK
<1> QED BY <1>4, <1>6 DEF TypeOK, KeptOK, BoxOK, HandlesOK, VaultAssumption

LEMMA ResealStepIs ==
  ASSUME NEW s \in AnyStep, s.do = "reseal"
  PROVE  s.uuid \in Nat /\ s.key \in (Nat \ {0}) \X Password
  BY DEF AnyStep, CardStep, AddressStep, SignerStep, PlainStep, ResealStep, ReopenStep

LEMMA ReopenStepIs ==
  ASSUME NEW s \in AnyStep, s.do = "reopen"
  PROVE  s.secret \in Password
  BY DEF AnyStep, CardStep, AddressStep, SignerStep, PlainStep, ResealStep, ReopenStep

LEMMA ResealTyped ==
  ASSUME TypeOK, NEW p \in Process, rotatePasswordVault(p)
  PROVE  TypeOK'
<1>1. PICK s \in AnyStep : s = Head(todo[p]) /\ s.do = "reseal" /\ todo[p] # <<>>
  BY HeadOfCall DEF rotatePasswordVault, Head1
<1>2. s.uuid \in Nat /\ s.key \in (Nat \ {0}) \X Password
  BY <1>1, ResealStepIs
<1>3. box' = [uuid |-> s.uuid, salt |-> s.key[1], key |-> s.key, record |-> record[p]]
  BY <1>1 DEF rotatePasswordVault, packVaultBox
<1>4. BoxOK'
  BY <1>2, <1>3 DEF TypeOK, CallsOK, BoxOK, Key
<1>5. CallsOK'
  BY <1>1, DoneTyped DEF rotatePasswordVault, TypeOK
<1> QED BY <1>4, <1>5 DEF rotatePasswordVault, TypeOK, KeptOK, HandlesOK

LEMMA ReopenTyped ==
  ASSUME TypeOK, NEW p \in Process, rotatePassword(p)
  PROVE  TypeOK'
<1>1. CASE Throw(p)
  BY <1>1, ThrowTyped DEF rotatePassword, TypeOK, KeptOK
<1>2. CASE ~Throw(p)
  <2>1. /\ handle' = [handle EXCEPT ![p] =
             [uuid |-> box.uuid, salt |-> box.salt, key |-> box.key, open |-> TRUE]]
        /\ Ends(p) /\ UNCHANGED <<box, tainted, keychain, recovery, fresh>>
    BY <1>2 DEF rotatePassword
  <2>2. CallsOK'
    BY <2>1, EndsTyped DEF TypeOK
  <2> QED BY <2>1, <2>2 DEF TypeOK, KeptOK, BoxOK, HandlesOK, Handle
<1> QED BY <1>1, <1>2

LEMMA ImportTyped ==
  ASSUME TypeOK, NEW s, importKeyFromFile(s)
  PROVE  TypeOK'
<1>1. unwrapMasterKey(s) \in Key
  BY NoneTyped DEF unwrapMasterKey, TypeOK, KeptOK
<1> QED BY <1>1 DEF importKeyFromFile, TypeOK, KeptOK, BoxOK, CallsOK, Idle, HandlesOK

LEMMA FailTyped ==
  ASSUME TypeOK, NEW p \in Process, stepFails(p)
  PROVE  TypeOK'
<1>1. keychain' \in [1..MaxFresh -> Key]
  BY NoneTyped DEF stepFails, withoutKeychain, TypeOK, KeptOK
<1> QED BY <1>1, ThrowTyped DEF stepFails, TypeOK, KeptOK

LEMMA LateTyped ==
  ASSUME VaultAssumption, TypeOK, NEW p \in Process, writeFailsLate(p)
  PROVE  TypeOK'
<1>1. CallsOK'
  BY EndsTyped DEF writeFailsLate, TypeOK
<1>2. keychain' \in [1..MaxFresh -> Key]
  BY NoneTyped DEF writeFailsLate, withoutKeychain, TypeOK, KeptOK
<1>3. BoxOK'
  <2>1. handle[p].uuid \in Nat /\ LostKey(handle[p].uuid) \in Key /\ Empty \in Record
    BY EmptySound DEF LostKey, Key, TypeOK, HandlesOK, Handle, Sound
  <2>2. CASE box' = NoBox
    BY <2>2, EmptySound, NoneTyped DEF BoxOK, NoBox, Sound
  <2>3. CASE box' = Sealed(p, Empty)
    BY <2>3, SealedTyped, EmptySound DEF BoxOK
  <2>4. CASE box' = packVaultBox(handle[p], LostKey(handle[p].uuid), Empty)
    BY <2>1, <2>4, EmptySound DEF BoxOK, packVaultBox, TypeOK, HandlesOK, Handle
  <2> QED BY <2>2, <2>3, <2>4 DEF writeFailsLate
<1>4. HandlesOK'
  BY NoneTyped DEF writeFailsLate, TypeOK, HandlesOK
<1> QED BY <1>1, <1>2, <1>3, <1>4 DEF writeFailsLate, WentWrong, TypeOK, KeptOK

LEMMA DieTyped ==
  ASSUME TypeOK, NEW p \in Process, dies(p)
  PROVE  TypeOK'
<1>1. CallsOK'
  BY EndsTyped DEF dies, WentWrong, TypeOK
<1> QED BY <1>1, NoneTyped DEF dies, WentWrong, TypeOK, KeptOK, BoxOK, HandlesOK

(***************************************************************************)
(* Keys                                                                    *)
(***************************************************************************)
\* KeysHad without the quantifier, of one handle.
KeysOf(p) ==
  /\ handle[p].salt = 0 => handle[p].uuid \in 0..fresh
  /\ Head1(p, "init") => ToBeKept(handle[p])
  /\ (handle[p].open \/ todo[p] # <<>>) /\ ~Head1(p, "init") => Had(handle[p])
  /\ Makes(p) => OfItsOwn(p)

BoxHad == (box # NoBox => Had(box) \/ Lost(box)) /\ (box.salt = 0 => box.uuid \in 0..fresh)

LEMMA KeysHadIs == KeysHad <=> BoxHad /\ \A p \in Process : KeysOf(p)
  BY DEF KeysHad, KeysOf, BoxHad

\* What is left of a call holds no creation's first steps, except after one of them.
LEMMA TailMakesNot ==
  ASSUME TypeOK, NEW p \in Process, todo[p] # <<>>, todo'[p] = Tail(todo[p])
  PROVE  /\ ~Head1(p, "init")'
         /\ Head1(p, "seal")' => Head1(p, "init")
<1> DEFINE s == todo[p]
           t == Tail(s)
<1>1. s \in Seq(AnyStep) /\ Placed(s) /\ s # <<>> /\ Head(s) = s[1]
  BY HeadOfCall
<1>2. /\ t \in Seq(AnyStep) /\ Len(t) = Len(s) - 1 /\ Len(s) \in Nat \ {0}
      /\ \A i \in 1..Len(s) - 1 : t[i] = s[i + 1]
  BY <1>1, TailOfSteps
<1> HIDE DEF s, t
<1>3. ASSUME t # <<>> PROVE Head(t) = s[2] /\ 2 \in 1..Len(s)
  <2>1. Len(t) \in Nat \ {0} /\ Head(t) = t[1]
    BY <1>2, <1>3, TailOfSteps
  <2>2. 1 \in 1..Len(s) - 1 /\ 2 \in 1..Len(s)
    BY <1>2, <2>1
  <2> QED BY <1>2, <2>1, <2>2
<1>4. t # <<>> => Head(t).do # "init" /\ (Head(t).do = "seal" => s[1].do = "init")
  BY <1>1, <1>3 DEF Placed
<1> QED BY <1>1, <1>4 DEF Head1, s, t

\* A key that is had stays so when others are drawn.
LEMMA HadStays ==
  ASSUME TypeOK, fresh' \in {fresh, fresh + 1},
         NEW h, h.salt = 0 /\ Had(h) => keychain'[h.uuid] = keychain[h.uuid]
  PROVE  (Had(h) => Had(h)') /\ (Lost(h) => Lost(h)')
<1>1. 1..fresh \subseteq 1..fresh'
  BY DEF TypeOK
<1> QED BY <1>1 DEF Had, Lost

\* Where p gets the vault of a box or a handle from: a salt tells vaults apart, and
\* without one it is no vault, the box's, the handle's own or a new one.
Kin(h, p) ==
  \/ h.salt # 0
  \/ h.uuid = 0
  \/ h.uuid = box.uuid /\ box.salt = 0
  \/ h.uuid = handle[p].uuid /\ handle[p].salt = 0
  \/ h.uuid = fresh + 1 /\ fresh' = fresh + 1

OnlyOf(p) == \A q \in Process \ {p} : UNCHANGED <<handle[q], todo[q], call[q]>>

LEMMA KinIsKnown ==
  ASSUME TypeOK, KeysHad, NEW p \in Process, NEW h, h.uuid \in Nat, Kin(h, p), h.salt = 0,
         fresh' \in {fresh, fresh + 1}
  PROVE  /\ h.uuid \in 0..fresh'
         /\ \A q \in Process \ {p} : Makes(q) => h.uuid # handle[q].uuid
<1>0. fresh \in Nat /\ (box.salt = 0 => box.uuid \in 0..fresh)
      /\ (handle[p].salt = 0 => handle[p].uuid \in 0..fresh)
  BY DEF TypeOK, KeysHad
<1>1. h.uuid \in 0..fresh'
  BY <1>0 DEF Kin
<1>2. ASSUME NEW q \in Process \ {p}, Makes(q) PROVE h.uuid # handle[q].uuid
  <2>1. OfItsOwn(q)
    BY <1>2 DEF KeysHad
  <2> QED BY <1>0, <2>1 DEF OfItsOwn, Kin
<1> QED BY <1>1, <1>2

\* What p does leaves the keys of the others.
LEMMA OthersKeep ==
  ASSUME VaultAssumption, TypeOK, KeysHad, TypeOK', NEW p \in Process, OnlyOf(p),
         fresh' \in {fresh, fresh + 1},
         \A u \in 1..MaxFresh : keychain'[u] = keychain[u] \/ (Makes(p) /\ u = handle[p].uuid),
         Kin(box', p), Kin(handle'[p], p)
  PROVE  /\ \A q \in Process \ {p} : KeysOf(q)'
         /\ (box.salt = 0 => box.uuid \in 0..fresh)'
         /\ (handle[p].salt = 0 => handle[p].uuid \in 0..fresh)'
<1>0. fresh \in Nat /\ fresh' \in Nat /\ 0..fresh \subseteq 0..fresh' /\ 1..fresh \subseteq 1..fresh'
      /\ 1..fresh \subseteq 1..MaxFresh
  <2>1. MaxFresh \in Nat
    BY DEF VaultAssumption
  <2>2. fresh \in 0..MaxFresh /\ fresh' \in 0..MaxFresh
    BY DEF TypeOK
  <2> QED BY <2>1, <2>2
<1>1. box'.uuid \in Nat /\ handle'[p].uuid \in Nat
  BY DEF TypeOK, BoxOK, HandlesOK, Handle
<1>2. /\ box'.salt = 0 => /\ box'.uuid \in 0..fresh'
                          /\ \A q \in Process \ {p} : Makes(q) => box'.uuid # handle[q].uuid
      /\ handle'[p].salt = 0 => /\ handle'[p].uuid \in 0..fresh'
                                /\ \A q \in Process \ {p} : Makes(q) => handle'[p].uuid # handle[q].uuid
  BY <1>1, KinIsKnown
<1>3. ASSUME NEW q \in Process \ {p} PROVE KeysOf(q)'
  <2>1. handle'[q] = handle[q] /\ todo'[q] = todo[q] /\ call'[q] = call[q]
    BY DEF OnlyOf
  <2>2. KeysOf(q)
    BY KeysHadIs
  <2>3. Head1(q, "init")' = Head1(q, "init") /\ Head1(q, "seal")' = Head1(q, "seal")
        /\ Makes(q)' = Makes(q)
    BY <2>1 DEF Head1, Makes
  <2>4. (handle[q].salt = 0 => handle[q].uuid \in 0..fresh)'
    BY <1>0, <2>1, <2>2 DEF KeysOf
  <2>5. ToBeKept(handle[q]) => ToBeKept(handle[q])'
    BY <1>0, <2>1 DEF ToBeKept
  <2>6. Had(handle[q]) => Had(handle[q])'
    <3>1. PICK h : h = handle[q]
      OBVIOUS
    <3>2. ASSUME Had(h) PROVE Had(h)'
      <4>1. h.salt = 0 => h.uuid \in 1..MaxFresh
        BY <1>0, <3>2 DEF Had
      <4>2. h.salt = 0 => keychain'[h.uuid] = keychain[h.uuid]
        <5>1. Makes(p) => OfItsOwn(p)
          BY DEF KeysHad
        <5> QED BY <3>1, <4>1, <5>1 DEF OfItsOwn
      <4> QED BY <3>2, <4>2, HadStays
    <3> QED BY <2>1, <3>1, <3>2
  <2>7. Makes(q) => OfItsOwn(q)'
    <3> SUFFICES ASSUME Makes(q) PROVE OfItsOwn(q)'
      OBVIOUS
    <3>1. OfItsOwn(q)
      BY <2>2 DEF KeysOf
    <3>2. call'[q] = "create" /\ handle'[q].uuid \in 1..fresh'
      BY <1>0, <2>1, <3>1 DEF OfItsOwn
    <3>3. box'.salt = 0 => box'.uuid # handle'[q].uuid
      BY <1>2, <2>1
    <3>4. ASSUME NEW r \in Process \ {q}, handle'[r].salt = 0 PROVE handle'[r].uuid # handle'[q].uuid
      <4>1. CASE r = p
        BY <1>2, <2>1, <3>4, <4>1
      <4>2. CASE r # p
        <5>1. handle'[r] = handle[r]
          BY <4>2 DEF OnlyOf
        <5> QED BY <2>1, <3>1, <3>4, <5>1 DEF OfItsOwn
      <4> QED BY <4>1, <4>2
    <3> QED BY <3>2, <3>3, <3>4 DEF OfItsOwn
  <2> QED BY <2>1, <2>2, <2>3, <2>4, <2>5, <2>6, <2>7 DEF KeysOf
<1> QED BY <1>2, <1>3

\* A step that draws no key: what p then has is had.
LEMMA QuietKeeps ==
  ASSUME VaultAssumption, TypeOK, KeysHad, TypeOK', NEW p \in Process, OnlyOf(p),
         fresh' \in {fresh, fresh + 1},
         keychain' = keychain,
         NEW b, b = box', NEW h, h = handle'[p], b = NoBox \/ (Kin(b, p) /\ (Had(b) \/ Lost(b))), Kin(h, p),
         ~Makes(p)', (h.open \/ todo'[p] # <<>>) => Had(h)
  PROVE  KeysHad'
<1>1. Kin(box', p)
  BY DEF Kin, NoBox
<1>2. /\ \A q \in Process \ {p} : KeysOf(q)'
      /\ (box.salt = 0 => box.uuid \in 0..fresh)'
      /\ (handle[p].salt = 0 => handle[p].uuid \in 0..fresh)'
  BY <1>1, OthersKeep
<1>3. (box # NoBox => Had(box) \/ Lost(box))'
  <2>1. (Had(b) => Had(b)') /\ (Lost(b) => Lost(b)')
    BY HadStays
  <2> QED BY <2>1
<1>4. KeysOf(p)'
  <2>1. Had(h) => Had(h)'
    BY HadStays
  <2>2. ((handle[p].open \/ todo[p] # <<>>) => Had(handle[p]))'
    BY <2>1
  <2> QED BY <1>2, <2>2 DEF KeysOf, Makes
<1>5. \A q \in Process : KeysOf(q)'
  BY <1>2, <1>4
<1> QED BY <1>2, <1>3, <1>5 DEF KeysHad, KeysOf

\* The fact that the actions have: what p does is to p alone.
LEMMA StepsAreOnes ==
  ASSUME TypeOK, NEW p \in Process
  PROVE  /\ Ends(p) => \A q \in Process \ {p} : UNCHANGED <<todo[q], call[q]>>
         /\ Throw(p) => OnlyOf(p)
         /\ Done1(p) => \A q \in Process \ {p} : UNCHANGED todo[q]
<1>1. Ends(p) => \A q \in Process \ {p} : UNCHANGED <<todo[q], call[q]>>
  BY DEF Ends, TypeOK, CallsOK
<1>2. Throw(p) => \A q \in Process \ {p} : UNCHANGED handle[q]
  BY DEF Throw, WentWrong, TypeOK, HandlesOK
<1>3. Done1(p) => \A q \in Process \ {p} : UNCHANGED todo[q]
  BY DEF Done1, TypeOK, CallsOK
<1> QED BY <1>1, <1>2, <1>3 DEF Throw, WentWrong, OnlyOf

\* A call that has a step to take, which is not a creation's first, has its key.
LEMMA CallHasKey ==
  ASSUME KeysHad, NEW p \in Process, handle[p].open \/ todo[p] # <<>>, ~Head1(p, "init")
  PROVE  Had(handle[p])
  BY DEF KeysHad

LEMMA NoHandleIsNone == NoHandle.uuid = 0 /\ NoHandle.salt = 0 /\ ~NoHandle.open
  BY DEF NoHandle

\* When a call throws it has no step left, and a creation has no handle left.
LEMMA ThrowKeeps ==
  ASSUME VaultAssumption, TypeOK, KeysHad, TypeOK', NEW p \in Process, Throw(p),
         keychain' = keychain, fresh' = fresh
  PROVE  KeysHad'
<1>1. OnlyOf(p)
  BY StepsAreOnes
<1>2. todo'[p] = <<>>
  <2> HIDE DEF AnyStep
  <2> QED BY DEF Throw, WentWrong, Ends, TypeOK, CallsOK
<1>3. ~Makes(p)'
  BY <1>2 DEF Makes, Head1
<1>4. box' = NoBox \/ (box' = box)
  BY DEF Throw, WentWrong
<1>5. box' = NoBox \/ (Kin(box', p) /\ (Had(box') \/ Lost(box')))
  BY <1>4 DEF KeysHad, Kin
<1>6. Kin(handle'[p], p) /\ ((handle'[p].open \/ todo'[p] # <<>>) => Had(handle'[p]))
  <2>1. CASE call[p] = "create"
    <3>1. handle'[p] = NoHandle
      BY <2>1 DEF Throw, WentWrong, TypeOK, HandlesOK
    <3> QED BY <1>2, <3>1, NoHandleIsNone DEF Kin
  <2>2. CASE call[p] # "create"
    <3>1. handle'[p] = handle[p]
      BY <2>2 DEF Throw, WentWrong
    <3>2. ~Head1(p, "init")
      BY <2>2 DEF KeysHad, Makes, OfItsOwn
    <3>3. handle[p].open => Had(handle[p])
      BY <3>2, CallHasKey
    <3> QED BY <1>2, <3>1, <3>3 DEF Kin
  <2> QED BY <2>1, <2>2
<1>7. PICK b, h : b = box' /\ h = handle'[p]
  OBVIOUS
<1> QED BY <1>1, <1>3, <1>5, <1>6, <1>7, QuietKeeps

\* A step that leaves the box and the handles, of a call that is not being made.
LEMMA LaterStepKeeps ==
  ASSUME VaultAssumption, TypeOK, KeysHad, TypeOK', NEW p \in Process, todo[p] # <<>>,
         ~Makes(p), Ends(p) \/ (Done1(p) /\ UNCHANGED call),
         UNCHANGED <<box, handle, keychain, fresh>>
  PROVE  KeysHad'
<1>1. OnlyOf(p)
  BY StepsAreOnes DEF OnlyOf
<1>2. todo'[p] = <<>> \/ todo'[p] = Tail(todo[p])
  <2> HIDE DEF AnyStep
  <2> QED BY DEF Ends, Done1, TypeOK, CallsOK
<1>3. ~Makes(p)'
  <2>1. CASE todo'[p] = <<>>
    BY <2>1 DEF Makes, Head1
  <2>2. CASE todo'[p] = Tail(todo[p])
    BY <2>2, TailMakesNot DEF Makes
  <2> QED BY <1>2, <2>1, <2>2
<1>4. Had(handle[p])
  BY CallHasKey DEF Makes
<1>5. box' = NoBox \/ (Kin(box', p) /\ (Had(box') \/ Lost(box')))
  BY DEF KeysHad, Kin
<1>6. Kin(handle'[p], p) /\ Had(handle'[p])
  BY <1>4 DEF Kin
<1>7. PICK b, h : b = box' /\ h = handle'[p]
  OBVIOUS
<1> QED BY <1>1, <1>3, <1>5, <1>6, <1>7, QuietKeeps

LEMMA CreateKeeps ==
  ASSUME VaultAssumption, TypeOK, KeysHad, TypeOK', NEW p \in Process,
         NEW s \in Password \cup {"keychain"}, NEW overwrite \in BOOLEAN,
         NEW opts \in {{}, {"keys", "recovery"}}, create(p, s, overwrite, opts)
  PROVE  KeysHad'
<1>1. PICK made : made = createMasterKey(fresh + 1, s)
  OBVIOUS
<1>2. handle' = [handle EXCEPT ![p] =
        [uuid |-> fresh + 1, salt |-> made.salt, key |-> made.key, open |-> FALSE]]
  BY <1>1 DEF create
<1>3. /\ Begins(p, "create", CreateSteps(opts), CreatedRecord(opts)) /\ fresh' = fresh + 1
      /\ keychain' = keychain
      /\ box' = NoBox \/ box' = box
  BY DEF create
<1>4. OnlyOf(p) /\ call'[p] = "create" /\ todo'[p] = CreateSteps(opts)
  <2>1. \A q \in Process \ {p} : UNCHANGED handle[q]
    BY <1>2 DEF TypeOK, HandlesOK
  <2>2. \A q \in Process \ {p} : UNCHANGED <<todo[q], call[q]>>
    BY <1>3 DEF Begins, TypeOK, CallsOK
  <2>3. call'[p] = "create" /\ todo'[p] = CreateSteps(opts)
    <3> HIDE DEF AnyStep
    <3> QED BY <1>3 DEF Begins, TypeOK, CallsOK
  <2> QED BY <2>1, <2>2, <2>3 DEF OnlyOf
<1>5. Head1(p, "init")' /\ ~Head1(p, "seal")'
  <2>1. PICK c : c = CreateSteps(opts)
    OBVIOUS
  <2>2. c \in Seq(AnyStep) /\ c[1] = Step("init") /\ Len(c) # 0
    <3>1. c \in Seq(AnyStep) /\ c[1] = Step("init")
      BY <2>1, CreateStepsAre, Zenon
    <3>2. Len(c) = 7 \/ Len(c) = 10
      BY <2>1, CreateStepsAre, Zenon
    <3> QED BY <3>1, <3>2
  <2>3. c # <<>> /\ Head(c) = Step("init")
    <3> HIDE DEF AnyStep
    <3> QED BY <2>2
  <2> QED BY <1>4, <2>1, <2>3 DEF Head1, Step, Edit
<1>6. Kin(box', p)
  BY <1>3 DEF Kin, NoBox
<1>7. handle'[p].uuid = fresh + 1 /\ handle'[p].salt = made.salt /\ handle'[p].key = made.key
      /\ ~handle'[p].open
  BY <1>2 DEF TypeOK, HandlesOK
<1>8. Kin(handle'[p], p)
  BY <1>3, <1>7 DEF Kin
<1>9. /\ \A q \in Process \ {p} : KeysOf(q)'
      /\ (box.salt = 0 => box.uuid \in 0..fresh)'
      /\ (handle[p].salt = 0 => handle[p].uuid \in 0..fresh)'
  BY <1>3, <1>4, <1>6, <1>8, OthersKeep
<1>10. (box # NoBox => Had(box) \/ Lost(box))'
  <2>1. PICK b : b = box'
    OBVIOUS
  <2>2. b # NoBox => Had(b) \/ Lost(b)
    BY <1>3, <2>1 DEF KeysHad
  <2>3. (Had(b) => Had(b)') /\ (Lost(b) => Lost(b)')
    BY <1>3, HadStays
  <2> QED BY <2>1, <2>2, <2>3
<1>11. fresh \in Nat
  BY DEF TypeOK
<1>12. ToBeKept(handle[p])'
  <2>1. CASE s = "keychain"
    <3>1. made.salt = 0 /\ made.key = <<fresh + 1, "keychain">>
      BY <1>1, <2>1 DEF createMasterKey
    <3>2. made.key # NoKey
      BY <1>11, <3>1 DEF NoKey
    <3> QED BY <1>3, <1>7, <1>11, <3>1, <3>2 DEF ToBeKept
  <2>2. CASE s # "keychain"
    <3>1. made.salt = fresh + 1 /\ made.key = <<fresh + 1, s>> /\ s \in Password
      BY <1>1, <2>2 DEF createMasterKey, derivePasswordKey
    <3> QED BY <1>7, <1>11, <3>1 DEF ToBeKept
  <2> QED BY <2>1, <2>2
<1>13. OfItsOwn(p)'
  <2>1. handle'[p].uuid \in 1..fresh' /\ handle'[p].uuid = fresh + 1
    BY <1>3, <1>7, <1>11
  <2>2. box'.salt = 0 => box'.uuid # fresh + 1
    BY <1>3, <1>11 DEF KeysHad, NoBox
  <2>3. \A q \in Process \ {p} : handle'[q].salt = 0 => handle'[q].uuid # fresh + 1
    BY <1>4, <1>11 DEF OnlyOf, KeysHad
  <2> QED BY <1>4, <2>1, <2>2, <2>3 DEF OfItsOwn
<1>14. KeysOf(p)'
  BY <1>5, <1>9, <1>12, <1>13 DEF KeysOf
<1>15. \A q \in Process : KeysOf(q)'
  BY <1>9, <1>14
<1> QED BY <1>9, <1>10, <1>15 DEF KeysHad, KeysOf

\* The key is kept before the box is sealed.
LEMMA InitKeyKeeps ==
  ASSUME VaultAssumption, TypeOK, KeysHad, TypeOK', NEW p \in Process, initKey(p)
  PROVE  KeysHad'
<1>1. CASE box # NoBox
  BY <1>1, ThrowKeeps DEF initKey, Head1
<1>2. CASE box = NoBox
  <2>1. /\ keychain' = IF handle[p].salt = 0
                       THEN [keychain EXCEPT ![handle[p].uuid] = handle[p].key] ELSE keychain
        /\ Done1(p) /\ UNCHANGED <<box, handle, call, fresh>>
    BY <1>2 DEF initKey
  <2>2. Head1(p, "init") /\ todo[p] # <<>> /\ Makes(p)
    BY DEF initKey, Head1, Makes
  <2>3. KeysOf(p) /\ OfItsOwn(p) /\ ToBeKept(handle[p])
    BY <2>2 DEF KeysHad, KeysOf
  <2>4. OnlyOf(p)
    BY <2>1, StepsAreOnes DEF OnlyOf
  <2>5. todo'[p] = Tail(todo[p])
    <3> HIDE DEF AnyStep
    <3> QED BY <2>1 DEF Done1, TypeOK, CallsOK
  <2>6. ~Head1(p, "init")'
    BY <2>2, <2>5, TailMakesNot
  <2>7. \A u \in 1..MaxFresh : keychain'[u] = keychain[u] \/ (Makes(p) /\ u = handle[p].uuid)
    BY <2>1, <2>2 DEF TypeOK, KeptOK
  <2>8. Kin(box', p) /\ Kin(handle'[p], p)
    BY <1>2, <2>1 DEF Kin, NoBox
  <2>9. /\ \A q \in Process \ {p} : KeysOf(q)'
        /\ (box.salt = 0 => box.uuid \in 0..fresh)'
        /\ (handle[p].salt = 0 => handle[p].uuid \in 0..fresh)'
    BY <2>1, <2>4, <2>7, <2>8, OthersKeep
  <2>10. Had(handle[p])'
    <3>1. CASE handle[p].salt = 0
      <4>1. handle[p].uuid \in 1..fresh /\ handle[p].key # NoKey /\ 1..fresh \subseteq 1..MaxFresh
        <5>1. MaxFresh \in Nat /\ fresh \in 0..MaxFresh
          BY DEF VaultAssumption, TypeOK
        <5> QED BY <2>3, <3>1, <5>1 DEF ToBeKept
      <4>2. keychain'[handle[p].uuid] = handle[p].key
        BY <2>1, <3>1, <4>1 DEF TypeOK, KeptOK
      <4> QED BY <2>1, <3>1, <4>1, <4>2 DEF Had
    <3>2. CASE handle[p].salt # 0
      BY <2>1, <2>3, <3>2 DEF ToBeKept, Had
    <3> QED BY <3>1, <3>2
  <2>11. OfItsOwn(p)'
    BY <2>1, <2>3 DEF OfItsOwn
  <2>12. KeysOf(p)'
    BY <2>6, <2>9, <2>10, <2>11 DEF KeysOf
  <2>13. \A q \in Process : KeysOf(q)'
    BY <2>9, <2>12
  <2>14. (box # NoBox => Had(box) \/ Lost(box))'
    BY <1>2, <2>1
  <2> QED BY <2>9, <2>13, <2>14 DEF KeysHad, KeysOf
<1> QED BY <1>1, <1>2

LEMMA InitBoxKeeps ==
  ASSUME VaultAssumption, TypeOK, KeysHad, TypeOK', NEW p \in Process, initBox(p)
  PROVE  KeysHad'
<1>1. Head1(p, "seal") /\ ~Head1(p, "init") /\ todo[p] # <<>>
  BY DEF initBox, Head1
<1>2. Had(handle[p])
  BY <1>1, CallHasKey
<1>3. PICK b : b = box'
  OBVIOUS
<1>4. b.uuid = handle[p].uuid /\ b.salt = handle[p].salt /\ b.key = handle[p].key
  BY <1>3, SealedTyped, EmptySound DEF initBox
<1>5. handle'[p].uuid = handle[p].uuid /\ handle'[p].salt = handle[p].salt
      /\ handle'[p].key = handle[p].key /\ (\A q \in Process \ {p} : handle'[q] = handle[q])
  BY DEF initBox, TypeOK, HandlesOK, Handle
<1>6. Had(b) /\ Kin(b, p) /\ Had(handle'[p]) /\ Kin(handle'[p], p)
  <2>1. Kin(b, p) /\ Kin(handle'[p], p)
    BY <1>4, <1>5 DEF Kin
  <2>2. Had(b) /\ Had(handle'[p])
    BY <1>2, <1>4, <1>5 DEF Had
  <2> QED BY <2>1, <2>2
<1>7. OnlyOf(p)
  BY <1>5, StepsAreOnes DEF initBox, OnlyOf
<1>8. ~Makes(p)'
  <2>1. todo'[p] = Tail(todo[p])
    <3> HIDE DEF AnyStep
    <3> QED BY DEF initBox, Done1, TypeOK, CallsOK
  <2> QED BY <1>1, <2>1, TailMakesNot DEF Makes
<1>9. PICK h : h = handle'[p]
  OBVIOUS
<1>10. keychain' = keychain /\ fresh' = fresh
  BY DEF initBox
<1> QED BY <1>3, <1>6, <1>7, <1>8, <1>9, <1>10, QuietKeeps

LEMMA WritePolicyKeeps ==
  ASSUME VaultAssumption, TypeOK, KeysHad, TypeOK', NEW p \in Process, writePolicy(p)
  PROVE  KeysHad'
<1>1. CASE policy
  BY <1>1, ThrowKeeps DEF writePolicy, Head1
<1>2. CASE ~policy
  BY <1>2, LaterStepKeeps DEF writePolicy, Head1, Makes
<1> QED BY <1>1, <1>2

LEMMA RecoveryKeeps ==
  ASSUME VaultAssumption, TypeOK, KeysHad, TypeOK', NEW p \in Process, exportRecovery(p)
  PROVE  KeysHad'
<1>1. CASE recovery # NoRecovery
  BY <1>1, ThrowKeeps DEF exportRecovery, Head1
<1>2. CASE recovery = NoRecovery
  <2>1. (Ends(p) \/ (Done1(p) /\ UNCHANGED call)) /\ UNCHANGED <<box, handle, keychain, fresh>>
    BY <1>2 DEF exportRecovery, Next1
  <2> QED BY <2>1, LaterStepKeeps DEF exportRecovery, Head1, Makes
<1> QED BY <1>1, <1>2

LEMMA LoadKeeps ==
  ASSUME VaultAssumption, TypeOK, KeysHad, TypeOK', NEW p \in Process, loadWalletPolicy(p)
  PROVE  KeysHad'
<1>1. CASE ~policy
  BY <1>1, ThrowKeeps DEF loadWalletPolicy, Head1
<1>2. CASE policy
  BY <1>2, LaterStepKeeps DEF loadWalletPolicy, Head1, Makes
<1> QED BY <1>1, <1>2

LEMMA ReadKeeps ==
  ASSUME VaultAssumption, TypeOK, KeysHad, TypeOK', NEW p \in Process, readCurrentRecord(p)
  PROVE  KeysHad'
<1> DEFINE e == Head(todo[p])
<1>0. todo[p] # <<>> /\ ~Makes(p) /\ todo[p] \in Seq(AnyStep) /\ Placed(todo[p])
      /\ todo[p][1].do \in EditKind /\ UNCHANGED <<keychain, recovery, fresh>>
  <2>1. todo[p] # <<>> /\ e.do \in EditKind /\ UNCHANGED <<keychain, recovery, fresh>>
    BY DEF readCurrentRecord
  <2>2. ~Makes(p)
    BY <2>1 DEF Makes, Head1, EditKind
  <2> QED BY <2>1, <2>2, HeadOfCall
<1>1. CASE box = NoBox \/ box.key # handle[p].key \/ Throws(e, box.record)
  <2>1. Throw(p)
    BY <1>1 DEF readCurrentRecord
  <2> QED BY <1>0, <2>1, ThrowKeeps
<1>2. CASE ~(box = NoBox \/ box.key # handle[p].key \/ Throws(e, box.record)) /\ Keeps(e, box.record)
  <2>1. Next1(p) /\ UNCHANGED <<box, handle>>
    BY <1>2 DEF readCurrentRecord
  <2>2. Ends(p) \/ (Done1(p) /\ UNCHANGED call)
    BY <2>1 DEF Next1
  <2> QED BY <1>0, <2>1, <2>2, LaterStepKeeps
<1>3. CASE ~(box = NoBox \/ box.key # handle[p].key \/ Throws(e, box.record)) /\ ~Keeps(e, box.record)
  <2>1. /\ todo' = [todo EXCEPT ![p] = <<Step("write")>> \o Tail(@)]
        /\ UNCHANGED <<box, handle, call>>
    BY <1>3 DEF readCurrentRecord
  <2>2. PICK t : t = <<Step("write")>> \o Tail(todo[p])
    OBVIOUS
  <2>3. t \in Seq(AnyStep) /\ t # <<>> /\ t[1] = Step("write")
    BY <1>0, <2>2, WriteFirst
  <2>4. todo'[p] = t /\ \A q \in Process : q # p => todo'[q] = todo[q]
    <3> HIDE DEF AnyStep
    <3> QED BY <2>1, <2>2 DEF TypeOK, CallsOK
  <2>5. ~Makes(p)'
    <3>1. Head(t).do = "write"
      BY <2>3, TailOfSteps DEF Step, Edit
    <3> QED BY <2>4, <3>1 DEF Makes, Head1
  <2>6. Had(handle[p])
    BY <1>0, CallHasKey DEF Makes
  <2>7. PICK b, h : b = box' /\ h = handle'[p]
    OBVIOUS
  <2>8. (b = NoBox \/ (Kin(b, p) /\ (Had(b) \/ Lost(b)))) /\ Kin(h, p) /\ Had(h)
    BY <2>1, <2>6, <2>7 DEF KeysHad, Kin
  <2>9. OnlyOf(p)
    BY <2>1, <2>4 DEF OnlyOf
  <2> QED BY <1>0, <2>5, <2>7, <2>8, <2>9, QuietKeeps
<1> QED BY <1>1, <1>2, <1>3

LEMMA WriteKeeps ==
  ASSUME VaultAssumption, TypeOK, KeysHad, TypeOK', NEW p \in Process, writeCurrentRecord(p)
  PROVE  KeysHad'
<1>1. todo[p] # <<>> /\ ~Makes(p) /\ ~Head1(p, "init")
  BY DEF writeCurrentRecord, Head1, Makes
<1>2. Had(handle[p])
  BY <1>1, CallHasKey
<1>3. PICK b, h : b = box' /\ h = handle'[p]
  OBVIOUS
<1>4. Sound(record[p])
  BY DEF TypeOK, CallsOK
<1>5. b.uuid = handle[p].uuid /\ b.salt = handle[p].salt /\ b.key = handle[p].key /\ h = handle[p]
  BY <1>3, <1>4, SealedTyped DEF writeCurrentRecord
<1>6. Had(b) /\ Kin(b, p) /\ Had(h) /\ Kin(h, p)
  <2>1. Kin(b, p) /\ Kin(h, p)
    BY <1>5 DEF Kin
  <2>2. Had(b) /\ Had(h)
    BY <1>2, <1>5 DEF Had
  <2> QED BY <2>1, <2>2
<1>7. OnlyOf(p)
  BY StepsAreOnes DEF writeCurrentRecord, Next1, OnlyOf
<1>8. ~Makes(p)'
  <2>1. todo'[p] = <<>> \/ todo'[p] = Tail(todo[p])
    <3> HIDE DEF AnyStep
    <3> QED BY DEF writeCurrentRecord, Next1, Ends, Done1, TypeOK, CallsOK
  <2>2. CASE todo'[p] = <<>>
    BY <2>2 DEF Makes, Head1
  <2>3. CASE todo'[p] = Tail(todo[p])
    BY <1>1, <2>3, TailMakesNot DEF Makes
  <2> QED BY <2>1, <2>2, <2>3
<1>9. keychain' = keychain /\ fresh' = fresh
  BY DEF writeCurrentRecord
<1> QED BY <1>3, <1>6, <1>7, <1>8, <1>9, QuietKeeps

\* What opens is had: by its password, or from the keychain.
LEMMA OpensIsHad == ASSUME KeysHad, NEW s, Opens(s) PROVE box # NoBox /\ Had(box)
<1>1. box # NoBox
  BY DEF Opens
<1>2. CASE Lost(box)
  <2>1. box.key = <<box.uuid, "lost">> /\ box.salt = 0 /\ box.uuid \in 1..fresh
    BY <1>2 DEF Lost, LostKey
  <2>2. box.key # NoKey
    BY <2>1 DEF NoKey
  <2>3. box.key = masterKeyForOpen(s) /\ keychain[box.uuid] = box.key
    BY <2>1, <2>2 DEF Opens, masterKeyForOpen, osKeystore
  <2> QED BY <1>1, <2>1, <2>2, <2>3 DEF Had
<1> QED BY <1>1, <1>2 DEF KeysHad

LEMMA OpenKeeps ==
  ASSUME VaultAssumption, TypeOK, KeysHad, TypeOK', NEW p \in Process, NEW s, open(p, s)
  PROVE  KeysHad'
<1>1. PICK b, h : b = box' /\ h = handle'[p]
  OBVIOUS
<1>2. box # NoBox /\ b = box
  BY <1>1 DEF open, Opens
<1>3. h.uuid = box.uuid /\ h.salt = box.salt /\ h.key = box.key
  BY <1>1 DEF open, TypeOK, HandlesOK
<1>4. Had(b) /\ Kin(b, p) /\ Had(h) /\ Kin(h, p)
  <2>1. Kin(b, p) /\ Kin(h, p)
    BY <1>2, <1>3 DEF Kin
  <2>2. Had(b)
    BY <1>2, OpensIsHad DEF open
  <2>3. Had(h)
    BY <1>2, <1>3, <2>2 DEF Had
  <2> QED BY <2>1, <2>2, <2>3
<1>5. OnlyOf(p)
  BY DEF open, OnlyOf, TypeOK, HandlesOK
<1>6. ~Makes(p)'
  BY DEF open, Makes, Head1, TypeOK, CallsOK
<1>7. keychain' = keychain /\ fresh' = fresh
  BY DEF open
<1> QED BY <1>1, <1>4, <1>5, <1>6, <1>7, QuietKeeps

\* A handle that is let go.
LEMMA LetGoKeeps ==
  ASSUME VaultAssumption, TypeOK, KeysHad, TypeOK', NEW p \in Process,
         handle' = [handle EXCEPT ![p] = NoHandle], todo'[p] = <<>>,
         \A q \in Process \ {p} : UNCHANGED <<todo[q], call[q]>>,
         UNCHANGED <<box, keychain, fresh>>
  PROVE  KeysHad'
<1>1. PICK b, h : b = box' /\ h = handle'[p]
  OBVIOUS
<1>2. h = NoHandle /\ b = box
  BY <1>1 DEF TypeOK, HandlesOK
<1>3. b = NoBox \/ (Kin(b, p) /\ (Had(b) \/ Lost(b)))
  BY <1>2 DEF KeysHad, Kin
<1>4. Kin(h, p) /\ ~h.open
  BY <1>2, NoHandleIsNone DEF Kin
<1>5. OnlyOf(p)
  BY DEF OnlyOf, TypeOK, HandlesOK
<1>6. ~Makes(p)'
  BY DEF Makes, Head1
<1> QED BY <1>1, <1>3, <1>4, <1>5, <1>6, QuietKeeps

LEMMA CloseKeeps ==
  ASSUME VaultAssumption, TypeOK, KeysHad, TypeOK', NEW p \in Process, close(p)
  PROVE  KeysHad'
  BY LetGoKeeps DEF close, TypeOK, CallsOK

LEMMA DieKeeps ==
  ASSUME VaultAssumption, TypeOK, KeysHad, TypeOK', NEW p \in Process, dies(p)
  PROVE  KeysHad'
<1>1. todo'[p] = <<>>
  <2> HIDE DEF AnyStep
  <2> QED BY DEF dies, WentWrong, Ends, TypeOK, CallsOK
<1>2. \A q \in Process \ {p} : UNCHANGED <<todo[q], call[q]>>
  BY StepsAreOnes DEF dies, WentWrong
<1> QED BY <1>1, <1>2, LetGoKeeps DEF dies, WentWrong

\* A call of an open handle begins.
LEMMA BegunKeeps ==
  ASSUME VaultAssumption, TypeOK, KeysHad, TypeOK', NEW p \in Process, handle[p].open,
         NEW what, NEW steps \in Seq(AnyStep), NEW should, Begins(p, what, steps, should),
         steps # <<>> => steps[1].do \notin {"init", "seal"},
         fresh' \in {fresh, fresh + 1}, UNCHANGED <<box, keychain, handle>>
  PROVE  KeysHad'
<1>1. PICK b, h : b = box' /\ h = handle'[p]
  OBVIOUS
<1>2. todo'[p] = steps /\ todo[p] = <<>>
  <2> HIDE DEF AnyStep
  <2> QED BY DEF Begins, TypeOK, CallsOK
<1>3. OnlyOf(p)
  BY DEF Begins, OnlyOf, TypeOK, CallsOK
<1>4. ~Makes(p)'
  <2>1. steps # <<>> => Head(steps) = steps[1]
    BY TailOfSteps
  <2> QED BY <1>2, <2>1 DEF Makes, Head1
<1>5. Had(handle[p])
  BY <1>2, CallHasKey DEF Head1
<1>6. (b = NoBox \/ (Kin(b, p) /\ (Had(b) \/ Lost(b)))) /\ Kin(h, p) /\ Had(h)
  BY <1>1, <1>5 DEF KeysHad, Kin
<1> QED BY <1>1, <1>3, <1>4, <1>6, QuietKeeps

LEMMA EditKeeps ==
  ASSUME VaultAssumption, TypeOK, KeysHad, TypeOK', NEW p \in Process, NEW e \in AnyStep,
         e.do \notin {"init", "seal"}, edit(p, e)
  PROVE  KeysHad'
<1>1. PICK should : Begins(p, "edit", <<e>>, should)
  BY DEF edit
<1>2. <<e>> \in Seq(AnyStep) /\ <<e>>[1] = e
  BY OneStep
<1> QED BY <1>1, <1>2, BegunKeeps DEF edit, Maintains

LEMMA ExportKeeps ==
  ASSUME VaultAssumption, TypeOK, KeysHad, TypeOK', NEW p \in Process, exportKey(p)
  PROVE  KeysHad'
<1>1. Begins(p, "export", <<Step("recovery")>>, book)
  BY DEF exportKey
<1>2. <<Step("recovery")>> \in Seq(AnyStep) /\ <<Step("recovery")>>[1].do = "recovery"
  BY RecoveryIsStep, OneStep
<1> QED BY <1>1, <1>2, BegunKeeps DEF exportKey, Maintains

LEMMA SetDefaultKeeps ==
  ASSUME VaultAssumption, TypeOK, KeysHad, TypeOK', NEW p \in Process, NEW c \in Card,
         startSetDefault(p, c)
  PROVE  KeysHad'
<1>1. PICK s : s = setDefaultCard(c, box.record)
  OBVIOUS
<1>2. Sound(box.record)
  BY DEF TypeOK, BoxOK
<1>3. PICK n \in Nat : /\ s \in Seq(AnyStep) /\ Len(s) = n + n
                       /\ \A i \in 1..n : s[i].do = "removeCard"
  <2>1. PICK n : n = Cardinality(box.record.cards)
    OBVIOUS
  <2>2. PICK x : x = SetToSeq(box.record.cards)
    OBVIOUS
  <2>3. n \in Nat /\ s \in Seq(AnyStep) /\ Len(s) = n + n /\ \A i \in 1..n : s[i] = removeCard(x[i])
    BY <1>1, <1>2, <2>1, <2>2, SetDefaultStepsAre
  <2>4. \A i \in 1..n : s[i].do = "removeCard"
    <3>1. \A y : removeCard(y).do = "removeCard"
      BY DEF removeCard, Edit
    <3> QED BY <2>3, <3>1
  <2> QED BY <2>3, <2>4
<1>4. s # <<>> => s[1].do = "removeCard"
  <2>1. s # <<>> => Len(s) \in Nat \ {0}
    BY <1>3, TailOfSteps
  <2> QED BY <1>3, <2>1
<1>5. Begins(p, "setDefault", s, [book EXCEPT !.default = {c}])
  BY <1>1 DEF startSetDefault
<1> QED BY <1>3, <1>4, <1>5, BegunKeeps DEF startSetDefault, Maintains

LEMMA UpdateBillingKeeps ==
  ASSUME VaultAssumption, TypeOK, KeysHad, TypeOK', NEW p \in Process, NEW a \in Address,
         startUpdateBilling(p, a)
  PROVE  KeysHad'
<1>1. PICK s : s = updateBilling(a, box.record)
  OBVIOUS
<1>2. Sound(box.record)
  BY DEF TypeOK, BoxOK
<1>3. s \in Seq(AnyStep) /\ s[1].do \in {"addAddress", "removeAddress"}
  <2>1. s \in Seq(AnyStep) /\ (s[1] = addAddress(a) \/ s[1] = removeAddress(billing(box.record)))
    BY <1>1, <1>2, UpdateBillingAre, Zenon
  <2>2. addAddress(a).do = "addAddress" /\ removeAddress(billing(box.record)).do = "removeAddress"
    BY DEF addAddress, removeAddress, Edit
  <2> QED BY <2>1, <2>2
<1>4. PICK should : Begins(p, "billing", s, should)
  BY <1>1 DEF startUpdateBilling
<1> QED BY <1>3, <1>4, BegunKeeps DEF startUpdateBilling, Maintains

LEMMA StartRotateKeeps ==
  ASSUME VaultAssumption, TypeOK, KeysHad, TypeOK', NEW p \in Process, NEW old, NEW new,
         startRotate(p, old, new)
  PROVE  KeysHad'
<1>1. PICK s : s = <<Reseal(box.uuid, derivePasswordKey(fresh + 1, new)), Reopen(new)>>
  OBVIOUS
<1>2. s \in Seq(AnyStep) /\ s[1].do = "reseal"
  BY <1>1, RotateStepsAre DEF startRotate
<1>3. Begins(p, "rotate", s, book)
  BY <1>1 DEF startRotate
<1> QED BY <1>2, <1>3, BegunKeeps DEF startRotate

LEMMA ResealKeeps ==
  ASSUME VaultAssumption, TypeOK, KeysHad, TypeOK', NEW p \in Process, rotatePasswordVault(p)
  PROVE  KeysHad'
<1>1. PICK s \in AnyStep : s = Head(todo[p]) /\ s.do = "reseal" /\ todo[p] # <<>>
  BY HeadOfCall DEF rotatePasswordVault, Head1
<1>2. s.key \in (Nat \ {0}) \X Password
  BY <1>1, ResealStepIs
<1>3. ~Makes(p) /\ Had(handle[p])
  BY <1>1, CallHasKey DEF Makes, Head1
<1>4. PICK b, h : b = box' /\ h = handle'[p]
  OBVIOUS
<1>5. b = [uuid |-> s.uuid, salt |-> s.key[1], key |-> s.key, record |-> record[p]] /\ h = handle[p]
  BY <1>1, <1>4 DEF rotatePasswordVault, packVaultBox
<1>6. Had(b) /\ Kin(b, p) /\ Had(h) /\ Kin(h, p)
  <2>1. b.salt # 0 /\ b.key = <<b.salt, b.key[2]>> /\ b.key[2] \in Password
    BY <1>2, <1>5
  <2>2. Had(b) /\ Kin(b, p)
    BY <2>1 DEF Had, Kin
  <2> QED BY <1>3, <1>5, <2>2 DEF Kin
<1>7. OnlyOf(p)
  BY StepsAreOnes DEF rotatePasswordVault, OnlyOf
<1>8. ~Makes(p)'
  <2>1. todo'[p] = Tail(todo[p])
    <3> HIDE DEF AnyStep
    <3> QED BY DEF rotatePasswordVault, Done1, TypeOK, CallsOK
  <2> QED BY <1>1, <1>3, <2>1, TailMakesNot DEF Makes
<1>9. keychain' = keychain /\ fresh' = fresh
  BY DEF rotatePasswordVault
<1> QED BY <1>4, <1>6, <1>7, <1>8, <1>9, QuietKeeps

LEMMA ReopenKeeps ==
  ASSUME VaultAssumption, TypeOK, KeysHad, TypeOK', NEW p \in Process, rotatePassword(p)
  PROVE  KeysHad'
<1>1. CASE Throw(p)
  BY <1>1, ThrowKeeps DEF rotatePassword, Head1
<1>2. CASE ~Throw(p)
  <2>1. /\ handle' = [handle EXCEPT ![p] =
             [uuid |-> box.uuid, salt |-> box.salt, key |-> box.key, open |-> TRUE]]
        /\ Ends(p) /\ UNCHANGED <<box, keychain, fresh>> /\ box # NoBox /\ Had(box)
    BY <1>2, OpensIsHad DEF rotatePassword
  <2>2. PICK b, h : b = box' /\ h = handle'[p]
    OBVIOUS
  <2>3. h.uuid = box.uuid /\ h.salt = box.salt /\ h.key = box.key /\ b = box
    BY <2>1, <2>2 DEF TypeOK, HandlesOK
  <2>4. Had(b) /\ Kin(b, p) /\ Had(h) /\ Kin(h, p)
    <3>1. Kin(b, p) /\ Kin(h, p)
      BY <2>3 DEF Kin
    <3>2. Had(b)
      BY <2>1, <2>3
    <3>3. Had(h)
      BY <2>3, <3>2 DEF Had
    <3> QED BY <3>1, <3>2, <3>3
  <2>5. OnlyOf(p)
    BY <2>1, StepsAreOnes DEF OnlyOf, TypeOK, HandlesOK
  <2>6. ~Makes(p)'
    <3>1. todo'[p] = <<>>
      <4> HIDE DEF AnyStep
      <4> QED BY <2>1 DEF Ends, TypeOK, CallsOK
    <3> QED BY <3>1 DEF Makes, Head1
  <2> QED BY <2>1, <2>2, <2>4, <2>5, <2>6, QuietKeeps
<1> QED BY <1>1, <1>2

\* A failed seal takes the key of its own vault out of the keychain again.
LEMMA FailKeeps ==
  ASSUME VaultAssumption, TypeOK, KeysHad, TypeOK', NEW p \in Process, stepFails(p)
  PROVE  KeysHad'
<1>1. CASE ~Head1(p, "seal")
  BY <1>1, ThrowKeeps DEF stepFails
<1>3. CASE Head1(p, "seal")
  <2>1. Makes(p) /\ OfItsOwn(p) /\ call[p] = "create" /\ todo[p] # <<>>
    BY <1>3 DEF Makes, KeysHad, OfItsOwn, Head1
  <2>2. Throw(p) /\ keychain' = [keychain EXCEPT ![handle[p].uuid] = NoKey] /\ fresh' = fresh
    BY <1>3 DEF stepFails, withoutKeychain
  <2>3. box' = box /\ handle' = [handle EXCEPT ![p] = NoHandle]
    BY <1>3, <2>1, <2>2 DEF Throw, WentWrong, Head1
  <2>4. todo'[p] = <<>>
    <3> HIDE DEF AnyStep
    <3> QED BY <2>2 DEF Throw, WentWrong, Ends, TypeOK, CallsOK
  <2>5. OnlyOf(p)
    BY <2>2, StepsAreOnes
  <2>6. handle'[p] = NoHandle
    BY <2>3 DEF TypeOK, HandlesOK
  <2>7. Kin(box', p) /\ Kin(handle'[p], p)
    BY <2>3, <2>6, NoHandleIsNone DEF Kin
  <2>8. \A u \in 1..MaxFresh : keychain'[u] = keychain[u] \/ (Makes(p) /\ u = handle[p].uuid)
    BY <2>1, <2>2 DEF TypeOK, KeptOK
  <2>9. /\ \A q \in Process \ {p} : KeysOf(q)'
        /\ (box.salt = 0 => box.uuid \in 0..fresh)'
        /\ (handle[p].salt = 0 => handle[p].uuid \in 0..fresh)'
    BY <2>2, <2>5, <2>7, <2>8, OthersKeep
  <2>10. KeysOf(p)'
    BY <2>4, <2>6, <2>9, NoHandleIsNone DEF KeysOf, Makes, Head1
  <2>11. (box # NoBox => Had(box) \/ Lost(box))'
    <3> SUFFICES ASSUME box # NoBox PROVE (Had(box) \/ Lost(box))'
      BY <2>3
    <3>1. PICK b : b = box
      OBVIOUS
    <3>2. Had(b) \/ Lost(b)
      BY <3>1 DEF KeysHad
    <3>3. b.salt = 0 => keychain'[b.uuid] = keychain[b.uuid]
      <4>1. b.salt = 0 => b.uuid # handle[p].uuid
        BY <2>1, <3>1 DEF OfItsOwn
      <4>2. b.salt = 0 => b.uuid \in 1..MaxFresh
        <5>1. MaxFresh \in Nat /\ fresh \in 0..MaxFresh
          BY DEF VaultAssumption, TypeOK
        <5> QED BY <3>2, <5>1 DEF Had, Lost
      <4> QED BY <2>2, <4>1, <4>2 DEF TypeOK, KeptOK
    <3>4. (Had(b) \/ Lost(b))'
      BY <2>2, <3>2, <3>3, HadStays
    <3> QED BY <2>3, <3>1, <3>4
  <2>12. \A q \in Process : KeysOf(q)'
    BY <2>9, <2>10
  <2> QED BY <2>9, <2>11, <2>12 DEF KeysHad, KeysOf
<1> QED BY <1>1, <1>3

\* A creation whose box, or whose policy, is in place when its write fails: the box is
\* lost, or opens with its password.
LEMMA LateKeeps ==
  ASSUME VaultAssumption, TypeOK, KeysHad, TypeOK', NEW p \in Process, writeFailsLate(p)
  PROVE  KeysHad'
<1>1. /\ handle' = [handle EXCEPT ![p] = NoHandle] /\ Ends(p) /\ fresh' = fresh
      /\ handle'[p] = NoHandle
  BY DEF writeFailsLate, TypeOK, HandlesOK
<1>2. todo'[p] = <<>>
  <2> HIDE DEF AnyStep
  <2> QED BY <1>1 DEF Ends, TypeOK, CallsOK
<1>3. OnlyOf(p)
  BY <1>1, StepsAreOnes DEF OnlyOf, TypeOK, HandlesOK
<1>4. PICK b, h : b = box' /\ h = handle'[p]
  OBVIOUS
<1>5. Kin(h, p) /\ ~h.open /\ ~Makes(p)'
  BY <1>1, <1>2, <1>4, NoHandleIsNone DEF Kin, Makes, Head1
<1>6. CASE Head1(p, "policy")
  <2>1. b = NoBox /\ keychain' = keychain
    BY <1>4, <1>6 DEF writeFailsLate, Head1
  <2> QED BY <1>1, <1>2, <1>3, <1>4, <1>5, <2>1, QuietKeeps
<1>7. CASE Head1(p, "seal")
  <2>1. Makes(p) /\ OfItsOwn(p) /\ todo[p] # <<>> /\ ~Head1(p, "init")
    BY <1>7 DEF Makes, KeysHad, Head1
  <2>2. keychain' = [keychain EXCEPT ![handle[p].uuid] = NoKey]
    BY <1>7 DEF writeFailsLate, withoutKeychain, Head1
  <2>3. Had(handle[p])
    BY <2>1, CallHasKey
  <2>4. /\ b.uuid = handle[p].uuid /\ b.salt = handle[p].salt
        /\ b.key = IF handle[p].salt # 0 THEN handle[p].key ELSE LostKey(handle[p].uuid)
    BY <1>4, <1>7, SealedTyped, EmptySound DEF writeFailsLate, packVaultBox, Head1
  <2>5. Had(b)' \/ Lost(b)'
    BY <1>1, <2>1, <2>3, <2>4 DEF Had, Lost, OfItsOwn
  <2>6. Kin(box', p) /\ Kin(handle'[p], p)
    BY <1>4, <1>5, <2>4 DEF Kin
  <2>7. \A u \in 1..MaxFresh : keychain'[u] = keychain[u] \/ (Makes(p) /\ u = handle[p].uuid)
    BY <2>1, <2>2 DEF TypeOK, KeptOK
  <2>8. /\ \A q \in Process \ {p} : KeysOf(q)'
        /\ (box.salt = 0 => box.uuid \in 0..fresh)'
        /\ (handle[p].salt = 0 => handle[p].uuid \in 0..fresh)'
    BY <1>1, <1>3, <2>6, <2>7, OthersKeep
  <2>9. KeysOf(p)'
    BY <1>1, <1>2, <2>8, NoHandleIsNone DEF KeysOf, Makes, Head1
  <2>10. (Had(box) \/ Lost(box))'
    BY <1>4, <2>5
  <2>11. \A q \in Process : KeysOf(q)'
    BY <2>8, <2>9
  <2> QED BY <2>8, <2>10, <2>11 DEF KeysHad, KeysOf
<1> QED BY <1>6, <1>7 DEF writeFailsLate

\* A key is installed only where there is none.
LEMMA ImportKeeps ==
  ASSUME VaultAssumption, TypeOK, KeysHad, TypeOK', NEW s, importKeyFromFile(s)
  PROVE  KeysHad'
<1>1. /\ keychain' = [keychain EXCEPT ![box.uuid] = unwrapMasterKey(s)]
      /\ keychain[box.uuid] = NoKey
      /\ UNCHANGED <<box, handle, call, todo, fresh>>
  BY DEF importKeyFromFile
<1>2. ASSUME NEW h, Had(h) PROVE Had(h)'
  <2>1. h.salt = 0 => h.uuid \in 1..MaxFresh /\ keychain[h.uuid] # NoKey
    <3>1. MaxFresh \in Nat /\ fresh \in 0..MaxFresh
      BY DEF VaultAssumption, TypeOK
    <3> QED BY <1>2, <3>1 DEF Had
  <2>2. h.salt = 0 => keychain'[h.uuid] = keychain[h.uuid]
    BY <1>1, <2>1 DEF TypeOK, KeptOK
  <2> QED BY <1>1, <1>2, <2>2, HadStays
<1>3. (box # NoBox => Had(box) \/ Lost(box))'
  <2>1. PICK b : b = box
    OBVIOUS
  <2>2. (Had(b) => Had(b)') /\ (Lost(b) => Lost(b)')
    BY <1>1, <1>2 DEF Lost
  <2> QED BY <1>1, <2>1, <2>2 DEF KeysHad
<1>4. ASSUME NEW p \in Process PROVE KeysOf(p)'
  <2>1. PICK h : h = handle[p]
    OBVIOUS
  <2>2. Had(h) => Had(h)'
    BY <1>2
  <2>3. Had(handle[p]) => Had(handle[p])'
    BY <1>1, <2>1, <2>2
  <2>4. ToBeKept(handle[p])' = ToBeKept(handle[p]) /\ Head1(p, "init")' = Head1(p, "init")
        /\ Makes(p)' = Makes(p) /\ OfItsOwn(p)' = OfItsOwn(p)
    BY <1>1 DEF ToBeKept, Head1, Makes, OfItsOwn
  <2>5. KeysOf(p)
    BY DEF KeysHad, KeysOf
  <2> QED BY <1>1, <2>3, <2>4, <2>5 DEF KeysOf
<1> QED BY <1>1, <1>3, <1>4 DEF KeysHad, KeysOf

LEMMA InitHasKeys == ASSUME Init PROVE KeysHad
  BY DEF Init, KeysHad, NoBox, NoHandle, Head1, Makes

LEMMA UnchangedKeeps ==
  ASSUME TypeOK, KeysHad, UNCHANGED vars
  PROVE  TypeOK' /\ KeysHad'
<1>1. TypeOK'
  BY DEF vars, TypeOK, KeptOK, BoxOK, CallsOK, Idle, HandlesOK
<1>2. KeysHad'
  BY DEF vars, KeysHad, Had, Lost, ToBeKept, Head1, Makes, OfItsOwn
<1> QED BY <1>1, <1>2

\* Each step keeps the types and the keys.
LEMMA EditsKeep ==
  ASSUME VaultAssumption, TypeOK, KeysHad, NEW p \in Process, NEW e \in AnyStep, edit(p, e),
         e.do \notin {"init", "seal"}
  PROVE  TypeOK' /\ KeysHad'
  BY EditTyped, EditKeeps

LEMMA CallsOfOneKeep ==
  ASSUME VaultAssumption, TypeOK, KeysHad, NEW p \in Process
  PROVE  /\ (\E s \in Password \cup {"keychain"}, o \in BOOLEAN,
               opts \in {{}, {"keys", "recovery"}} : create(p, s, o, opts)) => TypeOK' /\ KeysHad'
         /\ (\E s \in Password \cup {"keychain"} : open(p, s)) => TypeOK' /\ KeysHad'
         /\ (\E c \in Card : \/ edit(p, addCard(c, FALSE)) \/ edit(p, removeCard(c))
                             \/ startSetDefault(p, c)) => TypeOK' /\ KeysHad'
         /\ (\E a \in Address : \/ edit(p, addAddress(a)) \/ edit(p, removeAddress(a))
                \/ edit(p, setDefaultAddress(a)) \/ startUpdateBilling(p, a)) => TypeOK' /\ KeysHad'
         /\ edit(p, createMandateKey) => TypeOK' /\ KeysHad'
         /\ exportKey(p) \/ close(p) => TypeOK' /\ KeysHad'
         /\ (\E algorithm \in Algorithm : edit(p, createUcpSigningKey(algorithm)))
              => TypeOK' /\ KeysHad'
         /\ (\E old, new \in Password : startRotate(p, old, new)) => TypeOK' /\ KeysHad'
<1>1. ASSUME NEW s \in Password \cup {"keychain"}, NEW o \in BOOLEAN,
             NEW opts \in {{}, {"keys", "recovery"}}, create(p, s, o, opts)
      PROVE  TypeOK' /\ KeysHad'
  BY <1>1, CreateTyped, CreateKeeps
<1>2. ASSUME NEW s \in Password \cup {"keychain"}, open(p, s) PROVE TypeOK' /\ KeysHad'
  BY <1>2, OpenTyped, OpenKeeps
<1>3. ASSUME NEW c \in Card, edit(p, addCard(c, FALSE)) \/ edit(p, removeCard(c)) PROVE TypeOK' /\ KeysHad'
  BY <1>3, EditsAreSteps, EditsKeep
<1>4. ASSUME NEW c \in Card, startSetDefault(p, c) PROVE TypeOK' /\ KeysHad'
  BY <1>4, SetDefaultTyped, SetDefaultKeeps
<1>5. ASSUME NEW a \in Address,
             edit(p, addAddress(a)) \/ edit(p, removeAddress(a)) \/ edit(p, setDefaultAddress(a))
      PROVE  TypeOK' /\ KeysHad'
  BY <1>5, EditsAreSteps, EditsKeep
<1>6. ASSUME NEW a \in Address, startUpdateBilling(p, a) PROVE TypeOK' /\ KeysHad'
  BY <1>6, UpdateBillingTyped, UpdateBillingKeeps
<1>7. ASSUME edit(p, createMandateKey) PROVE TypeOK' /\ KeysHad'
  BY <1>7, EditsAreSteps, EditsKeep
<1>8. ASSUME exportKey(p) PROVE TypeOK' /\ KeysHad'
  BY <1>8, ExportTyped, ExportKeeps
<1>9. ASSUME close(p) PROVE TypeOK' /\ KeysHad'
  BY <1>9, CloseTyped, CloseKeeps
<1>10. ASSUME NEW algorithm \in Algorithm, edit(p, createUcpSigningKey(algorithm))
       PROVE  TypeOK' /\ KeysHad'
  BY <1>10, EditsAreSteps, EditsKeep
<1>11. ASSUME NEW old \in Password, NEW new \in Password, startRotate(p, old, new)
       PROVE  TypeOK' /\ KeysHad'
  BY <1>11, StartRotateTyped, StartRotateKeeps
<1> QED BY <1>1, <1>2, <1>3, <1>4, <1>5, <1>6, <1>7, <1>8, <1>9, <1>10, <1>11

LEMMA StepsOfOneKeep ==
  ASSUME VaultAssumption, TypeOK, KeysHad, NEW p \in Process
  PROVE  /\ initKey(p) \/ initBox(p) \/ writePolicy(p) => TypeOK' /\ KeysHad'
         /\ exportRecovery(p) \/ loadWalletPolicy(p) => TypeOK' /\ KeysHad'
         /\ readCurrentRecord(p) \/ writeCurrentRecord(p) => TypeOK' /\ KeysHad'
         /\ rotatePasswordVault(p) \/ rotatePassword(p) => TypeOK' /\ KeysHad'
         /\ stepFails(p) \/ writeFailsLate(p) \/ dies(p) => TypeOK' /\ KeysHad'
<1>1. initKey(p) => TypeOK' /\ KeysHad'
  BY InitKeyTyped, InitKeyKeeps
<1>2. initBox(p) => TypeOK' /\ KeysHad'
  BY InitBoxTyped, InitBoxKeeps
<1>3. writePolicy(p) => TypeOK' /\ KeysHad'
  BY WritePolicyTyped, WritePolicyKeeps
<1>4. exportRecovery(p) => TypeOK' /\ KeysHad'
  BY RecoveryTyped, RecoveryKeeps
<1>5. loadWalletPolicy(p) => TypeOK' /\ KeysHad'
  BY LoadTyped, LoadKeeps
<1>6. readCurrentRecord(p) => TypeOK' /\ KeysHad'
  BY ReadTyped, ReadKeeps
<1>7. writeCurrentRecord(p) => TypeOK' /\ KeysHad'
  BY WriteTyped, WriteKeeps
<1>8. rotatePasswordVault(p) => TypeOK' /\ KeysHad'
  BY ResealTyped, ResealKeeps
<1>9. rotatePassword(p) => TypeOK' /\ KeysHad'
  BY ReopenTyped, ReopenKeeps
<1>10. stepFails(p) => TypeOK' /\ KeysHad'
  BY FailTyped, FailKeeps
<1>11. dies(p) => TypeOK' /\ KeysHad'
  BY DieTyped, DieKeeps
<1>12. writeFailsLate(p) => TypeOK' /\ KeysHad'
  BY LateTyped, LateKeeps
<1> QED BY <1>1, <1>2, <1>3, <1>4, <1>5, <1>6, <1>7, <1>8, <1>9, <1>10, <1>11, <1>12

LEMMA NextKeeps ==
  ASSUME VaultAssumption, TypeOK, KeysHad, [Next]_vars
  PROVE  TypeOK' /\ KeysHad'
<1>1. ASSUME Next PROVE TypeOK' /\ KeysHad'
  <2>1. ASSUME NEW s \in Password, importKeyFromFile(s) PROVE TypeOK' /\ KeysHad'
    BY <2>1, ImportTyped, ImportKeeps
  <2> QED BY <1>1, <2>1, CallsOfOneKeep, StepsOfOneKeep DEF Next
<1> QED BY <1>1, UnchangedKeeps

LEMMA KeysAreHad == ASSUME VaultAssumption PROVE Spec => [](TypeOK /\ KeysHad)
<1>1. Init => TypeOK /\ KeysHad
  BY InitTyped, InitHasKeys
<1>2. TypeOK /\ KeysHad /\ [Next]_vars => (TypeOK /\ KeysHad)'
  BY NextKeeps
<1> QED BY <1>1, <1>2, PTL DEF Spec

\* Every key is had, so a box that is there opens.
LEMMA HadOpens == ASSUME VaultAssumption, TypeOK, KeysHad PROVE BoxOpens
<1> SUFFICES ASSUME box # NoBox, box.key # LostKey(box.uuid)
             PROVE  \E s \in Password \cup {"keychain"} : Opens(s)
  BY DEF BoxOpens
<1>1. Had(box)
  BY DEF KeysHad, Lost
<1>2. CASE box.salt = 0
  BY <1>1, <1>2 DEF Had, Opens, masterKeyForOpen, osKeystore
<1>3. CASE box.salt # 0
  <2>1. PICK s \in Password : box.key = <<box.salt, s>>
    BY <1>1, <1>3 DEF Had
  <2>2. s # "keychain" => Opens(s)
    BY <1>3, <2>1 DEF Opens, masterKeyForOpen, derivePasswordKey
  <2>3. s # "keychain"
    BY DEF VaultAssumption
  <2> QED BY <2>2, <2>3
<1> QED BY <1>2, <1>3

\* BuyerVault.init, open, the edits, exportKeyToFile and rotatePasswordVault (buyer/src/vault/vault.ts):
\* whatever creations, calls and changes of the password overlap, fail or die, the box
\* that is there opens with a password or the keychain, unless its own creation took it for
\* not written and withdrew its key.
THEOREM BoxesOpen == ASSUME VaultAssumption PROVE Spec => []BoxOpens
<1>1. TypeOK /\ KeysHad => BoxOpens
  BY HadOpens
<1> QED BY <1>1, KeysAreHad, PTL

(***************************************************************************)
(* Records                                                                 *)
(***************************************************************************)
\* The record a call left to do leaves is found step by step.
LEMMA DoesIsOne ==
  ASSUME NEW e, NEW r, NEW after, NEW kept, Does(e, r, after, kept)
  PROVE  /\ e.do \in EditKind /\ ~Throws(e, r) => after = IF Keeps(e, r) THEN r ELSE Edited(e, r)
         /\ e.do \in {"write", "reseal"} => after = kept
         /\ e.do = "seal" => after = Empty
         /\ e.do \in {"init", "policy", "recovery", "load", "reopen"} => after = r
  BY DEF Does, EditKind

LEMMA DoesAnyKept ==
  ASSUME NEW e, NEW r, NEW after, NEW kept, Does(e, r, after, kept), NEW other,
         e.do \notin {"write", "reseal"}
  PROVE  Does(e, r, after, other)
  BY DEF Does

\* A step that is done leaves the rest of the call.
LEMMA ThroughTail ==
  ASSUME NEW s \in Seq(AnyStep), s # <<>>, Placed(s), NEW rs, NEW kept, NEW last,
         Through(rs, s, kept, last)
  PROVE  /\ Does(s[1], rs[1], rs[2], kept)
         /\ Len(s) = 1 => rs[2] = last
         /\ \E us : us[1] = rs[2] /\ Through(us, Tail(s), kept, last)
<1> DEFINE t == Tail(s)
<1>1. /\ t \in Seq(AnyStep) /\ Len(t) = Len(s) - 1 /\ Len(s) \in Nat \ {0}
      /\ \A i \in 1..Len(s) - 1 : t[i] = s[i + 1]
  BY TailOfSteps
<1>2. Does(s[1], rs[1], rs[1 + 1], kept)
  <2>1. 1 \in 1..Len(s)
    BY <1>1
  <2> QED BY <2>1 DEF Through
<1>3. Len(s) = 1 => rs[2] = last
  <2>1. rs[Len(s) + 1] = last
    BY DEF Through
  <2> QED BY <2>1
<1> HIDE DEF t
<1>4. PICK us : us = [i \in 1..Len(s) |-> rs[i + 1]]
  OBVIOUS
<1>5. us[1] = rs[2] /\ us[Len(t) + 1] = last
  <2>1. 1 \in 1..Len(s) /\ Len(s) \in 1..Len(s) /\ Len(t) + 1 = Len(s)
    BY <1>1
  <2>2. rs[Len(s) + 1] = last
    BY DEF Through
  <2> QED BY <1>4, <2>1, <2>2
<1>6. ASSUME NEW i \in 1..Len(t) PROVE Does(t[i], us[i], us[i + 1], kept)
  <2>1. i \in 1..Len(s) - 1 /\ i \in 1..Len(s) /\ i + 1 \in 1..Len(s)
    BY <1>1
  <2>2. t[i] = s[i + 1] /\ us[i] = rs[i + 1] /\ us[i + 1] = rs[i + 1 + 1]
    BY <1>1, <1>4, <2>1
  <2>3. PICK k \in 1..Len(s) : k = i + 1
    BY <2>1
  <2>4. Does(s[k], rs[k], rs[k + 1], kept)
    BY DEF Through
  <2> QED BY <2>2, <2>3, <2>4
<1>7. Through(us, t, kept, last)
  BY <1>5, <1>6 DEF Through
<1> QED BY <1>2, <1>3, <1>5, <1>7 DEF t

\* What was read and changed is what the write that takes its place leaves.
LEMMA ThroughWrite ==
  ASSUME NEW s \in Seq(AnyStep), s # <<>>, Placed(s), s[1].do \in EditKind,
         NEW rs, NEW kept, NEW last, Through(rs, s, kept, last), ~Throws(s[1], rs[1]),
         ~Keeps(s[1], rs[1]), NEW now, now = Edited(s[1], rs[1])
  PROVE  Through(rs, <<Step("write")>> \o Tail(s), now, last)
<1> DEFINE t == <<Step("write")>> \o Tail(s)
<1>1. Len(t) = Len(s) /\ t[1] = Step("write") /\ \A i \in 2..Len(s) : t[i] = s[i]
  BY WriteFirst
<1>2. Len(s) \in Nat \ {0}
  BY TailOfSteps
<1> HIDE DEF t
<1>3. ASSUME NEW i \in 1..Len(t) PROVE Does(t[i], rs[i], rs[i + 1], now)
  <2>0. Does(s[i], rs[i], rs[i + 1], kept)
    BY <1>1 DEF Through
  <2>1. CASE i = 1
    <3>1. rs[i + 1] = now
      BY <2>0, <2>1, DoesIsOne
    <3>2. t[i].do = "write"
      BY <1>1, <2>1 DEF Step, Edit
    <3> QED BY <3>1, <3>2 DEF Does, EditKind
  <2>2. CASE i # 1
    <3>1. i \in 2..Len(s)
      BY <1>1, <1>2, <2>2
    <3>2. s[i].do \notin {"write", "reseal"}
      BY <1>1, <2>2 DEF Placed
    <3> QED BY <1>1, <2>0, <3>1, <3>2, DoesAnyKept
  <2> QED BY <2>1, <2>2
<1>4. rs[Len(t) + 1] = last
  BY <1>1 DEF Through
<1> QED BY <1>3, <1>4 DEF Through, t

OnlyCallOf(p) == \A q \in Process \ {p} : Idle(q)

\* The one call that is under way.
LEMMA TheCall ==
  ASSUME TypeOK, BookKept, ~tainted, NEW p \in Process, ~Idle(p)
  PROVE  OnlyCallOf(p) /\ \E rs : rs[1] = box.record /\ Through(rs, todo[p], record[p], book)
  BY DEF BookKept, Leads, OnlyCallOf

LEMMA NoCall ==
  ASSUME TypeOK, BookKept, ~tainted, NEW p \in Process, Idle(p), ~Overlaps(p)
  PROVE  OnlyCallOf(p) /\ box.record = book
  BY DEF BookKept, Overlaps, OnlyCallOf

\* How the book is still right: the call of p goes on, or it is over.
LEMMA GoesOn ==
  ASSUME NEW p \in Process, ~Idle(p)', Leads(p)', OnlyCallOf(p)'
  PROVE  BookKept'
  BY DEF BookKept, OnlyCallOf

LEMMA IsOver ==
  ASSUME NEW p \in Process, Idle(p)', OnlyCallOf(p)', (box.record = book)'
  PROVE  BookKept'
  BY DEF BookKept, OnlyCallOf

LEMMA BeginsRight ==
  ASSUME TypeOK, BookKept, NEW p \in Process, NEW what, what # "none", NEW steps \in Seq(AnyStep),
         NEW should, Begins(p, what, steps, should),
         box.record = book =>
           \E rs : rs[1] = box'.record /\ Through(rs, steps, record'[p], should)
  PROVE  BookKept'
<1> SUFFICES ASSUME ~tainted' PROVE BookKept'
  BY DEF BookKept
<1>1. ~tainted /\ ~Overlaps(p) /\ Idle(p) /\ book' = should
  BY DEF Begins
<1>2. OnlyCallOf(p) /\ box.record = book
  BY <1>1, NoCall
<1>3. call' = [call EXCEPT ![p] = what] /\ todo'[p] = steps
  <2> HIDE DEF AnyStep
  <2> QED BY DEF Begins, TypeOK, CallsOK
<1>4. ~Idle(p)' /\ OnlyCallOf(p)'
  BY <1>2, <1>3 DEF TypeOK, CallsOK, Idle, OnlyCallOf
<1>5. Leads(p)'
  BY <1>1, <1>2, <1>3 DEF Leads
<1> QED BY <1>4, <1>5, GoesOn

\* A step is done, and its call goes on or ends with it.
LEMMA DoneRight ==
  ASSUME TypeOK, BookKept, NEW p \in Process, todo[p] # <<>>, Done1(p),
         UNCHANGED <<call, record, tainted, book>>,
         \A after : Does(todo[p][1], box.record, after, record[p]) => after = box'.record
  PROVE  BookKept'
<1> SUFFICES ASSUME ~tainted PROVE BookKept'
  BY DEF BookKept
<1>1. todo[p] \in Seq(AnyStep) /\ Placed(todo[p]) /\ ~Idle(p)
  BY HeadOfCall
<1>2. OnlyCallOf(p) /\ \E rs : rs[1] = box.record /\ Through(rs, todo[p], record[p], book)
  BY <1>1, TheCall
<1>3. PICK rs : rs[1] = box.record /\ Through(rs, todo[p], record[p], book)
  BY <1>2
<1>4. /\ Does(todo[p][1], rs[1], rs[2], record[p])
      /\ \E us : us[1] = rs[2] /\ Through(us, Tail(todo[p]), record[p], book)
  BY <1>1, <1>3, ThroughTail
<1>5. rs[2] = box'.record
  BY <1>3, <1>4
<1>6. todo'[p] = Tail(todo[p])
  <2> HIDE DEF AnyStep
  <2> QED BY DEF Done1, TypeOK, CallsOK
<1>7. Leads(p)'
  BY <1>4, <1>5, <1>6 DEF Leads
<1>8. ~Idle(p)' /\ OnlyCallOf(p)'
  BY <1>1, <1>2 DEF Idle, OnlyCallOf
<1> QED BY <1>7, <1>8, GoesOn

LEMMA EndsRight ==
  ASSUME TypeOK, BookKept, NEW p \in Process, todo[p] # <<>>, Len(todo[p]) = 1, Ends(p),
         UNCHANGED <<tainted, book>>,
         \A after : Does(todo[p][1], box.record, after, record[p]) => after = box'.record
  PROVE  BookKept'
<1> SUFFICES ASSUME ~tainted PROVE BookKept'
  BY DEF BookKept
<1>1. todo[p] \in Seq(AnyStep) /\ Placed(todo[p]) /\ ~Idle(p)
  BY HeadOfCall
<1>2. OnlyCallOf(p) /\ \E rs : rs[1] = box.record /\ Through(rs, todo[p], record[p], book)
  BY <1>1, TheCall
<1>3. PICK rs : rs[1] = box.record /\ Through(rs, todo[p], record[p], book)
  BY <1>2
<1>4. Does(todo[p][1], rs[1], rs[2], record[p]) /\ rs[2] = book
  BY <1>1, <1>3, ThroughTail
<1>5. (box.record = book)'
  BY <1>3, <1>4
<1>6. Idle(p)' /\ OnlyCallOf(p)'
  BY <1>2 DEF Ends, TypeOK, CallsOK, Idle, OnlyCallOf
<1> QED BY <1>5, <1>6, IsOver

LEMMA NextRight ==
  ASSUME TypeOK, BookKept, NEW p \in Process, todo[p] # <<>>, Next1(p),
         UNCHANGED <<tainted, book>>,
         \A after : Does(todo[p][1], box.record, after, record[p]) => after = box'.record
  PROVE  BookKept'
<1>1. CASE Len(todo[p]) = 1
  BY <1>1, EndsRight DEF Next1
<1>2. CASE Len(todo[p]) # 1
  BY <1>2, DoneRight DEF Next1
<1> QED BY <1>1, <1>2

LEMMA TaintedRight == ASSUME tainted' PROVE BookKept'
  BY DEF BookKept

\* A call, or none, that does not touch a record.
LEMMA StillRight ==
  ASSUME BookKept, UNCHANGED <<call, todo, record, tainted, book>>, box'.record = box.record
  PROVE  BookKept'
<1>1. \A p : Idle(p)' = Idle(p) /\ Leads(p)' = Leads(p)
  BY DEF Idle, Leads
<1> QED BY <1>1 DEF BookKept

LEMMA InitKeyRight ==
  ASSUME TypeOK, BookKept, NEW p \in Process, initKey(p)
  PROVE  BookKept'
<1>1. CASE box # NoBox
  BY <1>1, TaintedRight DEF initKey, Throw, WentWrong
<1>2. CASE box = NoBox
  <2>1. todo[p] # <<>> /\ todo[p][1].do = "init"
    BY HeadOfCall DEF initKey, Head1
  <2> QED BY <1>2, <2>1, DoesIsOne, DoneRight DEF initKey
<1> QED BY <1>1, <1>2

LEMMA InitBoxRight ==
  ASSUME TypeOK, BookKept, NEW p \in Process, initBox(p)
  PROVE  BookKept'
<1>1. todo[p] # <<>> /\ todo[p][1].do = "seal"
  BY HeadOfCall DEF initBox, Head1
<1>2. box'.record = Empty
  BY SealedTyped, EmptySound DEF initBox
<1> QED BY <1>1, <1>2, DoesIsOne, DoneRight DEF initBox

LEMMA WritePolicyRight ==
  ASSUME TypeOK, BookKept, NEW p \in Process, writePolicy(p)
  PROVE  BookKept'
<1>1. CASE policy
  BY <1>1, TaintedRight DEF writePolicy, Throw, WentWrong
<1>2. CASE ~policy
  <2>1. todo[p] # <<>> /\ todo[p][1].do = "policy"
    BY HeadOfCall DEF writePolicy, Head1
  <2> QED BY <1>2, <2>1, DoesIsOne, DoneRight DEF writePolicy
<1> QED BY <1>1, <1>2

LEMMA RecoveryRight ==
  ASSUME TypeOK, BookKept, NEW p \in Process, exportRecovery(p)
  PROVE  BookKept'
<1>1. CASE recovery # NoRecovery
  BY <1>1, TaintedRight DEF exportRecovery, Throw, WentWrong
<1>2. CASE recovery = NoRecovery
  <2>1. todo[p] # <<>> /\ todo[p][1].do = "recovery"
    BY HeadOfCall DEF exportRecovery, Head1
  <2> QED BY <1>2, <2>1, DoesIsOne, NextRight DEF exportRecovery
<1> QED BY <1>1, <1>2

\* A call ends with its load and its reopening.
LEMMA LastOfCall ==
  ASSUME TypeOK, NEW p \in Process, todo[p] # <<>>, todo[p][1].do \in {"load", "reopen"}
  PROVE  Len(todo[p]) = 1
<1>1. todo[p] \in Seq(AnyStep) /\ Placed(todo[p])
  BY HeadOfCall
<1>2. 1 \in 1..Len(todo[p])
  BY <1>1, TailOfSteps
<1> QED BY <1>1, <1>2 DEF Placed

LEMMA LoadRight ==
  ASSUME TypeOK, BookKept, NEW p \in Process, loadWalletPolicy(p)
  PROVE  BookKept'
<1>1. CASE ~policy
  BY <1>1, TaintedRight DEF loadWalletPolicy, Throw, WentWrong
<1>2. CASE policy
  <2>1. todo[p] # <<>> /\ todo[p][1].do = "load"
    BY HeadOfCall DEF loadWalletPolicy, Head1
  <2>2. Len(todo[p]) = 1
    BY <2>1, LastOfCall
  <2> QED BY <1>2, <2>1, <2>2, DoesIsOne, EndsRight DEF loadWalletPolicy
<1> QED BY <1>1, <1>2

LEMMA ReopenRight ==
  ASSUME TypeOK, BookKept, NEW p \in Process, rotatePassword(p)
  PROVE  BookKept'
<1>1. CASE Throw(p)
  BY <1>1, TaintedRight DEF Throw, WentWrong
<1>2. CASE ~Throw(p)
  <2>1. todo[p] # <<>> /\ todo[p][1].do = "reopen"
    BY HeadOfCall DEF rotatePassword, Head1
  <2>2. Len(todo[p]) = 1
    BY <2>1, LastOfCall
  <2> QED BY <1>2, <2>1, <2>2, DoesIsOne, EndsRight DEF rotatePassword
<1> QED BY <1>1, <1>2

LEMMA ReadRight ==
  ASSUME TypeOK, BookKept, NEW p \in Process, readCurrentRecord(p)
  PROVE  BookKept'
<1>0. todo[p] # <<>> /\ todo[p][1].do \in EditKind /\ Head(todo[p]) = todo[p][1]
      /\ todo[p] \in Seq(AnyStep) /\ Placed(todo[p]) /\ ~Idle(p)
  BY HeadOfCall DEF readCurrentRecord
<1> DEFINE e == todo[p][1]
           Ready == ~(box = NoBox \/ box.key # handle[p].key \/ Throws(e, box.record))
<1>1. CASE ~Ready
  <2>1. Throw(p)
    BY <1>0, <1>1 DEF readCurrentRecord
  <2> QED BY <2>1, TaintedRight DEF Throw, WentWrong
<1>2. CASE Ready /\ Keeps(e, box.record)
  <2>1. Next1(p) /\ UNCHANGED <<box, tainted, book>>
    BY <1>0, <1>2 DEF readCurrentRecord
  <2>2. \A after : Does(e, box.record, after, record[p]) => after = box'.record
    BY <1>0, <1>2, <2>1, DoesIsOne
  <2> QED BY <1>0, <2>1, <2>2, NextRight
<1>3. CASE Ready /\ ~Keeps(e, box.record)
  <2>1. /\ record' = [record EXCEPT ![p] = Edited(e, box.record)]
        /\ todo' = [todo EXCEPT ![p] = <<Step("write")>> \o Tail(@)]
        /\ UNCHANGED <<box, call, tainted, book>>
    BY <1>0, <1>3 DEF readCurrentRecord
  <2> SUFFICES ASSUME ~tainted PROVE BookKept'
    BY <2>1 DEF BookKept
  <2>2. OnlyCallOf(p) /\ \E rs : rs[1] = box.record /\ Through(rs, todo[p], record[p], book)
    BY <1>0, TheCall
  <2>3. PICK rs : rs[1] = box.record /\ Through(rs, todo[p], record[p], book)
    BY <2>2
  <2>4. PICK now : now = Edited(e, box.record)
    OBVIOUS
  <2>5. Through(rs, <<Step("write")>> \o Tail(todo[p]), now, book)
    BY <1>0, <1>3, <2>3, <2>4, ThroughWrite
  <2>6. record'[p] = now
    BY <2>1, <2>4 DEF TypeOK, CallsOK
  <2>7. todo'[p] = <<Step("write")>> \o Tail(todo[p])
    <3> HIDE DEF AnyStep
    <3> QED BY <2>1 DEF TypeOK, CallsOK
  <2>8. Leads(p)'
    BY <2>1, <2>3, <2>5, <2>6, <2>7 DEF Leads
  <2>9. ~Idle(p)' /\ OnlyCallOf(p)'
    BY <1>0, <2>1, <2>2 DEF Idle, OnlyCallOf
  <2> QED BY <2>8, <2>9, GoesOn
<1> QED BY <1>1, <1>2, <1>3

LEMMA WriteRight ==
  ASSUME TypeOK, BookKept, NEW p \in Process, writeCurrentRecord(p)
  PROVE  BookKept'
<1>1. todo[p] # <<>> /\ todo[p][1].do = "write"
  BY HeadOfCall DEF writeCurrentRecord, Head1
<1>2. box'.record = record[p]
  BY SealedTyped DEF writeCurrentRecord, TypeOK, CallsOK
<1> QED BY <1>1, <1>2, DoesIsOne, NextRight DEF writeCurrentRecord

LEMMA ResealRight ==
  ASSUME TypeOK, BookKept, NEW p \in Process, rotatePasswordVault(p)
  PROVE  BookKept'
<1>1. todo[p] # <<>> /\ todo[p][1].do = "reseal"
  BY HeadOfCall DEF rotatePasswordVault, Head1
<1>2. box'.record = record[p]
  BY DEF rotatePasswordVault, packVaultBox
<1> QED BY <1>1, <1>2, DoesIsOne, DoneRight DEF rotatePasswordVault

\* What an edit that goes through leaves.
LEMMA EditDoes ==
  ASSUME NEW e, e.do \in EditKind, NEW r, NEW after, NEW kept,
         Throws(e, r) \/ after = IF Keeps(e, r) THEN r ELSE Edited(e, r)
  PROVE  Does(e, r, after, kept)
  BY DEF Does, EditKind

LEMMA OtherDoes ==
  ASSUME NEW e, e.do \in {"init", "policy", "recovery", "load", "reopen"}, NEW r, NEW kept
  PROVE  Does(e, r, r, kept)
  BY DEF Does, EditKind

LEMMA EditRight ==
  ASSUME TypeOK, BookKept, NEW p \in Process, NEW e \in AnyStep, e.do \in EditKind, edit(p, e)
  PROVE  BookKept'
<1>1. PICK should : /\ should = IF Throws(e, book) \/ Keeps(e, book) THEN book ELSE Edited(e, book)
                    /\ Begins(p, "edit", <<e>>, should)
  BY DEF edit
<1>2. <<e>> \in Seq(AnyStep) /\ Len(<<e>>) = 1 /\ <<e>>[1] = e
  <2> HIDE DEF AnyStep
  <2> QED OBVIOUS
<1>3. box'.record = box.record
  BY DEF edit
<1>4. ASSUME box.record = book
      PROVE  \E rs : rs[1] = box'.record /\ Through(rs, <<e>>, record'[p], should)
  <2>1. PICK rs : rs = <<book, should>>
    OBVIOUS
  <2>2. rs[1] = book /\ rs[2] = should
    BY <2>1
  <2>3. Does(e, rs[1], rs[2], record'[p])
    BY <1>1, <2>2, EditDoes
  <2>4. PICK s : s = <<e>>
    OBVIOUS
  <2>5. Len(s) = 1 /\ s[1] = e
    BY <1>2, <2>4
  <2>6. Through(rs, s, record'[p], should)
    BY <2>2, <2>3, <2>5 DEF Through
  <2> QED BY <1>3, <1>4, <2>2, <2>4, <2>6
<1> QED BY <1>1, <1>2, <1>4, BeginsRight

LEMMA ExportRight ==
  ASSUME TypeOK, BookKept, NEW p \in Process, exportKey(p)
  PROVE  BookKept'
<1>1. PICK s : s = <<Step("recovery")>>
  OBVIOUS
<1>2. s \in Seq(AnyStep) /\ Len(s) = 1 /\ s[1].do = "recovery"
  <2>1. PICK e \in AnyStep : e = Step("recovery") /\ e.do = "recovery"
    BY RecoveryIsStep
  <2>2. s = <<e>>
    BY <1>1, <2>1
  <2> HIDE DEF AnyStep
  <2> QED BY <2>1, <2>2
<1>3. Begins(p, "export", s, book) /\ box'.record = box.record
  BY <1>1 DEF exportKey
<1>4. ASSUME box.record = book
      PROVE  \E rs : rs[1] = box'.record /\ Through(rs, s, record'[p], book)
  <2>1. PICK rs : rs = <<book, book>>
    OBVIOUS
  <2>2. rs[1] = book /\ rs[2] = book
    BY <2>1
  <2>3. Through(rs, s, record'[p], book)
    BY <1>2, <2>2, OtherDoes DEF Through
  <2> QED BY <1>3, <1>4, <2>2, <2>3
<1> QED BY <1>2, <1>3, <1>4, BeginsRight

LEMMA StartRotateRight ==
  ASSUME TypeOK, BookKept, NEW p \in Process, NEW old, NEW new, startRotate(p, old, new)
  PROVE  BookKept'
<1>1. PICK s : s = <<Reseal(box.uuid, derivePasswordKey(fresh + 1, new)), Reopen(new)>>
  OBVIOUS
<1>2. s \in Seq(AnyStep) /\ Len(s) = 2 /\ s[1].do = "reseal" /\ s[2].do = "reopen"
  BY <1>1, RotateStepsAre DEF startRotate
<1>3. Begins(p, "rotate", s, book) /\ box'.record = box.record /\ record'[p] = box.record
  BY <1>1 DEF startRotate, TypeOK, CallsOK
<1>4. ASSUME box.record = book
      PROVE  \E rs : rs[1] = box'.record /\ Through(rs, s, record'[p], book)
  <2>1. PICK rs : rs = <<book, book, book>>
    OBVIOUS
  <2>2. rs[1] = book /\ rs[2] = book /\ rs[3] = book
    BY <2>1
  <2>3. Does(s[1], rs[1], rs[2], record'[p])
    BY <1>2, <1>3, <1>4, <2>2 DEF Does, EditKind
  <2>4. Does(s[2], rs[2], rs[3], record'[p])
    BY <1>2, <2>2, OtherDoes
  <2>5. \A i \in 1..2 : i = 1 \/ i = 2
    OBVIOUS
  <2>6. Through(rs, s, record'[p], book)
    BY <1>2, <2>2, <2>3, <2>4, <2>5 DEF Through
  <2> QED BY <1>3, <1>4, <2>2, <2>6
<1> QED BY <1>2, <1>3, <1>4, BeginsRight

\* New billing takes the place of the address billed before.
LEMMA UpdateBillingRight ==
  ASSUME TypeOK, BookKept, NEW p \in Process, NEW a \in Address, startUpdateBilling(p, a)
  PROVE  BookKept'
<1>1. PICK r : r = box.record
  OBVIOUS
<1>2. PICK s : s = updateBilling(a, r)
  OBVIOUS
<1>3. Sound(r) /\ r \in Record
  BY <1>1 DEF TypeOK, BoxOK, Sound
<1>4. PICK left : left = IF r.addresses = <<>> THEN <<>> ELSE WithoutAddress(billing(r), r).addresses
  OBVIOUS
<1>5. PICK should : /\ book = r => should = [r EXCEPT !.addresses = Append(left, a), !.home = {a}]
                    /\ Begins(p, "billing", s, should)
  BY <1>1, <1>2, <1>4 DEF startUpdateBilling
<1>6. /\ s \in Seq(AnyStep)
      /\ IF r.addresses = <<>>
         THEN Len(s) = 2 /\ s[1] = addAddress(a) /\ s[2] = setDefaultAddress(a)
         ELSE /\ Len(s) = 3 /\ s[1] = removeAddress(billing(r)) /\ s[2] = addAddress(a)
              /\ s[3] = setDefaultAddress(a)
  BY <1>2, <1>3, UpdateBillingAre, Zenon
<1>7. box'.record = r
  BY <1>1 DEF startUpdateBilling
<1>8. PICK r1 : r1 = IF r.addresses = <<>> THEN r ELSE WithoutAddress(billing(r), r)
  OBVIOUS
<1>9. r1 \in Record /\ r1.addresses = left
      /\ [r1 EXCEPT !.addresses = Append(left, a), !.home = {a}]
           = [r EXCEPT !.addresses = Append(left, a), !.home = {a}]
  <2>1. CASE r.addresses = <<>>
    BY <1>3, <1>4, <1>8, <2>1
  <2>2. CASE r.addresses # <<>>
    <3>1. Sound(r1)
      BY <1>3, <1>8, <2>2, BillingIsThere, WithoutAddressSound
    <3>2. PICK l, h : r1 = [r EXCEPT !.addresses = l, !.home = h]
      BY <1>8, <2>2 DEF WithoutAddress
    <3>3. r1 \in Record /\ r1.addresses = left
      BY <1>4, <1>8, <2>2, <3>1 DEF Sound
    <3> QED BY <1>3, <3>2, <3>3 DEF Record
  <2> QED BY <2>1, <2>2
<1>10. PICK r2 : r2 = WithAddress(a, r1)
  OBVIOUS
<1>11. r2 \in Record /\ [r2 EXCEPT !.home = {a}] = [r EXCEPT !.addresses = Append(left, a), !.home = {a}]
  <2>1. PICK h : h \subseteq Address /\ r2 = [r1 EXCEPT !.addresses = Append(left, a), !.home = h]
    <3>1. PICK h : h = IF r1.addresses = <<>> THEN {a} ELSE r1.home
      OBVIOUS
    <3>2. h \subseteq Address
      BY <1>9, <3>1 DEF Record
    <3>3. r2 = [r1 EXCEPT !.addresses = Append(left, a), !.home = h]
      BY <1>9, <1>10, <3>1 DEF WithAddress
    <3> QED BY <3>2, <3>3
  <2>2. Append(left, a) \in Seq(Address)
    BY <1>9 DEF Record
  <2>3. r2 \in Record
    BY <1>9, <2>1, <2>2 DEF Record
  <2>4. [r2 EXCEPT !.home = {a}] = [r1 EXCEPT !.addresses = Append(left, a), !.home = {a}]
    BY <1>9, <2>1 DEF Record
  <2> QED BY <1>9, <2>3, <2>4
<1>12. \A kept : Does(addAddress(a), r1, r2, kept)
  <2>1. addAddress(a).do = "addAddress" /\ addAddress(a).id = a
    BY DEF addAddress, Edit
  <2>2. ~Keeps(addAddress(a), r1) /\ Edited(addAddress(a), r1) = r2 /\ addAddress(a).do \in EditKind
    BY <1>10, <2>1 DEF Keeps, Edited, EditKind
  <2> QED BY <2>2, EditDoes
<1>13. \A kept : Does(setDefaultAddress(a), r2, [r2 EXCEPT !.home = {a}], kept)
  <2>1. setDefaultAddress(a).do = "setDefaultAddress" /\ setDefaultAddress(a).id = a
    BY DEF setDefaultAddress, Edit
  <2>2. /\ ~Keeps(setDefaultAddress(a), r2) /\ setDefaultAddress(a).do \in EditKind
        /\ Edited(setDefaultAddress(a), r2) = [r2 EXCEPT !.home = {a}]
    BY <2>1 DEF Keeps, Edited, EditKind
  <2> QED BY <2>2, EditDoes
<1>14. r.addresses # <<>> => \A kept : Does(removeAddress(billing(r)), r, r1, kept)
  <2>1. removeAddress(billing(r)).do = "removeAddress" /\ removeAddress(billing(r)).id = billing(r)
    BY DEF removeAddress, Edit
  <2>2. /\ ~Keeps(removeAddress(billing(r)), r) /\ removeAddress(billing(r)).do \in EditKind
        /\ Edited(removeAddress(billing(r)), r) = WithoutAddress(billing(r), r)
    BY <2>1 DEF Keeps, Edited, EditKind
  <2> QED BY <1>8, <2>2, EditDoes
<1>15. ASSUME book = r
       PROVE  \E rs : rs[1] = box'.record /\ Through(rs, s, record'[p], should)
  <2>0. PICK r3 : r3 = [r2 EXCEPT !.home = {a}] /\ r3 = should
    BY <1>5, <1>11, <1>15
  <2>1. CASE r.addresses = <<>>
    <3>1. PICK rs : rs = <<r, r2, r3>>
      OBVIOUS
    <3>2. rs[1] = r /\ rs[2] = r2 /\ rs[3] = r3
      BY <3>1
    <3>3. r1 = r /\ Len(s) = 2 /\ s[1] = addAddress(a) /\ s[2] = setDefaultAddress(a)
      BY <1>6, <1>8, <2>1, Zenon
    <3>4. Does(s[1], rs[1], rs[2], record'[p]) /\ Does(s[2], rs[2], rs[3], record'[p])
      BY <1>12, <1>13, <2>0, <3>2, <3>3
    <3>5. \A i \in 1..2 : i = 1 \/ i = 2
      OBVIOUS
    <3>6. Through(rs, s, record'[p], should)
      BY <2>0, <3>2, <3>3, <3>4, <3>5 DEF Through
    <3> QED BY <1>7, <3>2, <3>6
  <2>2. CASE r.addresses # <<>>
    <3>1. PICK rs : rs = <<r, r1, r2, r3>>
      OBVIOUS
    <3>2. rs[1] = r /\ rs[2] = r1 /\ rs[3] = r2 /\ rs[4] = r3
      BY <3>1
    <3>3. Len(s) = 3 /\ s[1] = removeAddress(billing(r)) /\ s[2] = addAddress(a)
          /\ s[3] = setDefaultAddress(a)
      BY <1>6, <2>2, Zenon
    <3>4. Does(s[1], rs[1], rs[2], record'[p]) /\ Does(s[2], rs[2], rs[3], record'[p])
          /\ Does(s[3], rs[3], rs[4], record'[p])
      <4>1. Does(s[1], rs[1], rs[2], record'[p])
        BY <1>14, <2>2, <3>2, <3>3
      <4>2. Does(s[2], rs[2], rs[3], record'[p])
        BY <1>12, <3>2, <3>3
      <4>3. Does(s[3], rs[3], rs[4], record'[p])
        BY <1>13, <2>0, <3>2, <3>3
      <4> QED BY <4>1, <4>2, <4>3
    <3>5. \A i \in 1..3 : i = 1 \/ i = 2 \/ i = 3
      OBVIOUS
    <3>6. Through(rs, s, record'[p], should)
      BY <2>0, <3>2, <3>3, <3>4, <3>5 DEF Through
    <3> QED BY <1>7, <3>2, <3>6
  <2> QED BY <2>1, <2>2
<1>16. box.record = book => \E rs : rs[1] = box'.record /\ Through(rs, s, record'[p], should)
  BY <1>1, <1>15
<1> QED BY <1>5, <1>6, <1>16, BeginsRight

\* The first k cards.
FirstCards(x, k) == {x[j] : j \in 1..k}

LEMMA FirstCardsGrow ==
  ASSUME NEW x, NEW k \in Nat
  PROVE  FirstCards(x, k + 1) = FirstCards(x, k) \cup {x[k + 1]} /\ FirstCards(x, 0) = {}
<1>1. 1..k + 1 = (1..k) \cup {k + 1} /\ 1..0 = {}
  OBVIOUS
<1> QED BY <1>1 DEF FirstCards

\* The records on the way to another default: without the first k cards, and with them
\* again.
Without(r, x, k) ==
  [r EXCEPT !.cards = @ \ FirstCards(x, k), !.default = @ \ FirstCards(x, k)]
WithAgain(r, x, k, c) ==
  [r EXCEPT !.cards = FirstCards(x, k), !.default = FirstCards(x, k) \cap {c}]

LEMMA ExceptTwice ==
  ASSUME NEW r \in Record, NEW a, NEW b, NEW c, NEW d
  PROVE  [[r EXCEPT !.cards = a, !.default = b] EXCEPT !.cards = c, !.default = d]
           = [r EXCEPT !.cards = c, !.default = d]
BY DEF Record

LEMMA RemovesOne ==
  ASSUME NEW r, Sound(r), NEW x, NEW k \in Nat, NEW kept
  PROVE  Does(removeCard(x[k + 1]), Without(r, x, k), Without(r, x, k + 1), kept)
<1>1. removeCard(x[k + 1]).do = "removeCard" /\ removeCard(x[k + 1]).id = x[k + 1]
  BY DEF removeCard, Edit
<1>2. r \in Record
  BY DEF Sound
<1>3. PICK u : u = Without(r, x, k)
  OBVIOUS
<1>4. u.cards = r.cards \ FirstCards(x, k) /\ u.default = r.default \ FirstCards(x, k)
      /\ u = [r EXCEPT !.cards = @ \ FirstCards(x, k), !.default = @ \ FirstCards(x, k)]
  BY <1>2, <1>3 DEF Record, Without
<1>5. Edited(removeCard(x[k + 1]), u) = [u EXCEPT !.cards = @ \ {x[k + 1]}, !.default = @ \ {x[k + 1]}]
  BY <1>1 DEF Edited
<1>6. PICK f, g : f = FirstCards(x, k) /\ g = FirstCards(x, k + 1) /\ g = f \cup {x[k + 1]}
  BY FirstCardsGrow
<1>7. Without(r, x, k + 1) = [r EXCEPT !.cards = @ \ g, !.default = @ \ g]
  BY <1>6 DEF Without
<1>8. Edited(removeCard(x[k + 1]), u) = Without(r, x, k + 1)
  <2>1. Edited(removeCard(x[k + 1]), u)
          = [u EXCEPT !.cards = u.cards \ {x[k + 1]}, !.default = u.default \ {x[k + 1]}]
    BY <1>5
  <2>2. u.cards \ {x[k + 1]} = r.cards \ g /\ u.default \ {x[k + 1]} = r.default \ g
    BY <1>4, <1>6
  <2>3. Edited(removeCard(x[k + 1]), u) = [u EXCEPT !.cards = r.cards \ g, !.default = r.default \ g]
    BY <2>1, <2>2
  <2>4. u = [r EXCEPT !.cards = r.cards \ FirstCards(x, k), !.default = r.default \ FirstCards(x, k)]
    BY <1>4
  <2>5. Without(r, x, k + 1) = [r EXCEPT !.cards = r.cards \ g, !.default = r.default \ g]
    BY <1>7
  <2> QED BY <1>2, <2>3, <2>4, <2>5, ExceptTwice
<1>9. ~Keeps(removeCard(x[k + 1]), u) /\ removeCard(x[k + 1]).do \in EditKind
  BY <1>1 DEF Keeps, EditKind
<1> QED BY <1>3, <1>8, <1>9, EditDoes

LEMMA AddsOne ==
  ASSUME NEW r, Sound(r), NEW x, NEW k \in Nat, NEW kept, NEW c
  PROVE  Does(addCard(x[k + 1], x[k + 1] = c), WithAgain(r, x, k, c), WithAgain(r, x, k + 1, c), kept)
<1>0. PICK e : e = addCard(x[k + 1], x[k + 1] = c)
  OBVIOUS
<1>1. e.do = "addCard" /\ e.id = x[k + 1] /\ (e.isDefault <=> x[k + 1] = c)
  BY <1>0 DEF addCard
<1>2. r \in Record
  BY DEF Sound
<1>3. PICK u : u = WithAgain(r, x, k, c)
  OBVIOUS
<1>6. PICK f, g : f = FirstCards(x, k) /\ g = FirstCards(x, k + 1) /\ g = f \cup {x[k + 1]}
  BY FirstCardsGrow
<1>4. u.cards = f /\ u.default = f \cap {c} /\ u = [r EXCEPT !.cards = f, !.default = f \cap {c}]
  BY <1>2, <1>3, <1>6 DEF Record, WithAgain
<1>7. WithAgain(r, x, k + 1, c) = [r EXCEPT !.cards = g, !.default = g \cap {c}]
  BY <1>6 DEF WithAgain
<1>8. Edited(e, u) = WithAgain(r, x, k + 1, c)
  <2>1. CASE x[k + 1] = c
    <3>1. Edited(e, u) = [u EXCEPT !.cards = @ \cup {x[k + 1]}, !.default = @ \cup {x[k + 1]}]
      <4>1. Edited(e, u) = [u EXCEPT !.cards = @ \cup {e.id},
                                     !.default = IF e.isDefault THEN @ \cup {e.id} ELSE @]
        BY <1>1 DEF Edited
      <4>2. e.isDefault
        BY <1>1, <2>1
      <4> QED BY <1>1, <4>1, <4>2, Zenon
    <3>2. g \cap {c} = (f \cap {c}) \cup {x[k + 1]}
      BY <1>6, <2>1
    <3>3. Edited(e, u) = [u EXCEPT !.cards = u.cards \cup {x[k + 1]}, !.default = u.default \cup {x[k + 1]}]
      BY <3>1
    <3>4. u.cards \cup {x[k + 1]} = g /\ u.default \cup {x[k + 1]} = g \cap {c}
      BY <1>4, <1>6, <3>2
    <3>5. Edited(e, u) = [u EXCEPT !.cards = g, !.default = g \cap {c}]
      BY <3>3, <3>4
    <3> QED BY <1>2, <1>4, <1>7, <3>5, ExceptTwice
  <2>2. CASE x[k + 1] # c
    <3>1. Edited(e, u) = [u EXCEPT !.cards = @ \cup {x[k + 1]}, !.default = @]
      <4>1. Edited(e, u) = [u EXCEPT !.cards = @ \cup {e.id},
                                     !.default = IF e.isDefault THEN @ \cup {e.id} ELSE @]
        BY <1>1 DEF Edited
      <4>2. ~e.isDefault
        BY <1>1, <2>2
      <4> QED BY <1>1, <4>1, <4>2, Zenon
    <3>2. g \cap {c} = f \cap {c}
      BY <1>6, <2>2
    <3>3. Edited(e, u) = [u EXCEPT !.cards = u.cards \cup {x[k + 1]}, !.default = u.default]
      BY <3>1
    <3>4. u.cards \cup {x[k + 1]} = g /\ u.default = g \cap {c}
      BY <1>4, <1>6, <3>2
    <3>5. Edited(e, u) = [u EXCEPT !.cards = g, !.default = g \cap {c}]
      BY <3>3, <3>4
    <3> QED BY <1>2, <1>4, <1>7, <3>5, ExceptTwice
  <2> QED BY <2>1, <2>2
<1>9. ~Keeps(e, u) /\ e.do \in EditKind
  BY <1>1 DEF Keeps, EditKind
<1>10. Does(e, u, WithAgain(r, x, k + 1, c), kept)
  BY <1>8, <1>9, EditDoes
<1> QED BY <1>0, <1>3, <1>10

\* Choosing a default loses no card.
LEMMA SetDefaultRight ==
  ASSUME TypeOK, BookKept, NEW p \in Process, NEW c \in Card, startSetDefault(p, c)
  PROVE  BookKept'
<1>1. PICK r : r = box.record
  OBVIOUS
<1>2. Sound(r) /\ r \in Record /\ r.default \subseteq r.cards /\ c \in r.cards /\ IsFiniteSet(r.cards)
  BY <1>1 DEF TypeOK, BoxOK, Sound, startSetDefault
<1>3. PICK s, x, n : s = setDefaultCard(c, r) /\ x = SetToSeq(r.cards) /\ n = Cardinality(r.cards)
  OBVIOUS
<1>4. /\ n \in Nat /\ s \in Seq(AnyStep) /\ Len(s) = n + n
      /\ \A i \in 1..n : /\ s[i] = removeCard(x[i])
                         /\ s[n + i] = addCard(x[i], x[i] = c)
  BY <1>2, <1>3, SetDefaultStepsAre
<1>5. FirstCards(x, n) = r.cards
  <2>1. x \in [1..n -> r.cards] /\ \A y \in r.cards : \E i \in 1..n : x[i] = y
    BY <1>2, <1>3, CardsInSequence
  <2> QED BY <2>1 DEF FirstCards
<1>6. FirstCards(x, 0) = {}
  BY FirstCardsGrow
<1>7. PICK should : /\ book = r => should = [r EXCEPT !.default = {c}]
                    /\ Begins(p, "setDefault", s, should)
  BY <1>1, <1>3 DEF startSetDefault
<1>8. PICK rs : rs = [i \in 1..n + n + 1 |-> IF i <= n THEN Without(r, x, i - 1)
                                              ELSE WithAgain(r, x, i - n - 1, c)]
  OBVIOUS
<1>9. Without(r, x, 0) = r /\ Without(r, x, n) = WithAgain(r, x, 0, c)
      /\ WithAgain(r, x, n, c) = [r EXCEPT !.default = {c}]
  <2>1. Without(r, x, 0) = r
    BY <1>2, <1>6 DEF Without, Record
  <2>2. Without(r, x, n) = WithAgain(r, x, 0, c)
    <3>1. r.cards \ FirstCards(x, n) = {} /\ r.default \ FirstCards(x, n) = {}
      BY <1>2, <1>5
    <3>2. FirstCards(x, 0) \cap {c} = {}
      BY <1>6
    <3> QED BY <1>2, <1>6, <3>1, <3>2 DEF Without, WithAgain, Record
  <2>3. WithAgain(r, x, n, c) = [r EXCEPT !.default = {c}]
    <3>1. FirstCards(x, n) \cap {c} = {c}
      BY <1>2, <1>5
    <3> QED BY <1>2, <1>5, <3>1 DEF WithAgain, Record
  <2> QED BY <2>1, <2>2, <2>3
<1>10. \A i \in 1..n + 1 : rs[i] = Without(r, x, i - 1)
  <2> SUFFICES ASSUME NEW i \in 1..n + 1 PROVE rs[i] = Without(r, x, i - 1)
    OBVIOUS
  <2>1. i \in 1..n + n + 1
    BY <1>4
  <2>2. CASE i <= n
    BY <1>8, <2>1, <2>2
  <2>3. CASE ~(i <= n)
    <3>1. i - n - 1 = 0 /\ i - 1 = n
      BY <1>4, <2>3
    <3>2. rs[i] = WithAgain(r, x, i - n - 1, c)
      BY <1>8, <2>1, <2>3
    <3> QED BY <1>9, <3>1, <3>2
  <2> QED BY <2>2, <2>3
<1>11. \A k \in 0..n : rs[n + k + 1] = WithAgain(r, x, k, c)
  <2> SUFFICES ASSUME NEW k \in 0..n PROVE rs[n + k + 1] = WithAgain(r, x, k, c)
    OBVIOUS
  <2>1. n + k + 1 \in 1..n + n + 1 /\ ~(n + k + 1 <= n) /\ (n + k + 1) - n - 1 = k
    BY <1>4
  <2> QED BY <1>8, <2>1
<1>12. \A i \in 1..Len(s) : Does(s[i], rs[i], rs[i + 1], record'[p])
  <2> SUFFICES ASSUME NEW i \in 1..n + n PROVE Does(s[i], rs[i], rs[i + 1], record'[p])
    BY <1>4
  <2>1. CASE i <= n
    <3>1. PICK k \in 0..n : i = k + 1
      <4>1. i - 1 \in 0..n /\ i = (i - 1) + 1
        BY <1>4, <2>1
      <4> QED BY <4>1
    <3>2. i \in 1..n /\ i \in 1..n + 1 /\ i + 1 \in 1..n + 1 /\ i - 1 = k /\ (i + 1) - 1 = k + 1
      BY <1>4, <2>1, <3>1
    <3>3. rs[i] = Without(r, x, k) /\ rs[i + 1] = Without(r, x, k + 1)
      BY <1>10, <3>2
    <3>4. s[i] = removeCard(x[k + 1])
      BY <1>4, <3>1, <3>2
    <3>5. Does(removeCard(x[k + 1]), Without(r, x, k), Without(r, x, k + 1), record'[p])
      BY <1>2, <3>1, RemovesOne
    <3> QED BY <3>3, <3>4, <3>5
  <2>2. CASE ~(i <= n)
    <3>1. PICK k \in Nat : i = n + k + 1 /\ k \in 0..n /\ k + 1 \in 0..n /\ k + 1 \in 1..n
                           /\ i + 1 = n + (k + 1) + 1 /\ i = n + (k + 1)
      <4>1. PICK k : k = i - n - 1
        OBVIOUS
      <4>2. k \in Nat /\ i = n + k + 1 /\ k \in 0..n /\ k + 1 \in 0..n /\ k + 1 \in 1..n
            /\ i + 1 = n + (k + 1) + 1 /\ i = n + (k + 1)
        BY <1>4, <2>2, <4>1
      <4> QED BY <4>2
    <3>3. rs[i] = WithAgain(r, x, k, c) /\ rs[i + 1] = WithAgain(r, x, k + 1, c)
      BY <1>11, <3>1
    <3>4. s[i] = addCard(x[k + 1], x[k + 1] = c)
      BY <1>4, <3>1
    <3>5. Does(addCard(x[k + 1], x[k + 1] = c), WithAgain(r, x, k, c), WithAgain(r, x, k + 1, c), record'[p])
      BY <1>2, AddsOne
    <3> QED BY <3>3, <3>4, <3>5
  <2> QED BY <2>1, <2>2
<1>13. rs[1] = r /\ rs[Len(s) + 1] = [r EXCEPT !.default = {c}]
  <2>1. 1 \in 1..n + 1 /\ n \in 0..n /\ 1 - 1 = 0
    BY <1>4
  <2> QED BY <1>4, <1>9, <1>10, <1>11, <2>1
<1>14. ASSUME box.record = book
       PROVE  \E us : us[1] = box'.record /\ Through(us, s, record'[p], should)
  <2>1. should = [r EXCEPT !.default = {c}] /\ box'.record = r
    BY <1>1, <1>7, <1>14 DEF startSetDefault
  <2>2. Through(rs, s, record'[p], should)
    BY <1>12, <1>13, <2>1 DEF Through
  <2> QED BY <1>13, <2>1, <2>2
<1> QED BY <1>4, <1>7, <1>14, BeginsRight

\* The record a creation builds, edit by edit.
WithCard == [Empty EXCEPT !.cards = {FirstCard}, !.default = {FirstCard}]
WithHome == [WithCard EXCEPT !.addresses = <<FirstAddress>>, !.home = {FirstAddress}]
WithMandateKey == [WithHome EXCEPT !.mandateKey = TRUE]
WithSigner == [WithMandateKey EXCEPT !.signer = "ES256"]

LEMMA SameRecord ==
  ASSUME NEW r \in Record, NEW u \in Record, r.cards = u.cards, r.default = u.default,
         r.addresses = u.addresses, r.home = u.home, r.mandateKey = u.mandateKey, r.signer = u.signer
  PROVE  r = u
  BY DEF Record

\* A record with the first card, and what else it holds.
Made(r, addresses, home, mandateKey, signer) ==
  /\ r \in Record /\ r.cards = {FirstCard} /\ r.default = {FirstCard}
  /\ r.addresses = addresses /\ r.home = home /\ r.mandateKey = mandateKey /\ r.signer = signer

LEMMA CreatedIs ==
  ASSUME VaultAssumption
  PROVE  /\ CreatedRecord({}) = WithHome
         /\ CreatedRecord({"keys", "recovery"}) = WithSigner
<1>0. Empty \in Record
  BY EmptySound DEF Sound
<1>10. PICK fa \in Seq(Address) : fa = <<FirstAddress>>
  <2>1. <<FirstAddress>> \in Seq(Address)
    BY DEF VaultAssumption
  <2> QED BY <2>1
<1>11. FirstCard \in Card /\ FirstAddress \in Address /\ "ES256" \in Algorithm
  BY DEF VaultAssumption
<1>1. Made(WithCard, <<>>, {}, FALSE, "none")
  BY <1>0 DEF WithCard, Made, Record, Empty, VaultAssumption
<1>2. Made(WithHome, fa, {FirstAddress}, FALSE, "none")
  <2>1. WithHome = [WithCard EXCEPT !.addresses = fa, !.home = {FirstAddress}]
    BY <1>10 DEF WithHome
  <2> QED BY <1>1, <1>11, <2>1 DEF Made, Record
<1>3. Made(WithMandateKey, fa, {FirstAddress}, TRUE, "none")
  BY <1>2 DEF WithMandateKey, Made, Record
<1>4. Made(WithSigner, fa, {FirstAddress}, TRUE, "ES256")
  BY <1>3 DEF WithSigner, Made, Record, Signer, VaultAssumption
<1>5. PICK some, none : some = {"keys", "recovery"} /\ none = {}
  OBVIOUS
<1>6. Made(CreatedRecord(none), fa, {FirstAddress}, FALSE, "none")
  <2>1. ("keys" \in none) = FALSE
    BY <1>5
  <2>2. CreatedRecord(none) =
          [cards |-> {FirstCard}, default |-> {FirstCard}, addresses |-> fa,
           home |-> {FirstAddress}, mandateKey |-> FALSE, signer |-> "none"]
    BY <1>10, <2>1 DEF CreatedRecord
  <2> QED BY <1>11, <2>2 DEF Made, Record, Signer
<1>7. Made(CreatedRecord(some), fa, {FirstAddress}, TRUE, "ES256")
  <2>1. ("keys" \in some) = TRUE
    BY <1>5
  <2>2. CreatedRecord(some) =
          [cards |-> {FirstCard}, default |-> {FirstCard}, addresses |-> fa,
           home |-> {FirstAddress}, mandateKey |-> TRUE, signer |-> "ES256"]
    BY <1>10, <2>1 DEF CreatedRecord
  <2> QED BY <1>11, <2>2 DEF Made, Record, Signer
<1>8. CreatedRecord(none) = WithHome
  BY <1>2, <1>6, SameRecord DEF Made
<1>9. CreatedRecord(some) = WithSigner
  BY <1>4, <1>7, SameRecord DEF Made
<1> QED BY <1>5, <1>8, <1>9

LEMMA CreationEdits ==
  ASSUME NEW kept
  PROVE  /\ Does(addCard(FirstCard, TRUE), Empty, WithCard, kept)
         /\ Does(addAddress(FirstAddress), WithCard, WithHome, kept)
         /\ Does(setDefaultAddress(FirstAddress), WithHome, WithHome, kept)
         /\ Does(createMandateKey, WithHome, WithMandateKey, kept)
         /\ Does(createUcpSigningKey("ES256"), WithMandateKey, WithSigner, kept)
<1>1. Does(addCard(FirstCard, TRUE), Empty, WithCard, kept)
  <2>1. PICK e : e = addCard(FirstCard, TRUE)
    OBVIOUS
  <2>2. e.do = "addCard" /\ e.id = FirstCard /\ e.isDefault
    BY <2>1 DEF addCard
  <2>3. Edited(e, Empty) = [Empty EXCEPT !.cards = @ \cup {e.id},
                                         !.default = IF e.isDefault THEN @ \cup {e.id} ELSE @]
    BY <2>2 DEF Edited
  <2>4. Edited(e, Empty) = [Empty EXCEPT !.cards = @ \cup {e.id}, !.default = @ \cup {e.id}]
    BY <2>2, <2>3, Zenon
  <2>5. Edited(e, Empty) = WithCard
    BY <2>2, <2>4 DEF Empty, WithCard
  <2>6. ~Keeps(e, Empty) /\ e.do \in EditKind
    BY <2>2 DEF Keeps, EditKind
  <2> QED BY <2>1, <2>5, <2>6, EditDoes
<1>2. Does(addAddress(FirstAddress), WithCard, WithHome, kept)
  <2>1. PICK e : e = addAddress(FirstAddress)
    OBVIOUS
  <2>2. e.do = "addAddress" /\ e.id = FirstAddress
    BY <2>1 DEF addAddress, Edit
  <2>3. Edited(e, WithCard) = WithAddress(FirstAddress, WithCard)
    BY <2>2 DEF Edited
  <2>4. WithCard.addresses = <<>>
    BY DEF WithCard, Empty
  <2>5. Append(WithCard.addresses, FirstAddress) = <<FirstAddress>>
    BY <2>4
  <2>6. Edited(e, WithCard) = WithHome
    BY <2>3, <2>4, <2>5 DEF WithAddress, WithHome
  <2>7. ~Keeps(e, WithCard) /\ e.do \in EditKind
    BY <2>2 DEF Keeps, EditKind
  <2> QED BY <2>1, <2>6, <2>7, EditDoes
<1>3. Does(setDefaultAddress(FirstAddress), WithHome, WithHome, kept)
  <2>1. PICK e : e = setDefaultAddress(FirstAddress)
    OBVIOUS
  <2>2. e.do = "setDefaultAddress" /\ e.id = FirstAddress
    BY <2>1 DEF setDefaultAddress, Edit
  <2>3. Edited(e, WithHome) = WithHome
    BY <2>2 DEF Edited, WithHome, WithCard, Empty
  <2>4. ~Keeps(e, WithHome) /\ e.do \in EditKind
    BY <2>2 DEF Keeps, EditKind
  <2> QED BY <2>1, <2>3, <2>4, EditDoes
<1>4. Does(createMandateKey, WithHome, WithMandateKey, kept)
  <2>1. PICK e : e = createMandateKey
    OBVIOUS
  <2>2. e.do = "createMandateKey"
    BY <2>1 DEF createMandateKey, Edit
  <2>3. Edited(e, WithHome) = WithMandateKey
    BY <2>2 DEF Edited, WithMandateKey
  <2>4. ~Keeps(e, WithHome) /\ e.do \in EditKind
    BY <2>2 DEF Keeps, EditKind, WithHome, WithCard, Empty
  <2> QED BY <2>1, <2>3, <2>4, EditDoes
<1>5. Does(createUcpSigningKey("ES256"), WithMandateKey, WithSigner, kept)
  <2>1. PICK e : e = createUcpSigningKey("ES256")
    OBVIOUS
  <2>2. e.do = "createUcpSigningKey" /\ e.id = "ES256"
    BY <2>1 DEF createUcpSigningKey, Edit
  <2>3. Edited(e, WithMandateKey) = WithSigner
    BY <2>2 DEF Edited, WithSigner
  <2>4. ~Keeps(e, WithMandateKey) /\ e.do \in EditKind
    BY <2>2 DEF Keeps, EditKind, WithMandateKey, WithHome, WithCard, Empty
  <2> QED BY <2>1, <2>3, <2>4, EditDoes
<1> QED BY <1>1, <1>2, <1>3, <1>4, <1>5

\* A creation leaves the record it was asked for.
LEMMA CreateRight ==
  ASSUME VaultAssumption, TypeOK, BookKept, NEW p \in Process, NEW secret, NEW o \in BOOLEAN,
         NEW opts \in {{}, {"keys", "recovery"}}, create(p, secret, o, opts)
  PROVE  BookKept'
<1>1. PICK s : s = CreateSteps(opts)
  OBVIOUS
<1>2. /\ s \in Seq(AnyStep)
      /\ s[1] = Step("init") /\ s[2] = Step("seal") /\ s[3] = Step("policy")
      /\ s[4] = addCard(FirstCard, TRUE) /\ s[5] = addAddress(FirstAddress)
      /\ s[6] = setDefaultAddress(FirstAddress)
      /\ IF opts = {} THEN Len(s) = 7 /\ s[7] = Step("load")
         ELSE /\ Len(s) = 10 /\ s[7] = createMandateKey
              /\ s[8] = createUcpSigningKey("ES256")
              /\ s[9] = Step("recovery") /\ s[10] = Step("load")
  BY <1>1, CreateStepsAre, Zenon
<1>3. Begins(p, "create", s, CreatedRecord(opts))
  BY <1>1 DEF create
<1>4. box'.record = Empty
  BY DEF create, NoBox
<1>5. PICK kept : kept = record'[p]
  OBVIOUS
<1>6. \A do, r : Step(do).do = do
  BY DEF Step, Edit
<1>7. PICK rs : rs = <<Empty, Empty, Empty, Empty, WithCard, WithHome, WithHome, WithMandateKey,
                       WithSigner, WithSigner, WithSigner>>
  OBVIOUS
<1>8. /\ rs[1] = Empty /\ rs[2] = Empty /\ rs[3] = Empty /\ rs[4] = Empty /\ rs[5] = WithCard
      /\ rs[6] = WithHome /\ rs[7] = WithHome /\ rs[8] = WithMandateKey /\ rs[9] = WithSigner
      /\ rs[10] = WithSigner /\ rs[11] = WithSigner
  BY <1>7
<1>9. /\ Does(s[1], Empty, Empty, kept)
      /\ Does(s[2], Empty, Empty, kept)
      /\ Does(s[3], Empty, Empty, kept)
  <2>1. s[1].do = "init" /\ s[2].do = "seal" /\ s[3].do = "policy"
    BY <1>2, <1>6
  <2>2. Does(s[2], Empty, Empty, kept)
    BY <2>1 DEF Does, EditKind
  <2> QED BY <2>1, <2>2, OtherDoes
<1>10. /\ Does(s[4], Empty, WithCard, kept)
       /\ Does(s[5], WithCard, WithHome, kept)
       /\ Does(s[6], WithHome, WithHome, kept)
  BY <1>2, CreationEdits
<1>11. CASE opts = {}
  <2>0. Len(s) = 7 /\ s[7] = Step("load")
    BY <1>2, <1>11
  <2>1. PICK us : us = <<Empty, Empty, Empty, Empty, WithCard, WithHome, WithHome, WithHome>>
    OBVIOUS
  <2>2. /\ us[1] = Empty /\ us[2] = Empty /\ us[3] = Empty /\ us[4] = Empty /\ us[5] = WithCard
        /\ us[6] = WithHome /\ us[7] = WithHome /\ us[8] = WithHome
    BY <2>1
  <2>3. Does(s[7], WithHome, WithHome, kept)
    BY <1>6, <2>0, OtherDoes
  <2>4. \A i \in 1..7 : i = 1 \/ i = 2 \/ i = 3 \/ i = 4 \/ i = 5 \/ i = 6 \/ i = 7
    OBVIOUS
  <2>5. \A i \in 1..7 : Does(s[i], us[i], us[i + 1], kept)
    BY <1>9, <1>10, <2>2, <2>3, <2>4
  <2>6. CreatedRecord(opts) = WithHome
    BY <1>11, CreatedIs
  <2>7. Through(us, s, kept, CreatedRecord(opts))
    BY <2>0, <2>2, <2>5, <2>6 DEF Through
  <2>8. \E xs : xs[1] = box'.record /\ Through(xs, s, record'[p], CreatedRecord(opts))
    BY <1>4, <1>5, <2>2, <2>7
  <2> QED BY <1>2, <1>3, <2>8, BeginsRight
<1>12. CASE opts = {"keys", "recovery"}
  <2>0. Len(s) = 10 /\ s[7] = createMandateKey /\ s[8] = createUcpSigningKey("ES256")
        /\ s[9] = Step("recovery") /\ s[10] = Step("load")
    BY <1>2, <1>12
  <2>1. /\ Does(s[7], WithHome, WithMandateKey, kept)
        /\ Does(s[8], WithMandateKey, WithSigner, kept)
    BY <2>0, CreationEdits
  <2>2. /\ Does(s[9], WithSigner, WithSigner, kept)
        /\ Does(s[10], WithSigner, WithSigner, kept)
    BY <1>6, <2>0, OtherDoes
  <2>4. \A i \in 1..10 : \/ i = 1 \/ i = 2 \/ i = 3 \/ i = 4 \/ i = 5 \/ i = 6 \/ i = 7
                         \/ i = 8 \/ i = 9 \/ i = 10
    OBVIOUS
  <2>5. \A i \in 1..10 : Does(s[i], rs[i], rs[i + 1], kept)
    BY <1>8, <1>9, <1>10, <2>1, <2>2, <2>4
  <2>6. CreatedRecord(opts) = WithSigner
    BY <1>12, CreatedIs
  <2>7. Through(rs, s, kept, CreatedRecord(opts))
    BY <1>8, <2>0, <2>5, <2>6 DEF Through
  <2>8. \E xs : xs[1] = box'.record /\ Through(xs, s, record'[p], CreatedRecord(opts))
    BY <1>4, <1>5, <1>8, <2>7
  <2> QED BY <1>2, <1>3, <2>8, BeginsRight
<1> QED BY <1>11, <1>12

\* The calls that neither read nor write a record, and the mishaps.
LEMMA FailRight ==
  ASSUME BookKept, NEW p \in Process, stepFails(p) \/ writeFailsLate(p) \/ dies(p)
  PROVE  BookKept'
  BY TaintedRight DEF stepFails, writeFailsLate, Throw, WentWrong, dies, WentWrong

LEMMA HandlesRight ==
  ASSUME BookKept, NEW p \in Process, NEW secret, open(p, secret) \/ close(p)
  PROVE  BookKept'
  BY StillRight DEF open, close

LEMMA ImportRight ==
  ASSUME BookKept, NEW password, importKeyFromFile(password)
  PROVE  BookKept'
  BY StillRight DEF importKeyFromFile

LEMMA InitRight == ASSUME Init PROVE BookKept
  BY DEF Init, BookKept, Idle, NoBox

\* Each step keeps the book.
LEMMA CallsOfOneRight ==
  ASSUME VaultAssumption, TypeOK, BookKept, NEW p \in Process
  PROVE  /\ (\E s \in Password \cup {"keychain"}, o \in BOOLEAN,
               opts \in {{}, {"keys", "recovery"}} : create(p, s, o, opts)) => BookKept'
         /\ (\E s \in Password \cup {"keychain"} : open(p, s)) => BookKept'
         /\ (\E c \in Card : \/ edit(p, addCard(c, FALSE)) \/ edit(p, removeCard(c))
                             \/ startSetDefault(p, c)) => BookKept'
         /\ (\E a \in Address : \/ edit(p, addAddress(a)) \/ edit(p, removeAddress(a))
                \/ edit(p, setDefaultAddress(a)) \/ startUpdateBilling(p, a)) => BookKept'
         /\ edit(p, createMandateKey) => BookKept'
         /\ exportKey(p) \/ close(p) => BookKept'
         /\ (\E algorithm \in Algorithm : edit(p, createUcpSigningKey(algorithm))) => BookKept'
         /\ (\E old, new \in Password : startRotate(p, old, new)) => BookKept'
<1>1. ASSUME NEW s \in Password \cup {"keychain"}, NEW o \in BOOLEAN,
             NEW opts \in {{}, {"keys", "recovery"}}, create(p, s, o, opts)
      PROVE  BookKept'
  BY <1>1, CreateRight
<1>2. ASSUME NEW s \in Password \cup {"keychain"}, open(p, s) PROVE BookKept'
  BY <1>2, HandlesRight
<1>3. ASSUME NEW c \in Card, edit(p, addCard(c, FALSE)) \/ edit(p, removeCard(c)) PROVE BookKept'
  <2>1. /\ addCard(c, FALSE) \in AnyStep /\ addCard(c, FALSE).do \in EditKind
        /\ removeCard(c) \in AnyStep /\ removeCard(c).do \in EditKind
    BY EditsAreSteps DEF EditKind, addCard, removeCard, Edit
  <2> QED BY <1>3, <2>1, EditRight
<1>4. ASSUME NEW c \in Card, startSetDefault(p, c) PROVE BookKept'
  BY <1>4, SetDefaultRight
<1>5. ASSUME NEW a \in Address,
             edit(p, addAddress(a)) \/ edit(p, removeAddress(a)) \/ edit(p, setDefaultAddress(a))
      PROVE  BookKept'
  <2>1. /\ addAddress(a) \in AnyStep /\ addAddress(a).do \in EditKind
        /\ removeAddress(a) \in AnyStep /\ removeAddress(a).do \in EditKind
        /\ setDefaultAddress(a) \in AnyStep /\ setDefaultAddress(a).do \in EditKind
    BY EditsAreSteps DEF EditKind, addAddress, removeAddress, setDefaultAddress, Edit
  <2> QED BY <1>5, <2>1, EditRight
<1>6. ASSUME NEW a \in Address, startUpdateBilling(p, a) PROVE BookKept'
  BY <1>6, UpdateBillingRight
<1>7. ASSUME edit(p, createMandateKey) PROVE BookKept'
  <2>1. createMandateKey \in AnyStep /\ createMandateKey.do \in EditKind
    BY EditsAreSteps DEF EditKind, createMandateKey, Edit
  <2> QED BY <1>7, <2>1, EditRight
<1>8. ASSUME exportKey(p) PROVE BookKept'
  BY <1>8, ExportRight
<1>9. ASSUME close(p) PROVE BookKept'
  BY <1>9, HandlesRight
<1>10. ASSUME NEW algorithm \in Algorithm, edit(p, createUcpSigningKey(algorithm)) PROVE BookKept'
  <2>1. createUcpSigningKey(algorithm) \in AnyStep /\ createUcpSigningKey(algorithm).do \in EditKind
    BY EditsAreSteps DEF EditKind, createUcpSigningKey, Edit
  <2> QED BY <1>10, <2>1, EditRight
<1>11. ASSUME NEW old \in Password, NEW new \in Password, startRotate(p, old, new) PROVE BookKept'
  BY <1>11, StartRotateRight
<1> QED BY <1>1, <1>2, <1>3, <1>4, <1>5, <1>6, <1>7, <1>8, <1>9, <1>10, <1>11

LEMMA StepsOfOneRight ==
  ASSUME TypeOK, BookKept, NEW p \in Process
  PROVE  /\ initKey(p) \/ initBox(p) \/ writePolicy(p) => BookKept'
         /\ exportRecovery(p) \/ loadWalletPolicy(p) => BookKept'
         /\ readCurrentRecord(p) \/ writeCurrentRecord(p) => BookKept'
         /\ rotatePasswordVault(p) \/ rotatePassword(p) => BookKept'
         /\ stepFails(p) \/ writeFailsLate(p) \/ dies(p) => BookKept'
  BY InitKeyRight, InitBoxRight, WritePolicyRight, RecoveryRight, LoadRight, ReadRight, WriteRight,
     ResealRight, ReopenRight, FailRight

LEMMA NextRightly ==
  ASSUME VaultAssumption, TypeOK, BookKept, [Next]_vars
  PROVE  BookKept'
<1>1. ASSUME Next PROVE BookKept'
  BY <1>1, ImportRight, CallsOfOneRight, StepsOfOneRight DEF Next
<1>2. ASSUME UNCHANGED vars PROVE BookKept'
  BY <1>2, StillRight DEF vars
<1> QED BY <1>1, <1>2

LEMMA BookIsKept == ASSUME VaultAssumption PROVE Spec => [](TypeOK /\ KeysHad /\ BookKept)
<1>1. Init => TypeOK /\ KeysHad /\ BookKept
  BY InitTyped, InitHasKeys, InitRight
<1>2. TypeOK /\ KeysHad /\ BookKept /\ [Next]_vars => (TypeOK /\ KeysHad /\ BookKept)'
  BY NextKeeps, NextRightly
<1> QED BY <1>1, <1>2, PTL DEF Spec

LEMMA BookIsExact == ASSUME TypeOK, BookKept PROVE CallsAreExact
<1>1. ~tainted /\ (\A p \in Process : Idle(p)) /\ box # NoBox => box.record = book
  BY DEF BookKept
<1>2. box.record.addresses # <<>> =>
        \E a \in ToSet(box.record.addresses) : box.record.home = {a}
  BY DEF TypeOK, BoxOK, Sound, DefaultAddress
<1> QED BY <1>1, <1>2 DEF CallsAreExact

\* withRecordUpdate, Wallet.create, Wallet.setDefaultCard, Wallet.updateBilling and rotatePassword
\* (buyer/src/vault/vault.ts, buyer/src/wallet/index.ts): calls that neither overlap nor fail
\* leave exactly the record they should, however many steps and records lie between; and
\* one of the addresses that are there is always the default.
THEOREM CallsLeaveTheBook == ASSUME VaultAssumption PROVE Spec => []CallsAreExact
<1>1. TypeOK /\ BookKept => CallsAreExact
  BY BookIsExact
<1> QED BY <1>1, BookIsKept, PTL
=============================================================================
