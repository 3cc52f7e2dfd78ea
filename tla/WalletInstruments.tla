--------------------------- MODULE WalletInstruments ---------------------------
(***************************************************************************)
(* What a wallet can pay with: one agent-native instrument, that is in the *)
(* memory of the handle with the issuer of its mandates, and the cards of  *)
(* the vault.  Instruments are added, removed and made the default while   *)
(* the same handle prepares payments, and each call waits for the vault at *)
(* every read and write of it.                                             *)
(*                                                                         *)
(* One call edits at a time and nothing fails but on what it names: what   *)
(* becomes of the vault otherwise is in VaultBox.                          *)
(***************************************************************************)
EXTENDS Integers, Sequences, FiniteSets, SequencesExt

CONSTANTS
  Issuer, TypeOf,     \* issuers of mandates; TypeOf[i]: the instrument type of i
  Card, FirstCard,    \* ids of cards; the one the wallet was created with
  Exact, Glob,        \* Exact[c], Glob[c]: the merchants that a tag of card c names, or matches
  Payer, Wants,        \* calls; Wants[p]: what the call is, what it asks for, whom it pays
  MaxEdits

Id(i) == TypeOf[i]   \* the id is made of the type

InstrumentsAssumption ==
  /\ FirstCard \in Card /\ MaxEdits \in Nat /\ \A i \in Issuer : Id(i) \notin Card \cup {"any", "none"}
  /\ \A p \in Payer :
       /\ Wants[p].call \in {"mandate", "purchase"}
       /\ Wants[p].id \in {"any"} \cup Card \cup {Id(i) : i \in Issuer}

VARIABLES
  native,  \* the agent-native instrument: its issuer and whether it is the default
  cards,   \* the vault's cards in order, and whether each has the tag "default"
  todo,    \* the steps left of the call that edits
  edits,
  step,    \* step[p]: where call p is
  picked   \* picked[p]: the instrument, card and issuer it has

vars == <<native, cards, todo, edits, step, picked>>
--------------------------------------------------------------------------------
NoIssuer == [issuer |-> "none", default |-> FALSE]
Nothing == [chosen |-> "none", type |-> "none", card |-> "none", issuer |-> "none"]

Stored(c, tagged) == [id |-> c, tagged |-> tagged]
Ids == {cards[n].id : n \in DOMAIN cards}

\* A card is listed as the default only while the agent-native instrument is not.
cardInstrumentRecord(card) ==
  [id |-> card.id, mode |-> "browser-manual", type |-> "vaulted_card",
   default |-> ~native.default /\ card.tagged]

mandateInstrumentRecord ==
  [id |-> Id(native.issuer), mode |-> "agent-native", type |-> TypeOf[native.issuer],
   default |-> native.default]

listInstruments ==
  (IF native = NoIssuer THEN <<>> ELSE <<mandateInstrumentRecord>>)
    \o [n \in DOMAIN cards |-> cardInstrumentRecord(cards[n])]

Asked(p) ==
  SelectSeq(listInstruments, LAMBDA i : /\ Wants[p].id \in {"any", i.id}
                                        /\ i.mode = "agent-native" /\ i.type = Wants[p].type)

\* The default of a list, or its first.
Choice(list) ==
  IF \E n \in DOMAIN list : list[n].default THEN SelectSeq(list, LAMBDA i : i.default)[1] ELSE list[1]

\* The first card with a tag for the merchant, then one with a pattern, then the default.
pickStoredCard(m) ==
  LET tiers == <<SelectSeq(cards, LAMBDA c : m \in Exact[c.id]),
                 SelectSeq(cards, LAMBDA c : m \in Glob[c.id]), SelectSeq(cards, LAMBDA c : c.tagged)>>
      found == FlattenSeq(tiers)
  IN IF found = <<>> THEN "none" ELSE found[1].id

\* A purchase that names the agent-native instrument, or nothing, takes the
\* merchant's card; one that names another card takes that.
cardForIntent(p) ==
  IF Wants[p].id = "any" \/ (native # NoIssuer /\ Wants[p].id = Id(native.issuer))
  THEN pickStoredCard(Wants[p].merchant)
  ELSE IF Wants[p].id \in Ids THEN Wants[p].id ELSE "none"

Init ==
  /\ native \in {NoIssuer} \cup {[issuer |-> i, default |-> TRUE] : i \in Issuer}
  /\ cards = <<Stored(FirstCard, TRUE)>>
  /\ todo = <<>> /\ edits = 0
  /\ step = [p \in Payer |-> "idle"] /\ picked = [p \in Payer |-> Nothing]
--------------------------------------------------------------------------------
\* Calls that edit.
Edits == todo = <<>> /\ edits < MaxEdits /\ edits' = edits + 1

Put(c, tagged) == [do |-> "add", card |-> c, tagged |-> tagged]
Take(c) == [do |-> "remove", card |-> c, tagged |-> FALSE]
Mark(c) == [do |-> "setDefaultCard", card |-> c, tagged |-> TRUE]

addIssuer(i) ==
  /\ Edits /\ native' = [issuer |-> i, default |-> TRUE]
  /\ UNCHANGED <<cards, todo, step, picked>>

\* A card that is added as the default has the tag at once, the others lose it
\* after.  Its id is new.
addCard(c, default) ==
  /\ Edits /\ c \notin Ids \cup {FirstCard}
  /\ todo' = <<Put(c, default)>> \o (IF default THEN <<Mark(c)>> ELSE <<>>)
  /\ UNCHANGED <<native, cards, step, picked>>

removeInstrument(id) ==
  /\ Edits
  /\ IF native # NoIssuer /\ id = Id(native.issuer)
     THEN native' = NoIssuer /\ UNCHANGED todo
     ELSE todo' = <<Take(id)>> /\ UNCHANGED native
  /\ UNCHANGED <<cards, step, picked>>

\* The agent-native instrument is no longer the default when a card is to be it,
\* also when there is no such card.
setDefaultInstrument(id) ==
  /\ Edits
  /\ IF native # NoIssuer /\ id = Id(native.issuer)
     THEN native' = [native EXCEPT !.default = TRUE] /\ UNCHANGED todo
     ELSE native' = [native EXCEPT !.default = FALSE] /\ todo' = <<Mark(id)>>
  /\ UNCHANGED <<cards, step, picked>>

\* Removes every card that is listed, and adds each again.
setDefaultCard(c) ==
  [n \in DOMAIN cards |-> Take(cards[n].id)] \o [n \in DOMAIN cards |-> Put(cards[n].id, cards[n].id = c)]

\* The next step of the call that edits; on a card that is not there it throws.
edit ==
  /\ todo # <<>>
  /\ LET next == Head(todo)
     IN IF next.do # "add" /\ next.card \notin Ids THEN todo' = <<>> /\ UNCHANGED cards
        ELSE /\ todo' = (IF next.do = "setDefaultCard" THEN setDefaultCard(next.card) ELSE <<>>) \o Tail(todo)
             /\ cards' = CASE next.do = "add" -> Append(cards, Stored(next.card, next.tagged))
                           [] next.do = "remove" -> SelectSeq(cards, LAMBDA c : c.id # next.card)
                           [] OTHER -> cards
  /\ UNCHANGED <<native, edits, step, picked>>
--------------------------------------------------------------------------------
\* Calls that pay.
Goes(p, to, has) == step' = [step EXCEPT ![p] = to] /\ picked' = [picked EXCEPT ![p] = has]

\* A payer over HTTP chooses an agent-native instrument of its type.
chooseInstrument(p) ==
  /\ Wants[p].call = "mandate" /\ step[p] = "idle"
  /\ IF Asked(p) = <<>> THEN Goes(p, "threw", Nothing)
     ELSE Goes(p, "chosen", [Nothing EXCEPT !.chosen = Choice(Asked(p)).id, !.type = Choice(Asked(p)).type])
  /\ UNCHANGED <<native, cards, todo, edits>>

paymentMandateIssuerFor(id) == native # NoIssuer /\ id = Id(native.issuer)

\* It has asked the policy meanwhile, and the issuer may be another.
prepareMandate(p) ==
  /\ step[p] = "chosen"
  /\ IF paymentMandateIssuerFor(picked[p].chosen)
     THEN Goes(p, "issuing", [picked[p] EXCEPT !.issuer = native.issuer])
     ELSE Goes(p, "threw", Nothing)
  /\ UNCHANGED <<native, cards, todo, edits>>

\* The issuer answers or throws, also when it is the wallet's no more.
issueMandate(p) ==
  /\ step[p] = "issuing"
  /\ Goes(p, "paying", picked[p]) \/ Goes(p, "threw", Nothing)
  /\ UNCHANGED <<native, cards, todo, edits>>

\* A purchase takes its card, waits for the billing address, and then has the
\* issuer that is there, also when it named a card.
findCard(p) ==
  /\ Wants[p].call = "purchase" /\ step[p] = "idle"
  /\ IF cardForIntent(p) = "none" THEN Goes(p, "threw", Nothing)
     ELSE Goes(p, "carded", [Nothing EXCEPT !.card = cardForIntent(p)])
  /\ UNCHANGED <<native, cards, todo, edits>>

buildDriverPort(p) ==
  /\ step[p] = "carded"
  /\ Goes(p, "paying", [picked[p] EXCEPT !.issuer = native.issuer])
  /\ UNCHANGED <<native, cards, todo, edits>>

\* withRawCard: the driver asks for the card's number; the card may be gone.
withRawCard(p) ==
  /\ step[p] = "paying" /\ picked[p].card # "none"
  /\ IF picked[p].card \in Ids THEN Goes(p, "paid", picked[p]) ELSE Goes(p, "threw", Nothing)
  /\ UNCHANGED <<native, cards, todo, edits>>

Next ==
  \/ \E i \in Issuer : addIssuer(i)
  \/ \E c \in Card, default \in BOOLEAN : addCard(c, default)
  \/ \E id \in Card \cup {Id(i) : i \in Issuer} : removeInstrument(id) \/ setDefaultInstrument(id)
  \/ edit
  \/ \E p \in Payer :
       \/ chooseInstrument(p) \/ prepareMandate(p) \/ issueMandate(p)
       \/ findCard(p) \/ buildDriverPort(p) \/ withRawCard(p)
--------------------------------------------------------------------------------
\* However instruments are changed while payments are prepared (wallet/index.ts):
\* a mandate comes from an issuer of the type that was chosen and asked for, also
\* when another issuer was added since; and when no call is editing, one
\* instrument at most is listed as the default, whatever calls were cut short by
\* an id that names nothing.
PaysAsChosen ==
  /\ \A p \in Payer : Wants[p].call = "mandate" /\ step[p] \in {"issuing", "paying"} =>
       TypeOf[picked[p].issuer] = Wants[p].type /\ picked[p].chosen = Id(picked[p].issuer)
  /\ todo = <<>> => Cardinality({n \in DOMAIN listInstruments : listInstruments[n].default}) <= 1
================================================================================
