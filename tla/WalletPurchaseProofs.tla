-------------------------- MODULE WalletPurchaseProofs --------------------------
(***************************************************************************)
(* Proofs about WalletPurchase and its ledger, for every set of calls,     *)
(* keys, prices, totals and caps.                                          *)
(***************************************************************************)
EXTENDS WalletPurchase, SumLemmas

-----------------------------------------------------------------------------
(* Types.                                                                  *)

Why == {"none", "resume_expired", "reconciled_release", "cap_exceeded",
        "amount_exceeded", "currency_mismatch", "error"}

Row == [status : {"pending", "pending_escalated", "captured", "released"},
        amount : Nat, currency : Currency, ts : Nat, settled : Nat,
        expires : Nat, shadow : BOOLEAN, why : Why]

Place == {"open", "decide", "reserve", "reattach", "record", "create", "update",
          "adjust", "token", "complete", "answer", "release", "escalate",
          "settle", "shadow"} \cup Over

Order == [state : {"none", "open", "charged"}, total : Nat,
          currency : Currency, by : SUBSET Calls]

FileOK ==
  /\ header \in {"absent", "written", "torn"}
  /\ book \in [MasterKey -> [Ids -> {Unknown} \cup Row]]
  /\ ragged \in BOOLEAN /\ joined \in BOOLEAN
  /\ legacy \subseteq DOMAIN Legacy

CallsOK ==
  /\ pc \in [Calls -> Place]
  /\ res \in [Calls -> Calls]
  /\ at \in [Calls -> Nat]
  /\ quote \in [Calls -> Nat]
  /\ handle \in [Calls -> MasterKey]
  /\ shared \subseteq Calls

WorldOK ==
  /\ vaultKey \in MasterKey
  /\ now \in 0 .. MaxTime
  /\ order \in [Keys -> Order]
  /\ blind \subseteq Calls

TypeOK == FileOK /\ CallsOK /\ WorldOK

-----------------------------------------------------------------------------
(* Who works on which reservation.                                         *)

\* Where a call has not reserved anything, and never will have.
Early == {"open", "decide", "reserve", "reattach", "record", "refused"}

\* A reservation is in the rows of the call that made it, and nowhere else.
Owned == \A k \in MasterKey, r \in Calls :
  book[k][r] # Unknown => handle[r] = k /\ pc[r] \notin Early /\ res[r] = r

\* A file that does not exist has no rows.
Fresh == header = "absent" => \A k \in MasterKey, i \in Ids : book[k][i] = Unknown

\* Only a call that was escalated is resumed.
Resumed == \A c \in Calls :
  res[c] # c => pc[res[c]] = "escalated" /\ pc[c] \notin {"open", "reserve", "record"}

\* Two calls work on one reservation only if it is known to be shared.
Alone == \A c, d \in Calls :
  c # d /\ res[c] = res[d] /\ pc[c] \in Working /\ pc[d] \in Working => res[c] \in shared

\* A call works under the key its reservation was made with.
SameKey == \A c \in Calls : pc[c] \in Working => handle[res[c]] = handle[c]

Ownership == Owned /\ Fresh /\ Resumed /\ Alone /\ SameKey

-----------------------------------------------------------------------------
(* The merchant's order and the reservation.                               *)

Asked == \A c \in Calls :
  /\ pc[c] \in Working \ {"create", "release"} => TheOrder(c).state # "none"
  /\ pc[c] \in {"answer", "settle", "shadow", "unpersisted"} => TheOrder(c).state = "charged"

\* A shadow receipt is written for a charge.
Shadowed == \A k \in MasterKey, r \in Calls :
  book[k][r] # Unknown /\ book[k][r].shadow => order[KeyOf[r]].state = "charged"

\* A charged order was paid by one reservation of its key.
Payers == \A k \in Keys :
  IF order[k].state = "charged" THEN \E p \in Calls : order[k].by = {p} /\ KeyOf[p] = k
                                ELSE order[k].by = {}

\* What a token stands for: it was made while the reservation covered it, and only
\* the clock or an operator has taken the reservation away since, unless another call
\* was at work on it.
Backed == \A c \in Calls : pc[c] \in {"token", "complete"} /\ res[c] \notin shared =>
  /\ Mine(c) # Unknown
  /\ Mine(c).currency = TheOrder(c).currency
  /\ Mine(c).status \in Active => Mine(c).amount >= quote[c]
  /\ Mine(c).status = "captured" => TheOrder(c).state = "charged"
  /\ Mine(c).status = "released" => Mine(c).why \in {"resume_expired", "reconciled_release"}

\* A call that goes on with a reservation that paid already was told what it paid.
Told == \A c \in Calls :
  pc[c] \in {"update", "adjust", "token", "complete"} /\ res[c] \in TheOrder(c).by \ shared
    => quote[c] = TheOrder(c).total

\* The reservation whose token was charged covers the charge, or is one of the
\* known ways out of it.
Covered == \A p \in Calls : p \in order[KeyOf[p]].by \ shared =>
  /\ Made(p) # Unknown
  /\ Made(p).currency = order[KeyOf[p]].currency
  /\ Live(p) => Made(p).amount >= order[KeyOf[p]].total
  /\ Made(p).status = "released" =>
       p \in blind \/ Made(p).why \in {"resume_expired", "reconciled_release", "cap_exceeded"}

Charging == Asked /\ Shadowed /\ Payers /\ Backed /\ Told /\ Covered

\* What the caps are compared with: a reservation counts for what it may still
\* be charged, or for what its token was charged, and not at all once it is shared.
ClaimOf(e, r, o, s) ==
  IF r \in s \/ e.status \notin Active \cup {"captured"} \/ e.currency # Home THEN 0
  ELSE IF r \in o.by THEN o.total
  ELSE IF e.status \in Active THEN e.amount
  ELSE 0

Claim(k) == [r \in Calls |-> ClaimOf(book[k][r], r, order[KeyOf[r]], shared)]

ClaimsWithinCap ==
  \A k \in MasterKey, w \in Window :
    (Length[w] >= MaxTime /\ Home \in DOMAIN Limits[w]) =>
      SumFunction(Claim(k)) <= Limits[w][Home]

\* The clock never runs behind the ledger, nor a call behind its reservation.
Stamps ==
  /\ \A k \in MasterKey, i \in Ids : book[k][i] # Unknown => book[k][i].settled <= now
  /\ \A c \in Calls : at[c] <= now
  /\ \A c \in Calls : pc[c] = "settle" /\ Mine(c).status \in Active =>
       Mine(c).settled <= at[c]

-----------------------------------------------------------------------------
(* What one row does.                                                      *)

LEMMA Rows == \A r \in Row : r # Unknown /\ r.status # "none"
BY DEF Row, Unknown

LEMMA UnknownIs == Unknown.status = "none" /\ Unknown.status \notin Active
BY DEF Unknown, Active

LEMMA AppliedReserve ==
  ASSUME NEW r, NEW i, NEW amount, NEW cur, NEW time
  PROVE  applyEvent(r, reserveRow(i, amount, cur, time)) =
           [status |-> "pending", amount |-> amount, currency |-> cur, ts |-> time,
            settled |-> time, expires |-> 0, shadow |-> FALSE, why |-> "none"]
BY DEF applyEvent, reserveRow

LEMMA AppliedSpend ==
  ASSUME NEW r, NEW i, NEW amount, NEW cur, NEW time
  PROVE  applyEvent(r, spendRow(i, amount, cur, time)) =
           [status |-> "captured", amount |-> amount, currency |-> cur, ts |-> time,
            settled |-> time, expires |-> 0, shadow |-> FALSE, why |-> "none"]
BY DEF applyEvent, spendRow

LEMMA AppliedRelease ==
  ASSUME NEW r, NEW i, NEW why
  PROVE  applyEvent(r, releaseRow(i, why)) =
           IF r.status \in Active THEN [r EXCEPT !.status = "released", !.why = why] ELSE r
BY DEF applyEvent, releaseRow

LEMMA AppliedAdjust ==
  ASSUME NEW r, NEW i, NEW amount
  PROVE  applyEvent(r, adjustRow(i, amount)) =
           IF r.status \in Active THEN [r EXCEPT !.amount = amount] ELSE r
BY DEF applyEvent, adjustRow

LEMMA AppliedEscalate ==
  ASSUME NEW r, NEW i, NEW expires
  PROVE  applyEvent(r, escalateRow(i, expires)) =
           IF r.status = "pending"
           THEN [r EXCEPT !.status = "pending_escalated", !.expires = expires] ELSE r
BY DEF applyEvent, escalateRow

LEMMA AppliedSettle ==
  ASSUME NEW r, NEW i, NEW receipt, NEW time
  PROVE  applyEvent(r, settleRow(i, receipt, time)) =
           IF r.status \in Active
           THEN [r EXCEPT !.status = "captured", !.amount = receipt.total,
                          !.currency = receipt.currency, !.settled = time]
           ELSE r
BY DEF applyEvent, settleRow, Captured

LEMMA AppliedShadow ==
  ASSUME NEW r, NEW i
  PROVE  applyEvent(r, shadowRow(i)) = IF r # Unknown THEN [r EXCEPT !.shadow = TRUE] ELSE r
BY DEF applyEvent, shadowRow

-----------------------------------------------------------------------------
(* What an append does.                                                    *)

\* Rows about different reservations are folded one by one.
LEMMA FoldOf ==
  ASSUME FileOK, NEW k \in MasterKey, NEW rows, NEW j \in MasterKey, NEW i \in Ids
  PROVE  /\ (j # k \/ \A row \in rows : row.id # i) => Folded(k, rows)[j][i] = book[j][i]
         /\ \A row \in rows :
              (j = k /\ row.id = i /\ \A other \in rows : other.id = i => other = row)
                => Folded(k, rows)[j][i] = applyEvent(book[j][i], row)
<1> DEFINE New == [n \in Ids |->
                     IF \E row \in rows : row.id = n
                     THEN applyEvent(book[k][n], CHOOSE row \in rows : row.id = n)
                     ELSE book[k][n]]
<1>1. book \in [MasterKey -> [Ids -> {Unknown} \cup Row]]
  BY DEF FileOK
<1>2. Folded(k, rows) = [book EXCEPT ![k] = New]
  BY DEF Folded
<1>3. New[i] = IF \E row \in rows : row.id = i
               THEN applyEvent(book[k][i], CHOOSE row \in rows : row.id = i)
               ELSE book[k][i]
  OBVIOUS
<1> HIDE DEF New
<1>4. Folded(k, rows)[j] = IF j = k THEN New ELSE book[j]
  BY <1>1, <1>2
<1>5. CASE j # k
  BY <1>4, <1>5
<1>6. CASE j = k
  <2>1. Folded(k, rows)[j][i] = New[i]
    BY <1>4, <1>6
  <2>2. ASSUME NEW row \in rows, row.id = i, \A other \in rows : other.id = i => other = row
        PROVE  (CHOOSE x \in rows : x.id = i) = row
    BY <2>2
  <2>3. QED
    BY <1>3, <1>6, <2>1, <2>2
<1>7. QED
  BY <1>5, <1>6

LEMMA FoldDomain ==
  ASSUME FileOK, NEW k \in MasterKey, NEW rows
  PROVE  /\ DOMAIN Folded(k, rows) = MasterKey
         /\ \A j \in MasterKey : DOMAIN Folded(k, rows)[j] = Ids
BY DEF FileOK, Folded

\* Each reservation is left alone, or one of the rows is applied to it.
LEMMA AppendRows ==
  ASSUME FileOK, NEW k \in MasterKey, NEW rows, appendRows(k, rows),
         \A row, other \in rows : row.id = other.id => row = other
  PROVE  /\ header # "torn" /\ header' = "written"
         /\ ragged' \in BOOLEAN /\ joined' \in BOOLEAN /\ (joined => joined')
         /\ DOMAIN book' = MasterKey
         /\ book' = [j \in MasterKey |-> book'[j]]
         /\ \A j \in MasterKey : book'[j] = [i \in Ids |-> book'[j][i]]
         /\ \A j \in MasterKey, i \in Ids :
              \/ book'[j][i] = book[j][i]
              \/ j = k /\ \E row \in rows :
                   row.id = i /\ book'[j][i] = applyEvent(book[j][i], row)
         /\ joined' \/ book' = Folded(k, rows)
<1>1. PICK kept \in SUBSET rows : book' = Folded(k, kept) /\ (joined' \/ kept = rows)
  BY DEF appendRows
<1>2. /\ DOMAIN book' = MasterKey
      /\ book' = [j \in MasterKey |-> book'[j]]
      /\ \A j \in MasterKey : book'[j] = [i \in Ids |-> book'[j][i]]
  BY <1>1 DEF FileOK, Folded
<1>3. ASSUME NEW j \in MasterKey, NEW i \in Ids
      PROVE  \/ book'[j][i] = book[j][i]
             \/ j = k /\ \E row \in rows :
                  row.id = i /\ book'[j][i] = applyEvent(book[j][i], row)
  <2>1. CASE j # k \/ \A row \in kept : row.id # i
    BY <1>1, <2>1, FoldOf
  <2>2. CASE j = k /\ \E row \in kept : row.id = i
    <3>1. PICK row \in kept : row.id = i
      BY <2>2
    <3>2. Folded(k, kept)[j][i] = applyEvent(book[j][i], row)
      BY <2>2, <3>1, FoldOf
    <3>3. QED
      BY <1>1, <2>2, <3>1, <3>2
  <2>3. QED
    BY <2>1, <2>2
<1>4. /\ header # "torn" /\ header' = "written"
      /\ ragged' \in BOOLEAN /\ joined' \in BOOLEAN /\ (joined => joined')
  BY DEF appendRows, Usable, FileOK
<1>5. QED
  BY <1>1, <1>2, <1>3, <1>4

\* What one row about reservation i may do to the book of key k.
Turned(k, i, e) ==
  /\ DOMAIN book' = MasterKey
  /\ book' = [j \in MasterKey |-> book'[j]]
  /\ \A j \in MasterKey : book'[j] = [n \in Ids |-> book'[j][n]]
  /\ \A j \in MasterKey, n \in Ids : j # k \/ n # i => book'[j][n] = book[j][n]
  /\ book'[k][i] = e

\* A row is applied to its reservation, or it is lost on a ragged line.
LEMMA AppendOne ==
  ASSUME FileOK, NEW k \in MasterKey, NEW row, row.id \in Ids, appendRows(k, {row})
  PROVE  /\ header # "torn" /\ header' = "written"
         /\ ragged' \in BOOLEAN /\ joined' \in BOOLEAN /\ (joined => joined')
         /\ \/ Turned(k, row.id, applyEvent(book[k][row.id], row))
            \/ Turned(k, row.id, book[k][row.id]) /\ joined'
<1>1. /\ header # "torn" /\ header' = "written"
      /\ ragged' \in BOOLEAN /\ joined' \in BOOLEAN /\ (joined => joined')
      /\ DOMAIN book' = MasterKey
      /\ book' = [j \in MasterKey |-> book'[j]]
      /\ \A j \in MasterKey : book'[j] = [i \in Ids |-> book'[j][i]]
      /\ \A j \in MasterKey, i \in Ids :
           \/ book'[j][i] = book[j][i]
           \/ j = k /\ \E r \in {row} :
                r.id = i /\ book'[j][i] = applyEvent(book[j][i], r)
      /\ joined' \/ book' = Folded(k, {row})
  <2>1. \A r, other \in {row} : r.id = other.id => r = other
    OBVIOUS
  <2>2. QED
    BY <2>1, AppendRows
<1>2. \A j \in MasterKey, n \in Ids : j # k \/ n # row.id => book'[j][n] = book[j][n]
  BY <1>1
<1>3. Folded(k, {row})[k][row.id] = applyEvent(book[k][row.id], row)
  BY FoldOf
<1>4. \/ book'[k][row.id] = applyEvent(book[k][row.id], row)
      \/ book'[k][row.id] = book[k][row.id] /\ joined'
  BY <1>1, <1>3
<1>5. QED
  BY <1>1, <1>2, <1>4 DEF Turned

-----------------------------------------------------------------------------
(* The steps of a call, without the file: those that leave the ledger      *)
(* alone, and those that book one entry.                                   *)

MayLeave(c, q) ==
  \/ pc[c] = "open" /\ q = "refused"
  \/ pc[c] = "decide" /\ q = "refused"
  \/ pc[c] = "decide" /\ q \in {"reserve", "record"} /\ res[c] = c
  \/ pc[c] = "decide" /\ q = "reattach" /\ res[c] # c
  \/ pc[c] \in {"reserve", "reattach", "record", "release", "escalate"} /\ q = "failed"
  \/ pc[c] = "reattach" /\ q = "create" /\ Mine(c).status = "pending_escalated"
  \/ pc[c] \in {"create", "update", "adjust", "token", "complete", "answer"} /\ q = "release"
  \/ pc[c] = "token" /\ q = "complete"
  \/ pc[c] = "complete" /\ q = "escalate" /\ TheOrder(c).state = "open"
  \/ pc[c] = "answer" /\ q = "settle"
  \/ pc[c] = "settle" /\ q = "shadow"
  \/ pc[c] = "shadow" /\ q = "unpersisted"

Opening(status, amount, time) ==
  [status |-> status, amount |-> amount, currency |-> Home, ts |-> time,
   settled |-> time, expires |-> 0, shadow |-> FALSE, why |-> "none"]

ReleasedAs(e, why) == [e EXCEPT !.status = "released", !.why = why]

SettledAs(e, receipt, time) ==
  [e EXCEPT !.status = "captured", !.amount = receipt.total,
            !.currency = receipt.currency, !.settled = time]

Booking(c, e, q) ==
  \/ /\ pc[c] = "reserve" /\ q = "create"
     /\ withinLimits(handle[c], Price[c], Home, at[c], {})
     /\ e = Opening("pending", Price[c], at[c])
  \/ /\ pc[c] = "record" /\ q = "done"
     /\ e = Opening("captured", Price[c], at[c])
  \/ /\ pc[c] = "reattach" /\ q = "failed" /\ Mine(c).status = "pending_escalated"
     /\ e = ReleasedAs(Mine(c), "resume_expired")
  \/ /\ pc[c] = "adjust" /\ q = "failed" /\ Holds(c)
     /\ TheOrder(c).currency # Mine(c).currency
     /\ e = ReleasedAs(Mine(c), "currency_mismatch")
  \/ /\ pc[c] = "adjust" /\ q = "failed" /\ Holds(c)
     /\ TheOrder(c).currency = Mine(c).currency
     /\ quote[c] > Mine(c).amount
     /\ e = ReleasedAs(Mine(c), "amount_exceeded")
  \/ /\ pc[c] = "adjust" /\ q = "failed" /\ Holds(c)
     /\ TheOrder(c).currency = Mine(c).currency
     /\ quote[c] <= Mine(c).amount
     /\ e = ReleasedAs(Mine(c), "cap_exceeded")
  \/ /\ pc[c] = "adjust" /\ q = "token" /\ Holds(c)
     /\ TheOrder(c).currency = Mine(c).currency
     /\ quote[c] <= Mine(c).amount
     /\ withinLimits(handle[c], quote[c], Mine(c).currency, at[c], {res[c]})
     /\ e = [Mine(c) EXCEPT !.amount = quote[c]]
  \/ /\ pc[c] = "release" /\ q = "failed" /\ Holds(c)
     /\ e = ReleasedAs(Mine(c), "error")
  \/ /\ pc[c] = "escalate" /\ q = "escalated" /\ Mine(c).status = "pending"
     /\ e = [Mine(c) EXCEPT !.status = "pending_escalated", !.expires = at[c] + 1]
  \/ /\ pc[c] = "escalate" /\ q = "escalated" /\ Mine(c).status = "pending_escalated"
     /\ e = Mine(c)
  \/ /\ pc[c] = "settle" /\ q = "done" /\ Holds(c)
     /\ e = SettledAs(Mine(c), Receipt(c), at[c])
  \/ /\ pc[c] = "shadow" /\ q = "unpersisted" /\ Holds(c)
     /\ e = [Mine(c) EXCEPT !.shadow = TRUE]

FileWritten ==
  /\ header # "torn" /\ header' = "written"
  /\ ragged' \in BOOLEAN /\ joined' \in BOOLEAN /\ (joined => joined')

\* The entry is booked; or its row is lost, and the call goes on all the same.
Books(c, e, q) ==
  /\ Booking(c, e, q)
  /\ \/ Turned(handle[c], res[c], e)
     \/ Turned(handle[c], res[c], Mine(c)) /\ joined'
  /\ FileWritten
  /\ Only(c, q)
  /\ blind' = IF pc[c] = "release" /\ TheOrder(c).state = "charged"
              THEN blind \cup {res[c]} ELSE blind
  /\ UNCHANGED <<legacy, vaultKey, now, order, crashes, reconciles>>

LEMMA WritesBook ==
  ASSUME TypeOK, NEW c \in Calls, NEW row, NEW q, row.id = res[c],
         Writes(c, row, q), Booking(c, applyEvent(Mine(c), row), q), pc[c] # "release"
  PROVE  Books(c, applyEvent(Mine(c), row), q)
<1>1. /\ handle[c] \in MasterKey /\ res[c] \in Ids /\ row.id \in Ids
      /\ FileOK /\ appendRows(handle[c], {row})
  BY WalletAssumption DEF TypeOK, CallsOK, Writes
<1>2. /\ FileWritten
      /\ \/ Turned(handle[c], res[c], applyEvent(Mine(c), row))
         \/ Turned(handle[c], res[c], Mine(c)) /\ joined'
  BY <1>1, AppendOne DEF FileWritten, Mine
<1>3. /\ Only(c, q) /\ blind' = blind
      /\ UNCHANGED <<legacy, vaultKey, now, order, crashes, reconciles>>
  BY DEF Writes, worldVars
<1>4. QED
  BY <1>2, <1>3 DEF Books

LEMMA MineTyped ==
  ASSUME TypeOK, NEW c \in Calls
  PROVE  /\ handle[c] \in MasterKey /\ res[c] \in Calls /\ res[c] \in Ids /\ c \in Ids
         /\ Mine(c) \in {Unknown} \cup Row
         /\ Holds(c) <=> Mine(c).status \in Active
         /\ Holds(c) => Mine(c) \in Row
         /\ Mine(c).status = "pending" => Holds(c)
         /\ Mine(c).status = "pending_escalated" => Holds(c)
         /\ KeyOf[res[c]] \in Keys /\ TheOrder(c) \in Order
<1>1. handle[c] \in MasterKey /\ res[c] \in Calls /\ res[c] \in Ids /\ c \in Ids
  BY WalletAssumption DEF TypeOK, CallsOK
<1>2. Mine(c) \in {Unknown} \cup Row
  BY <1>1 DEF TypeOK, FileOK, Mine
<1>3. KeyOf[res[c]] \in Keys /\ TheOrder(c) \in Order
  BY <1>1 DEF Keys, TypeOK, WorldOK, TheOrder
<1>4. /\ Holds(c) <=> Mine(c).status \in Active
      /\ Mine(c).status = "pending" => Holds(c)
      /\ Mine(c).status = "pending_escalated" => Holds(c)
  BY DEF Holds, IsActive, Mine, Active
<1>5. Holds(c) => Mine(c) \in Row
  BY <1>2, <1>4, UnknownIs
<1>6. QED
  BY <1>1, <1>2, <1>3, <1>4, <1>5

LEMMA ReserveBooks ==
  ASSUME TypeOK, NEW c \in Calls, res[c] = c, Reserve(c)
  PROVE  (MayLeave(c, "failed") /\ Leaves(c, "failed")) \/ \E e, q : Books(c, e, q)
<1> DEFINE row == reserveRow(c, Price[c], Home, at[c])
<1>1. CASE Leaves(c, "failed")
  BY <1>1 DEF Reserve, MayLeave
<1>2. CASE /\ withinLimits(handle[c], Price[c], Home, at[c], {})
           /\ Writes(c, row, "create")
  <2>1. row.id = res[c] /\ pc[c] = "reserve"
    BY DEF reserveRow, Reserve
  <2>2. Booking(c, applyEvent(Mine(c), row), "create")
    <3>1. applyEvent(Mine(c), row) = Opening("pending", Price[c], at[c])
      BY AppliedReserve, WalletAssumption DEF Opening, TypeOK, CallsOK
    <3>2. QED
      BY <1>2, <2>1, <3>1 DEF Booking
  <2>3. QED
    BY <1>2, <2>1, <2>2, WritesBook
<1>3. QED
  BY <1>1, <1>2 DEF Reserve

LEMMA ReattachBooks ==
  ASSUME TypeOK, NEW c \in Calls, Reattach(c)
  PROVE  (\E q : MayLeave(c, q) /\ Leaves(c, q)) \/ \E e, q : Books(c, e, q)
<1> DEFINE row == releaseRow(res[c], "resume_expired")
<1>1. CASE Mine(c).status = "pending_escalated" /\ Leaves(c, "create")
  BY <1>1 DEF Reattach, MayLeave
<1>2. CASE Leaves(c, "failed")
  BY <1>2 DEF Reattach, MayLeave
<1>3. CASE Mine(c).status = "pending_escalated" /\ Writes(c, row, "failed")
  <2>1. row.id = res[c] /\ pc[c] = "reattach"
    BY DEF releaseRow, Reattach
  <2>2. applyEvent(Mine(c), row) = ReleasedAs(Mine(c), "resume_expired")
    <3>1. Mine(c).status \in Active
      BY <1>3 DEF Active
    <3>2. QED
      BY <3>1, AppliedRelease DEF ReleasedAs
  <2>3. Booking(c, applyEvent(Mine(c), row), "failed")
    BY <1>3, <2>1, <2>2 DEF Booking
  <2>4. QED
    BY <1>3, <2>1, <2>3, WritesBook
<1>4. QED
  BY <1>1, <1>2, <1>3 DEF Reattach

\* currency_mismatch, amount_exceeded and cap_exceeded release; else the total is kept.
LEMMA OnTotalsKnownBooks ==
  ASSUME TypeOK, NEW c \in Calls, OnTotalsKnown(c)
  PROVE  (MayLeave(c, "release") /\ Leaves(c, "release")) \/ \E e, q : Books(c, e, q)
<1> DEFINE drop(why) == releaseRow(res[c], why)
           keep == adjustRow(res[c], quote[c])
           fits == withinLimits(handle[c], quote[c], Mine(c).currency, at[c], {res[c]})
           same == TheOrder(c).currency = Mine(c).currency
           over == quote[c] > Mine(c).amount
<1>1. CASE Leaves(c, "release")
  BY <1>1 DEF OnTotalsKnown, MayLeave
<1>2. CASE Holds(c) /\ ~Leaves(c, "release")
  <2>1. /\ \A why : drop(why).id = res[c]
        /\ keep.id = res[c] /\ pc[c] = "adjust" /\ pc[c] # "release"
    BY DEF releaseRow, adjustRow, OnTotalsKnown
  <2>2. Mine(c).status \in Active
    BY <1>2, MineTyped
  <2>3. \A why : applyEvent(Mine(c), drop(why)) = ReleasedAs(Mine(c), why)
    BY <2>2, AppliedRelease DEF ReleasedAs
  <2>4. applyEvent(Mine(c), keep) = [Mine(c) EXCEPT !.amount = quote[c]]
    BY <2>2, AppliedAdjust DEF TypeOK, CallsOK
  <2>5. quote[c] \in Nat /\ Mine(c).amount \in Nat
    BY <1>2, MineTyped DEF TypeOK, CallsOK, Row
  <2>6. \/ ~same /\ Writes(c, drop("currency_mismatch"), "failed")
        \/ same /\ adjust(c, quote[c])
    BY <1>2 DEF OnTotalsKnown, Fails
  <2>7. same /\ adjust(c, quote[c]) =>
           \/ over /\ Writes(c, drop("amount_exceeded"), "failed")
           \/ ~over /\ ~fits /\ Writes(c, drop("cap_exceeded"), "failed")
           \/ ~over /\ fits /\ Writes(c, keep, "token")
    <3> HIDE DEF keep, drop
    <3>1. over \/ quote[c] <= Mine(c).amount
      BY <2>5
    <3>2. ~(over /\ quote[c] <= Mine(c).amount)
      BY <2>5
    <3> HIDE DEF fits
    <3>3. QED
      BY <3>1, <3>2 DEF adjust, keep, drop, fits
  <2>8. CASE ~same /\ Writes(c, drop("currency_mismatch"), "failed")
    <3>1. Booking(c, applyEvent(Mine(c), drop("currency_mismatch")), "failed")
      BY <1>2, <2>1, <2>3, <2>8 DEF Booking
    <3>2. QED
      BY <2>1, <2>8, <3>1, WritesBook
  <2>9. CASE same /\ over /\ Writes(c, drop("amount_exceeded"), "failed")
    <3>1. Booking(c, applyEvent(Mine(c), drop("amount_exceeded")), "failed")
      BY <1>2, <2>1, <2>3, <2>9 DEF Booking
    <3>2. QED
      BY <2>1, <2>9, <3>1, WritesBook
  <2>10. CASE same /\ ~over /\ ~fits /\ Writes(c, drop("cap_exceeded"), "failed")
    <3>1. quote[c] <= Mine(c).amount
      BY <2>5, <2>10
    <3>2. Booking(c, applyEvent(Mine(c), drop("cap_exceeded")), "failed")
      BY <1>2, <2>1, <2>3, <2>10, <3>1 DEF Booking
    <3>3. QED
      BY <2>1, <2>10, <3>2, WritesBook
  <2>11. CASE same /\ ~over /\ fits /\ Writes(c, keep, "token")
    <3>1. quote[c] <= Mine(c).amount
      BY <2>5, <2>11
    <3>2. Booking(c, applyEvent(Mine(c), keep), "token")
      BY <1>2, <2>1, <2>4, <2>11, <3>1 DEF Booking
    <3>3. QED
      BY <2>1, <2>11, <3>2, WritesBook
  <2>12. QED
    BY <2>6, <2>7, <2>8, <2>9, <2>10, <2>11
<1>3. QED
  BY <1>1, <1>2 DEF OnTotalsKnown, Fails

LEMMA ReleaseBooks ==
  ASSUME TypeOK, NEW c \in Calls, Release(c)
  PROVE  (MayLeave(c, "failed") /\ Leaves(c, "failed")) \/ \E e, q : Books(c, e, q)
<1> DEFINE row == releaseRow(res[c], "error")
<1>1. CASE Leaves(c, "failed")
  BY <1>1 DEF Release, MayLeave
<1>2. CASE Holds(c) /\ ~Leaves(c, "failed")
  <2>1. /\ handle[c] \in MasterKey /\ row.id \in Ids /\ row.id = res[c] /\ FileOK
        /\ Mine(c).status \in Active
    BY <1>2, MineTyped DEF releaseRow, TypeOK
  <2>2. /\ pc[c] = "release" /\ appendRows(handle[c], {row}) /\ Only(c, "failed")
        /\ blind' = IF TheOrder(c).state = "charged" THEN blind \cup {res[c]} ELSE blind
        /\ UNCHANGED <<legacy, vaultKey, now, order, crashes, reconciles>>
    BY <1>2 DEF Release, Fails
  <2>3. applyEvent(Mine(c), row) = ReleasedAs(Mine(c), "error")
    BY <2>1, AppliedRelease DEF ReleasedAs
  <2> HIDE DEF row
  <2>4. /\ FileWritten
        /\ \/ Turned(handle[c], res[c], applyEvent(Mine(c), row))
           \/ Turned(handle[c], res[c], Mine(c)) /\ joined'
    BY <2>1, <2>2, AppendOne DEF FileWritten, Mine
  <2>5. Booking(c, ReleasedAs(Mine(c), "error"), "failed")
    BY <1>2, <2>2 DEF Booking
  <2>6. QED
    BY <2>2, <2>3, <2>4, <2>5 DEF Books
<1>3. QED
  BY <1>1, <1>2 DEF Release, Fails

LEMMA MarkEscalatedBooks ==
  ASSUME TypeOK, NEW c \in Calls, MarkEscalated(c)
  PROVE  (MayLeave(c, "failed") /\ Leaves(c, "failed")) \/ \E e, q : Books(c, e, q)
<1> DEFINE row == escalateRow(res[c], at[c] + 1)
<1>1. CASE Leaves(c, "failed")
  BY <1>1 DEF MarkEscalated, MayLeave
<1>2. CASE Holds(c) /\ Writes(c, row, "escalated")
  <2>1. row.id = res[c] /\ pc[c] = "escalate"
    BY DEF escalateRow, MarkEscalated
  <2>2. applyEvent(Mine(c), row) =
          IF Mine(c).status = "pending"
          THEN [Mine(c) EXCEPT !.status = "pending_escalated", !.expires = at[c] + 1]
          ELSE Mine(c)
    BY AppliedEscalate DEF TypeOK, CallsOK
  <2>3. Mine(c).status = "pending" \/ Mine(c).status = "pending_escalated"
    BY <1>2, MineTyped DEF Active
  <2> HIDE DEF row
  <2>4. Booking(c, applyEvent(Mine(c), row), "escalated")
    BY <2>1, <2>2, <2>3 DEF Booking
  <2>5. QED
    BY <1>2, <2>1, <2>4, WritesBook
<1>3. QED
  BY <1>1, <1>2 DEF MarkEscalated, Fails

LEMMA SettleBooks ==
  ASSUME TypeOK, NEW c \in Calls, Settle(c)
  PROVE  (MayLeave(c, "shadow") /\ Leaves(c, "shadow")) \/ \E e, q : Books(c, e, q)
<1> DEFINE row == settleRow(res[c], Receipt(c), at[c])
<1>1. CASE Leaves(c, "shadow")
  BY <1>1 DEF Settle, MayLeave
<1>2. CASE Holds(c) /\ Writes(c, row, "done")
  <2>1. row.id = res[c] /\ pc[c] = "settle"
    BY DEF settleRow, Settle
  <2>2. Mine(c).status \in Active
    BY <1>2, MineTyped
  <2>3. applyEvent(Mine(c), row) = SettledAs(Mine(c), Receipt(c), at[c])
    <3>1. \A r, i, receipt, time : r.status \in Active =>
            applyEvent(r, settleRow(i, receipt, time)) = SettledAs(r, receipt, time)
      BY AppliedSettle DEF SettledAs
    <3>2. QED
      BY <2>2, <3>1, Zenon
  <2> HIDE DEF row
  <2>4. Booking(c, applyEvent(Mine(c), row), "done")
    BY <1>2, <2>1, <2>3 DEF Booking
  <2>5. QED
    BY <1>2, <2>1, <2>4, WritesBook
<1>3. QED
  BY <1>1, <1>2 DEF Settle, Fails

LEMMA WriteShadowReceiptBooks ==
  ASSUME TypeOK, NEW c \in Calls, WriteShadowReceipt(c)
  PROVE  (MayLeave(c, "unpersisted") /\ Leaves(c, "unpersisted"))
           \/ \E e, q : Books(c, e, q)
<1> DEFINE row == shadowRow(res[c])
<1>1. CASE Leaves(c, "unpersisted")
  BY <1>1 DEF WriteShadowReceipt, MayLeave
<1>2. CASE Holds(c) /\ Writes(c, row, "unpersisted")
  <2>1. row.id = res[c] /\ pc[c] = "shadow"
    BY DEF shadowRow, WriteShadowReceipt
  <2>2. Mine(c) # Unknown
    BY <1>2, MineTyped, Rows
  <2>3. applyEvent(Mine(c), row) = [Mine(c) EXCEPT !.shadow = TRUE]
    BY <2>2, AppliedShadow
  <2> HIDE DEF row
  <2>4. Booking(c, applyEvent(Mine(c), row), "unpersisted")
    BY <1>2, <2>1, <2>3 DEF Booking
  <2>5. QED
    BY <1>2, <2>1, <2>4, WritesBook
<1>3. QED
  BY <1>1, <1>2 DEF WriteShadowReceipt, Fails

LEMMA ManualSessionBooks ==
  ASSUME TypeOK, NEW c \in Calls, res[c] = c, ManualSession(c)
  PROVE  (MayLeave(c, "failed") /\ Leaves(c, "failed")) \/ \E e, q : Books(c, e, q)
<1> DEFINE row == spendRow(c, Price[c], Home, at[c])
<1>1. CASE Leaves(c, "failed")
  BY <1>1 DEF ManualSession, MayLeave
<1>2. CASE Writes(c, row, "done")
  <2>1. row.id = res[c] /\ pc[c] = "record"
    BY DEF spendRow, ManualSession
  <2>2. applyEvent(Mine(c), row) = Opening("captured", Price[c], at[c])
    BY AppliedSpend, WalletAssumption DEF Opening, TypeOK, CallsOK
  <2> HIDE DEF row
  <2>3. Booking(c, applyEvent(Mine(c), row), "done")
    BY <2>1, <2>2 DEF Booking
  <2>4. QED
    BY <1>2, <2>1, <2>3, WritesBook
<1>3. QED
  BY <1>1, <1>2 DEF ManualSession, recordSpend

\* Every step of a call is one of these six.
LEMMA StepKinds ==
  ASSUME TypeOK, Resumed, NEW c \in Calls, Step(c)
  PROVE  \/ OpenWallet(c)
         \/ \E q : MayLeave(c, q) /\ Leaves(c, q)
         \/ \E e, q : Books(c, e, q)
         \/ Create(c)
         \/ Update(c)
         \/ Complete(c)
<1>1. pc[c] \in {"reserve", "record"} => res[c] = c
  BY DEF Resumed
<1>2. Reserve(c) => pc[c] = "reserve"
  BY DEF Reserve
<1>3. ManualSession(c) => pc[c] = "record"
  BY DEF ManualSession
<1>4. OpenFails(c) => MayLeave(c, "refused") /\ Leaves(c, "refused")
  BY DEF OpenFails, MayLeave
<1>5. Decide(c) => \E q : MayLeave(c, q) /\ Leaves(c, q)
  BY DEF Decide, prepareBrowserManualSession, MayLeave
<1>6. DriverThrows(c) \/ Refused(c) => MayLeave(c, "release") /\ Leaves(c, "release")
  BY DEF DriverThrows, Refused, MayLeave
<1>7. Token(c) => MayLeave(c, "complete") /\ Leaves(c, "complete")
  BY DEF Token, MayLeave
<1>8. Escalates(c) => MayLeave(c, "escalate") /\ Leaves(c, "escalate")
  BY DEF Escalates, MayLeave
<1>9. Answer(c) => \E q : MayLeave(c, q) /\ Leaves(c, q)
  BY DEF Answer, MayLeave
<1>10. QED
  BY <1>1, <1>2, <1>3, <1>4, <1>5, <1>6, <1>7, <1>8, <1>9, ReserveBooks, ReattachBooks,
     OnTotalsKnownBooks, ReleaseBooks, MarkEscalatedBooks, SettleBooks,
     WriteShadowReceiptBooks, ManualSessionBooks
     DEF Step

-----------------------------------------------------------------------------
(* The steps that touch several entries, and those of operators.           *)

BookShape ==
  /\ DOMAIN book' = MasterKey
  /\ book' = [j \in MasterKey |-> book'[j]]
  /\ \A j \in MasterKey : book'[j] = [n \in Ids |-> book'[j][n]]

FileMoves ==
  /\ header' \in {"absent", "written", "torn"}
  /\ ragged' \in BOOLEAN /\ joined' \in BOOLEAN /\ (joined => joined')
  /\ legacy' \subseteq DOMAIN Legacy
  /\ header' = "absent" => header = "absent" /\ book' = book

\* The old ledger moves into a file that does not exist yet.
Imports(k) ==
  /\ BookShape
  /\ header = "absent"
  /\ \A j \in MasterKey, i \in Ids :
       \/ book'[j][i] = book[j][i]
       \/ /\ j = k /\ i \in DOMAIN Legacy
          /\ book'[j][i] = Opening("captured", Legacy[i], 0)

\* Overdue escalations are released.
Expires(k) ==
  /\ BookShape
  /\ \A j \in MasterKey, i \in Ids :
       \/ book'[j][i] = book[j][i]
       \/ /\ j = k /\ book[j][i].status = "pending_escalated"
          /\ book'[j][i] = ReleasedAs(book[j][i], "resume_expired")

LEMMA ImportsRows ==
  ASSUME FileOK, NEW k \in MasterKey, NEW written \in SUBSET migrateLegacyIfNeeded(Home),
         header = "absent", appendRows(k, written)
  PROVE  Imports(k) /\ FileWritten
<1>1. \A row \in written : row.id \in legacy /\ row = spendRow(row.id, Legacy[row.id], Home, 0)
  BY DEF migrateLegacyIfNeeded, spendRow
<1>2. \A row, other \in written : row.id = other.id => row = other
  BY <1>1
<1>3. /\ FileWritten /\ BookShape
      /\ \A j \in MasterKey, i \in Ids :
           \/ book'[j][i] = book[j][i]
           \/ j = k /\ \E row \in written :
                row.id = i /\ book'[j][i] = applyEvent(book[j][i], row)
  BY <1>2, AppendRows DEF FileWritten, BookShape
<1>4. ASSUME NEW j \in MasterKey, NEW i \in Ids, NEW row \in written, row.id = i,
             book'[j][i] = applyEvent(book[j][i], row)
      PROVE  i \in DOMAIN Legacy /\ book'[j][i] = Opening("captured", Legacy[i], 0)
  <2>1. i \in legacy /\ legacy \subseteq DOMAIN Legacy
    BY <1>1, <1>4 DEF FileOK
  <2>2. row = spendRow(i, Legacy[i], Home, 0)
    BY <1>1, <1>4
  <2>3. \A r, n, amount :
          applyEvent(r, spendRow(n, amount, Home, 0)) = Opening("captured", amount, 0)
    BY AppliedSpend DEF Opening
  <2>4. applyEvent(book[j][i], row) = Opening("captured", Legacy[i], 0)
    BY <2>2, <2>3
  <2>5. QED
    BY <1>4, <2>1, <2>4
<1>5. QED
  BY <1>3, <1>4 DEF Imports

LEMMA ExpiresRows ==
  ASSUME FileOK, NEW k \in MasterKey, NEW time,
         appendRows(k, releaseExpiredEscalations(k, time))
  PROVE  Expires(k) /\ FileWritten
<1> DEFINE rows == releaseExpiredEscalations(k, time)
<1>1. \A row \in rows :
        /\ row.id \in Ids /\ book[k][row.id].status = "pending_escalated"
        /\ row = releaseRow(row.id, "resume_expired")
  BY DEF releaseExpiredEscalations, releaseRow
<1> HIDE DEF rows
<1>2. \A row, other \in rows : row.id = other.id => row = other
  BY <1>1
<1>3. appendRows(k, rows)
  BY DEF rows
<1>4. /\ FileWritten /\ BookShape
      /\ \A j \in MasterKey, i \in Ids :
           \/ book'[j][i] = book[j][i]
           \/ j = k /\ \E row \in rows :
                row.id = i /\ book'[j][i] = applyEvent(book[j][i], row)
  BY <1>2, <1>3, AppendRows DEF FileWritten, BookShape
<1>5. ASSUME NEW i \in Ids, NEW row \in rows, row.id = i,
             book'[k][i] = applyEvent(book[k][i], row)
      PROVE  /\ book[k][i].status = "pending_escalated"
             /\ book'[k][i] = ReleasedAs(book[k][i], "resume_expired")
  <2>1. book[k][i].status = "pending_escalated" /\ row = releaseRow(i, "resume_expired")
    BY <1>1, <1>5
  <2>2. \A r, n, why : r.status \in Active =>
          applyEvent(r, releaseRow(n, why)) = ReleasedAs(r, why)
    BY AppliedRelease DEF ReleasedAs
  <2>3. book[k][i].status \in Active
    BY <2>1 DEF Active
  <2>4. applyEvent(book[k][i], row) = ReleasedAs(book[k][i], "resume_expired")
    BY <2>1, <2>2, <2>3, Zenon
  <2>5. QED
    BY <1>5, <2>1, <2>4
<1>6. QED
  BY <1>4, <1>5 DEF Expires

\* Opening the wallet.
Opened(c) ==
  /\ pc[c] = "open"
  /\ \E r \in {c} \cup Resumable(c) : res' = [res EXCEPT ![c] = r]
  /\ handle' = [handle EXCEPT ![c] = vaultKey]
  /\ To(c, "decide")
  /\ UNCHANGED <<quote, vaultKey, now, order, blind, crashes, reconciles>>
  /\ FileMoves
  /\ Imports(vaultKey) \/ Expires(vaultKey) \/ book' = book

LEMMA OpenOpens ==
  ASSUME TypeOK, NEW c \in Calls, OpenWallet(c)
  PROVE  Opened(c)
<1>1. /\ pc[c] = "open"
      /\ \E r \in {c} \cup Resumable(c) : res' = [res EXCEPT ![c] = r]
      /\ handle' = [handle EXCEPT ![c] = vaultKey]
      /\ To(c, "decide")
      /\ UNCHANGED <<quote, vaultKey, now, order, blind, crashes, reconciles>>
  BY DEF OpenWallet, worldVars
<1>2. FileOK /\ vaultKey \in MasterKey /\ legacy \subseteq DOMAIN Legacy
  BY DEF TypeOK, WorldOK, FileOK
<1>3. CASE MigrationDue
  <2>1. /\ header = "absent" /\ legacy' = {}
        /\ appendRows(vaultKey, migrateLegacyIfNeeded(Home))
    BY <1>3 DEF OpenWallet, MigrationDue
  <2>2. Imports(vaultKey) /\ FileWritten
    BY <1>2, <2>1, ImportsRows
  <2>3. QED
    BY <1>1, <2>1, <2>2 DEF Opened, FileMoves, FileWritten
<1>4. CASE ~MigrationDue /\ header = "absent"
  BY <1>1, <1>2, <1>4 DEF OpenWallet, Opened, FileMoves, FileOK
<1>5. CASE ~MigrationDue /\ header # "absent"
  <2>1. appendRows(vaultKey, releaseExpiredEscalations(vaultKey, now)) /\ legacy' = legacy
    BY <1>5 DEF OpenWallet
  <2>2. Expires(vaultKey) /\ FileWritten
    BY <1>2, <2>1, ExpiresRows
  <2>3. QED
    BY <1>1, <1>2, <2>1, <2>2 DEF Opened, FileMoves, FileWritten
<1>6. QED
  BY <1>3, <1>4, <1>5

\* A process dies.
Crashed(c) ==
  /\ pc[c] \notin Over
  /\ pc' = [pc EXCEPT ![c] = "crashed"]
  /\ UNCHANGED <<res, at, quote, handle, shared, vaultKey, now, order, blind, reconciles>>
  /\ FileMoves
  /\ Imports(vaultKey) \/ book' = book

LEMMA CrashCrashes ==
  ASSUME TypeOK, NEW c \in Calls, Crash(c)
  PROVE  Crashed(c)
<1>1. /\ pc[c] \notin Over
      /\ pc' = [pc EXCEPT ![c] = "crashed"]
      /\ UNCHANGED <<res, at, quote, handle, shared, vaultKey, now, order, blind, reconciles>>
  BY DEF Crash
<1>2. FileOK /\ vaultKey \in MasterKey
  BY DEF TypeOK, WorldOK
<1>3. CASE UNCHANGED ledgerVars
  BY <1>1, <1>2, <1>3 DEF Crashed, FileMoves, ledgerVars, FileOK
<1>4. CASE CrashInAppend
  BY <1>1, <1>2, <1>4 DEF Crashed, FileMoves, CrashInAppend, FileOK
<1>5. CASE /\ pc[c] = "open" /\ MigrationDue
           /\ \E written \in SUBSET migrateLegacyIfNeeded(Home) :
                appendRows(vaultKey, written)
           /\ UNCHANGED legacy
  <2>1. Imports(vaultKey) /\ FileWritten
    BY <1>2, <1>5, ImportsRows DEF MigrationDue
  <2>2. QED
    BY <1>1, <1>2, <1>5, <2>1 DEF Crashed, FileMoves, FileWritten, FileOK
<1>6. QED
  BY <1>3, <1>4, <1>5 DEF Crash

\* An operator completes a reservation, for a charge, or releases it.
Reconciling(r, e) ==
  \/ e = ReleasedAs(book[vaultKey][r], "reconciled_release")
  \/ /\ book[vaultKey][r].shadow \/ (pc[r] = "unpersisted" /\ order[KeyOf[r]].state = "charged")
     /\ e = SettledAs(book[vaultKey][r],
                      [total |-> order[KeyOf[r]].total, currency |-> order[KeyOf[r]].currency],
                      now)

Reconciled(r, e) ==
  /\ book[vaultKey][r] \in Row /\ book[vaultKey][r].status \in Active
  /\ Reconciling(r, e)
  /\ \/ Turned(vaultKey, r, e)
     \/ Turned(vaultKey, r, book[vaultKey][r]) /\ joined'
  /\ FileWritten
  /\ UNCHANGED <<legacy, pc, res, at, quote, handle, shared, vaultKey, now, order, blind, crashes>>

LEMMA ReconcileReconciles ==
  ASSUME TypeOK, NEW r \in Calls, Reconcile(r)
  PROVE  \E e : Reconciled(r, e)
<1> DEFINE receipt == [total |-> order[KeyOf[r]].total, currency |-> order[KeyOf[r]].currency]
           e == book[vaultKey][r]
<1>1. /\ FileOK /\ vaultKey \in MasterKey /\ r \in Ids /\ e \in {Unknown} \cup Row
  BY WalletAssumption DEF TypeOK, WorldOK, FileOK
<1>2. e.status \in Active /\ e \in Row
  BY <1>1, UnknownIs DEF Reconcile, IsActive
<1>3. UNCHANGED <<legacy, pc, res, at, quote, handle, shared, vaultKey, now, order, blind, crashes>>
  BY DEF Reconcile, callVars
<1>4. CASE appendRows(vaultKey, {releaseRow(r, "reconciled_release")})
  <2> DEFINE row == releaseRow(r, "reconciled_release")
  <2>1. row.id = r
    BY DEF releaseRow
  <2>2. \A x, n, why : x.status \in Active =>
          applyEvent(x, releaseRow(n, why)) = ReleasedAs(x, why)
    BY AppliedRelease DEF ReleasedAs
  <2>3. applyEvent(e, row) = ReleasedAs(e, "reconciled_release")
    BY <1>2, <2>2, Zenon
  <2> HIDE DEF row
  <2>4. appendRows(vaultKey, {row})
    BY <1>4 DEF row
  <2>5. /\ FileWritten
        /\ \/ Turned(vaultKey, r, applyEvent(e, row))
           \/ Turned(vaultKey, r, e) /\ joined'
    BY <1>1, <2>1, <2>4, AppendOne DEF FileWritten
  <2>6. QED
    BY <1>2, <1>3, <2>3, <2>5 DEF Reconciled, Reconciling
<1>5. CASE /\ e.shadow \/ (pc[r] = "unpersisted" /\ order[KeyOf[r]].state = "charged")
           /\ appendRows(vaultKey, {settleRow(r, receipt, now)})
  <2> DEFINE row == settleRow(r, receipt, now)
  <2>1. row.id = r
    BY DEF settleRow
  <2>2. \A x, n, paid, time : x.status \in Active =>
          applyEvent(x, settleRow(n, paid, time)) = SettledAs(x, paid, time)
    BY AppliedSettle DEF SettledAs
  <2>3. applyEvent(e, row) = SettledAs(e, receipt, now)
    BY <1>2, <2>2, Zenon
  <2> HIDE DEF row
  <2>4. appendRows(vaultKey, {row})
    BY <1>5 DEF row
  <2>5. /\ FileWritten
        /\ \/ Turned(vaultKey, r, applyEvent(e, row))
           \/ Turned(vaultKey, r, e) /\ joined'
    BY <1>1, <2>1, <2>4, AppendOne DEF FileWritten
  <2>6. Reconciling(r, applyEvent(e, row))
    BY <1>5, <2>3 DEF Reconciling
  <2>7. QED
    BY <1>2, <1>3, <2>5, <2>6 DEF Reconciled
<1>6. QED
  BY <1>4, <1>5 DEF Reconcile

-----------------------------------------------------------------------------
(* Type correctness.                                                       *)

LEMMA RowOf ==
  ASSUME NEW e \in Row
  PROVE  /\ \A why \in Why : ReleasedAs(e, why) \in Row
         /\ \A n \in Nat : [e EXCEPT !.amount = n] \in Row
         /\ \A n \in Nat : [e EXCEPT !.status = "pending_escalated", !.expires = n] \in Row
         /\ [e EXCEPT !.shadow = TRUE] \in Row
         /\ \A receipt : \A n \in Nat :
              receipt.total \in Nat /\ receipt.currency \in Currency
                => SettledAs(e, receipt, n) \in Row
BY DEF Row, ReleasedAs, SettledAs

LEMMA OpeningIsRow ==
  ASSUME NEW status \in {"pending", "captured"}, NEW amount \in Nat, NEW time \in Nat
  PROVE  Opening(status, amount, time) \in Row
<1>1. Home \in Currency /\ "none" \in Why /\ FALSE \in BOOLEAN /\ 0 \in Nat
  BY WalletAssumption DEF Why
<1>2. status \in {"pending", "pending_escalated", "captured", "released"}
  OBVIOUS
<1>3. QED
  BY <1>1, <1>2 DEF Row, Opening

LEMMA ReceiptTyped ==
  ASSUME NEW o \in Order
  PROVE  /\ o.total \in Nat /\ o.currency \in Currency
         /\ [total |-> o.total, currency |-> o.currency].total \in Nat
         /\ [total |-> o.total, currency |-> o.currency].currency \in Currency
BY DEF Order

LEMMA BookingTyped ==
  ASSUME TypeOK, NEW c \in Calls, NEW e, NEW q, Booking(c, e, q)
  PROVE  e \in Row /\ q \in Place
<1>1. q \in Place
  BY DEF Booking, Place, Over
<1> SUFFICES e \in Row
  BY <1>1
<1>2. at[c] \in Nat /\ quote[c] \in Nat /\ Price[c] \in Nat /\ at[c] + 1 \in Nat
  BY WalletAssumption DEF TypeOK, CallsOK
<1>3. /\ Holds(c) => Mine(c) \in Row
      /\ Mine(c).status = "pending" => Mine(c) \in Row
      /\ Mine(c).status = "pending_escalated" => Mine(c) \in Row
  BY MineTyped
<1>4. Receipt(c).total \in Nat /\ Receipt(c).currency \in Currency
  BY MineTyped, ReceiptTyped DEF Receipt
<1>5. {"resume_expired", "cap_exceeded", "amount_exceeded", "currency_mismatch", "error"}
        \subseteq Why
  BY DEF Why
<1>6. CASE e = Opening("pending", Price[c], at[c])
  BY <1>2, <1>6, OpeningIsRow
<1>7. CASE e = Opening("captured", Price[c], at[c])
  BY <1>2, <1>7, OpeningIsRow
<1>8. CASE Mine(c) \in Row /\ \E why \in Why : e = ReleasedAs(Mine(c), why)
  BY <1>8, RowOf
<1>9. CASE Mine(c) \in Row /\ e = [Mine(c) EXCEPT !.amount = quote[c]]
  BY <1>2, <1>9, RowOf
<1>10. CASE Mine(c) \in Row
            /\ e = [Mine(c) EXCEPT !.status = "pending_escalated", !.expires = at[c] + 1]
  BY <1>2, <1>10, RowOf
<1>11. CASE Mine(c) \in Row /\ e = Mine(c)
  BY <1>11
<1>12. CASE Mine(c) \in Row /\ e = SettledAs(Mine(c), Receipt(c), at[c])
  BY <1>2, <1>4, <1>12, RowOf
<1>13. CASE Mine(c) \in Row /\ e = [Mine(c) EXCEPT !.shadow = TRUE]
  BY <1>13, RowOf
<1>14. \/ e = Opening("pending", Price[c], at[c])
       \/ e = Opening("captured", Price[c], at[c])
       \/ Mine(c) \in Row /\ \/ \E why \in Why : e = ReleasedAs(Mine(c), why)
                             \/ e = [Mine(c) EXCEPT !.amount = quote[c]]
                             \/ e = [Mine(c) EXCEPT !.status = "pending_escalated",
                                                   !.expires = at[c] + 1]
                             \/ e = Mine(c)
                             \/ e = SettledAs(Mine(c), Receipt(c), at[c])
                             \/ e = [Mine(c) EXCEPT !.shadow = TRUE]
  <2>1. /\ "resume_expired" \in Why /\ "cap_exceeded" \in Why /\ "amount_exceeded" \in Why
        /\ "currency_mismatch" \in Why /\ "error" \in Why
    BY <1>5
  <2>2. QED
    BY <1>3, <2>1 DEF Booking
<1>15. QED
  BY <1>6, <1>7, <1>8, <1>9, <1>10, <1>11, <1>12, <1>13, <1>14

LEMMA TurnedTyped ==
  ASSUME TypeOK, NEW k \in MasterKey, NEW i \in Ids, NEW e \in {Unknown} \cup Row,
         Turned(k, i, e)
  PROVE  book' \in [MasterKey -> [Ids -> {Unknown} \cup Row]]
<1>1. \A j \in MasterKey, n \in Ids : book'[j][n] \in {Unknown} \cup Row
  BY DEF Turned, TypeOK, FileOK
<1>2. QED
  BY <1>1 DEF Turned

LEMMA ImportsTyped ==
  ASSUME TypeOK, NEW k \in MasterKey, Imports(k) \/ Expires(k)
  PROVE  book' \in [MasterKey -> [Ids -> {Unknown} \cup Row]]
<1>1. BookShape
  BY DEF Imports, Expires
<1>2. ASSUME NEW j \in MasterKey, NEW i \in Ids
      PROVE  book'[j][i] \in {Unknown} \cup Row
  <2>1. book[j][i] \in {Unknown} \cup Row
    BY DEF TypeOK, FileOK
  <2>2. CASE book'[j][i] = book[j][i]
    BY <2>1, <2>2
  <2>3. CASE i \in DOMAIN Legacy /\ book'[j][i] = Opening("captured", Legacy[i], 0)
    BY <2>3, OpeningIsRow, LedgerAssumption
  <2>4. CASE /\ book[j][i].status = "pending_escalated"
             /\ book'[j][i] = ReleasedAs(book[j][i], "resume_expired")
    <3>1. book[j][i] \in Row /\ "resume_expired" \in Why
      BY <2>1, <2>4, UnknownIs DEF Why
    <3>2. QED
      BY <2>4, <3>1, RowOf
  <2>5. QED
    BY <2>2, <2>3, <2>4 DEF Imports, Expires
<1>3. QED
  BY <1>1, <1>2 DEF BookShape

LEMMA ToTyped ==
  ASSUME TypeOK, NEW c \in Calls, NEW q \in Place, To(c, q)
  PROVE  /\ pc' \in [Calls -> Place] /\ at' \in [Calls -> Nat]
         /\ shared' \subseteq Calls /\ shared \subseteq shared'
<1>1. now \in Nat
  BY WalletAssumption DEF TypeOK, WorldOK
<1>2. QED
  BY <1>1 DEF To, TypeOK, CallsOK

LEMMA OnlyTyped ==
  ASSUME TypeOK, NEW c \in Calls, NEW q \in Place, Only(c, q)
  PROVE  CallsOK'
<1>1. pc' \in [Calls -> Place] /\ at' \in [Calls -> Nat] /\ shared' \subseteq Calls
  BY ToTyped DEF Only
<1>2. quote' \in [Calls -> Nat]
  BY DEF Only, TypeOK, CallsOK
<1>3. QED
  BY <1>1, <1>2 DEF Only, TypeOK, CallsOK

LEMMA OrderTyped ==
  ASSUME TypeOK, NEW k \in Keys, NEW o \in Order, order' = [order EXCEPT ![k] = o]
  PROVE  order' \in [Keys -> Order]
BY DEF TypeOK, WorldOK

LEMMA TypeInit == Init => TypeOK
<1> SUFFICES ASSUME Init PROVE TypeOK
  OBVIOUS
<1>1. 0 \in MasterKey /\ Home \in Currency
  BY WalletAssumption
<1>2. FileOK
  BY DEF Init, LedgerInit, FileOK
<1>3. CallsOK
  BY <1>1 DEF Init, CallsOK, Place
<1>4. [state |-> "none", total |-> 0, currency |-> Home, by |-> {}] \in Order
  BY <1>1 DEF Order
<1>5. WorldOK
  BY <1>1, <1>4, WalletAssumption DEF Init, WorldOK
<1>6. QED
  BY <1>2, <1>3, <1>5 DEF TypeOK

LEMMA TypeStep ==
  ASSUME TypeOK, Resumed, Next
  PROVE  TypeOK'
<1>1. ASSUME NEW c \in Calls, Step(c)
      PROVE  TypeOK'
  <2>1. CASE OpenWallet(c)
    <3>1. Opened(c)
      BY <2>1, OpenOpens
    <3>2. FileOK'
      <4>1. book' \in [MasterKey -> [Ids -> {Unknown} \cup Row]]
        BY <3>1, ImportsTyped DEF Opened, TypeOK, FileOK, WorldOK
      <4>2. QED
        BY <3>1, <4>1 DEF Opened, FileMoves, FileOK
    <3>3. CallsOK'
      <4>1. pc' \in [Calls -> Place] /\ at' \in [Calls -> Nat] /\ shared' \subseteq Calls
        BY <3>1, ToTyped DEF Opened, Place
      <4>2. PICK r \in {c} \cup Resumable(c) : res' = [res EXCEPT ![c] = r]
        BY <3>1 DEF Opened
      <4>3. r \in Calls
        BY DEF Resumable, TypeOK, CallsOK
      <4>4. res' \in [Calls -> Calls]
        BY <4>2, <4>3 DEF TypeOK, CallsOK
      <4>5. handle' \in [Calls -> MasterKey] /\ quote' \in [Calls -> Nat]
        BY <3>1 DEF Opened, TypeOK, CallsOK, WorldOK
      <4>6. QED
        BY <4>1, <4>4, <4>5 DEF CallsOK
    <3>4. WorldOK'
      BY <3>1 DEF Opened, TypeOK, WorldOK
    <3>5. QED
      BY <3>2, <3>3, <3>4 DEF TypeOK
  <2>2. ASSUME NEW q, MayLeave(c, q), Leaves(c, q)
        PROVE  TypeOK'
    <3>1. q \in Place
      BY <2>2 DEF MayLeave, Place, Over
    <3>2. CallsOK'
      BY <2>2, <3>1, OnlyTyped DEF Leaves
    <3>3. QED
      BY <2>2, <3>2 DEF Leaves, ledgerVars, worldVars, TypeOK, FileOK, WorldOK
  <2>3. ASSUME NEW e, NEW q, Books(c, e, q)
        PROVE  TypeOK'
    <3>1. e \in Row /\ q \in Place
      BY <2>3, BookingTyped DEF Books
    <3>2. CallsOK'
      BY <2>3, <3>1, OnlyTyped DEF Books
    <3>3. FileOK'
      <4>1. book' \in [MasterKey -> [Ids -> {Unknown} \cup Row]]
        BY <2>3, <3>1, MineTyped, TurnedTyped DEF Books
      <4>2. QED
        BY <2>3, <4>1 DEF Books, FileWritten, TypeOK, FileOK
    <3>4. WorldOK'
      <4>1. blind' \subseteq Calls
        BY <2>3, MineTyped DEF Books, TypeOK, WorldOK
      <4>2. QED
        BY <2>3, <4>1 DEF Books, TypeOK, WorldOK
    <3>5. QED
      BY <3>2, <3>3, <3>4 DEF TypeOK
  <2>4. CASE Create(c)
    <3>1. PICK t \in Total[KeyOf[res[c]]], cur \in Currency :
            LET opened == IF TheOrder(c).state = "none"
                          THEN [state |-> "open", total |-> t, currency |-> cur, by |-> {}]
                          ELSE TheOrder(c)
            IN /\ order' = [order EXCEPT ![KeyOf[res[c]]] = opened]
               /\ quote' = [quote EXCEPT ![c] = opened.total]
      BY <2>4 DEF Create
    <3> DEFINE opened == IF TheOrder(c).state = "none"
                         THEN [state |-> "open", total |-> t, currency |-> cur, by |-> {}]
                         ELSE TheOrder(c)
    <3>2. res[c] \in Calls /\ KeyOf[res[c]] \in Keys /\ TheOrder(c) \in Order
      BY MineTyped
    <3>3. t \in Nat
      BY <3>2, WalletAssumption
    <3>4. [state |-> "open", total |-> t, currency |-> cur, by |-> {}] \in Order
      BY <3>3 DEF Order
    <3>5. opened \in Order
      BY <3>2, <3>4
    <3> HIDE DEF opened
    <3>6. opened.total \in Nat
      BY <3>5, ReceiptTyped
    <3>7. /\ order' = [order EXCEPT ![KeyOf[res[c]]] = opened]
          /\ quote' = [quote EXCEPT ![c] = opened.total]
      BY <3>1 DEF opened
    <3>8. /\ To(c, IF Protocol[c] = "ucp" THEN "update" ELSE "adjust")
          /\ UNCHANGED <<header, book, ragged, joined, legacy, res, handle, vaultKey, now,
                         blind, crashes, reconciles>>
      BY <2>4 DEF Create, ledgerVars
    <3>9. (IF Protocol[c] = "ucp" THEN "update" ELSE "adjust") \in Place
      BY DEF Place
    <3>10. CallsOK'
      <4>1. pc' \in [Calls -> Place] /\ at' \in [Calls -> Nat] /\ shared' \subseteq Calls
        BY <3>8, <3>9, ToTyped
      <4>2. quote' \in [Calls -> Nat]
        BY <3>6, <3>7 DEF TypeOK, CallsOK
      <4>3. QED
        BY <3>8, <4>1, <4>2 DEF TypeOK, CallsOK
    <3>11. WorldOK'
      <4>1. order' \in [Keys -> Order]
        BY <3>2, <3>5, <3>7, OrderTyped
      <4>2. QED
        BY <3>8, <4>1 DEF TypeOK, WorldOK
    <3>12. QED
      BY <3>8, <3>10, <3>11 DEF TypeOK, FileOK
  <2>5. CASE Update(c)
    <3>1. PICK t \in Total[KeyOf[res[c]]] :
            LET updated == IF TheOrder(c).state = "open"
                           THEN [TheOrder(c) EXCEPT !.total = t]
                           ELSE TheOrder(c)
            IN /\ order' = [order EXCEPT ![KeyOf[res[c]]] = updated]
               /\ quote' = [quote EXCEPT ![c] = updated.total]
      BY <2>5 DEF Update
    <3> DEFINE updated == IF TheOrder(c).state = "open"
                          THEN [TheOrder(c) EXCEPT !.total = t]
                          ELSE TheOrder(c)
    <3>2. res[c] \in Calls /\ KeyOf[res[c]] \in Keys /\ TheOrder(c) \in Order
      BY MineTyped
    <3>3. t \in Nat
      BY <3>2, WalletAssumption
    <3>4. updated \in Order
      BY <3>2, <3>3 DEF Order
    <3> HIDE DEF updated
    <3>5. updated.total \in Nat
      BY <3>4, ReceiptTyped
    <3>6. /\ order' = [order EXCEPT ![KeyOf[res[c]]] = updated]
          /\ quote' = [quote EXCEPT ![c] = updated.total]
      BY <3>1 DEF updated
    <3>7. /\ To(c, "adjust")
          /\ UNCHANGED <<header, book, ragged, joined, legacy, res, handle, vaultKey, now,
                         blind, crashes, reconciles>>
      BY <2>5 DEF Update, ledgerVars
    <3>8. CallsOK'
      <4>1. pc' \in [Calls -> Place] /\ at' \in [Calls -> Nat] /\ shared' \subseteq Calls
        BY <3>7, ToTyped DEF Place
      <4>2. quote' \in [Calls -> Nat]
        BY <3>5, <3>6 DEF TypeOK, CallsOK
      <4>3. QED
        BY <3>7, <4>1, <4>2 DEF TypeOK, CallsOK
    <3>9. WorldOK'
      <4>1. order' \in [Keys -> Order]
        BY <3>2, <3>4, <3>6, OrderTyped
      <4>2. QED
        BY <3>7, <4>1 DEF TypeOK, WorldOK
    <3>10. QED
      BY <3>7, <3>8, <3>9 DEF TypeOK, FileOK
  <2>6. CASE Complete(c)
    <3> DEFINE charged == IF TheOrder(c).state = "charged" THEN TheOrder(c)
                          ELSE [TheOrder(c) EXCEPT !.state = "charged", !.by = {res[c]}]
    <3>1. res[c] \in Calls /\ KeyOf[res[c]] \in Keys /\ TheOrder(c) \in Order
      BY MineTyped
    <3>2. charged \in Order
      BY <3>1 DEF Order
    <3> HIDE DEF charged
    <3>3. /\ order' = [order EXCEPT ![KeyOf[res[c]]] = charged]
          /\ Only(c, "answer")
          /\ UNCHANGED <<header, book, ragged, joined, legacy, vaultKey, now, blind>>
      BY <2>6 DEF Complete, charged, ledgerVars
    <3>4. CallsOK'
      BY <3>3, OnlyTyped DEF Place
    <3>5. WorldOK'
      <4>1. order' \in [Keys -> Order]
        BY <3>1, <3>2, <3>3, OrderTyped
      <4>2. QED
        BY <3>3, <4>1 DEF TypeOK, WorldOK
    <3>6. QED
      BY <3>3, <3>4, <3>5 DEF TypeOK, FileOK
  <2>7. QED
    BY <1>1, <2>1, <2>2, <2>3, <2>4, <2>5, <2>6, StepKinds
<1>2. ASSUME NEW c \in Calls, Crash(c)
      PROVE  TypeOK'
  <2>1. Crashed(c)
    BY <1>2, CrashCrashes
  <2>2. book' \in [MasterKey -> [Ids -> {Unknown} \cup Row]]
    BY <2>1, ImportsTyped DEF Crashed, TypeOK, FileOK, WorldOK
  <2>3. QED
    BY <2>1, <2>2
       DEF Crashed, FileMoves, TypeOK, FileOK, CallsOK, WorldOK, Place, Over
<1>3. ASSUME NEW r \in Calls, Reconcile(r)
      PROVE  TypeOK'
  <2>1. PICK e : Reconciled(r, e)
    BY <1>3, ReconcileReconciles
  <2>2. /\ r \in Ids /\ vaultKey \in MasterKey /\ now \in Nat
        /\ KeyOf[r] \in Keys /\ order[KeyOf[r]] \in Order
        /\ "reconciled_release" \in Why
    BY WalletAssumption DEF TypeOK, WorldOK, Keys, Why
  <2>3. e \in Row
    <3>1. book[vaultKey][r] \in Row /\ Reconciling(r, e)
      BY <2>1 DEF Reconciled
    <3>2. CASE e = ReleasedAs(book[vaultKey][r], "reconciled_release")
      BY <2>2, <3>1, <3>2, RowOf
    <3>3. CASE e = SettledAs(book[vaultKey][r],
                             [total |-> order[KeyOf[r]].total,
                              currency |-> order[KeyOf[r]].currency], now)
      <4>1. \A receipt : \A n \in Nat :
              receipt.total \in Nat /\ receipt.currency \in Currency
                => SettledAs(book[vaultKey][r], receipt, n) \in Row
        BY <3>1, RowOf
      <4>2. QED
        BY <2>2, <3>3, <4>1, ReceiptTyped
    <3>4. QED
      BY <3>1, <3>2, <3>3 DEF Reconciling
  <2>4. book' \in [MasterKey -> [Ids -> {Unknown} \cup Row]]
    BY <2>1, <2>2, <2>3, TurnedTyped DEF Reconciled
  <2>5. QED
    BY <2>1, <2>4 DEF Reconciled, FileWritten, TypeOK, FileOK, CallsOK, WorldOK
<1>4. CASE RotatePassword
  BY <1>4, WalletAssumption
     DEF RotatePassword, ledgerVars, callVars, TypeOK, FileOK, CallsOK, WorldOK
<1>5. CASE Tick
  BY <1>5, WalletAssumption
     DEF Tick, ledgerVars, callVars, TypeOK, FileOK, CallsOK, WorldOK
<1>6. CASE Finished
  BY <1>6 DEF Finished, vars, TypeOK, FileOK, CallsOK, WorldOK
<1>7. QED
  BY <1>1, <1>2, <1>3, <1>4, <1>5, <1>6 DEF Next

-----------------------------------------------------------------------------
(* Ownership: who works on which reservation, under which key.             *)

\* A call that goes from one place to another keeps to what it owns.
LEMMA OwnershipOfMove ==
  ASSUME TypeOK, Ownership, NEW c \in Calls, NEW q \in Place,
         pc' = [pc EXCEPT ![c] = q], res' = res, handle' = handle,
         pc[c] \notin Over,
         pc[c] \notin Early => q \notin Early,
         q \in {"open", "reserve", "record"} => res[c] = c,
         q \in Working => handle[res[c]] = handle[c],
         shared \subseteq shared',
         q \in Working /\ pc[c] \notin Working /\ Joins(c) => res[c] \in shared',
         \A k \in MasterKey, r \in Calls : book'[k][r] # Unknown =>
           \/ book[k][r] # Unknown
           \/ r = c /\ k = handle[c] /\ res[c] = c /\ q \notin Early,
         header' = "absent" => header = "absent" /\ book' = book
  PROVE  Ownership'
<1>1. Owned'
  BY DEF Ownership, Owned, TypeOK, CallsOK
<1>2. Fresh'
  BY DEF Ownership, Fresh
<1>3. Resumed'
  <2>1. ASSUME NEW d \in Calls, res[d] # d
        PROVE  pc'[res[d]] = "escalated" /\ pc'[d] \notin {"open", "reserve", "record"}
    <3>1. pc[res[d]] = "escalated" /\ pc[d] \notin {"open", "reserve", "record"}
      BY <2>1 DEF Ownership, Resumed
    <3>2. res[d] # c
      BY <3>1 DEF Over
    <3>3. QED
      BY <2>1, <3>1, <3>2 DEF TypeOK, CallsOK
  <2>2. QED
    BY <2>1 DEF Resumed
<1>4. Alone'
  <2>1. ASSUME NEW d \in Calls, d # c, res[d] = res[c], pc[d] \in Working, q \in Working
        PROVE  res[c] \in shared'
    BY <2>1 DEF Ownership, Alone, Joins
  <2>2. ASSUME NEW d \in Calls, NEW f \in Calls, d # f, res[d] = res[f],
               pc'[d] \in Working, pc'[f] \in Working
        PROVE  res[d] \in shared'
    <3>1. CASE d = c \/ f = c
      BY <2>1, <2>2, <3>1 DEF TypeOK, CallsOK
    <3>2. CASE d # c /\ f # c
      BY <2>2, <3>2 DEF Ownership, Alone, TypeOK, CallsOK
    <3>3. QED
      BY <3>1, <3>2
  <2>3. QED
    BY <2>2 DEF Alone
<1>5. SameKey'
  BY DEF Ownership, SameKey, TypeOK, CallsOK
<1>6. QED
  BY <1>1, <1>2, <1>3, <1>4, <1>5 DEF Ownership

LEMMA MayLeaveStays ==
  ASSUME TypeOK, Ownership, NEW c \in Calls, NEW q, MayLeave(c, q)
  PROVE  /\ q \in Place /\ pc[c] \notin Over
         /\ pc[c] \notin Early => q \notin Early
         /\ q \in {"open", "reserve", "record"} => res[c] = c
         /\ q \in Working => handle[res[c]] = handle[c]
<1>1. q \in Place /\ pc[c] \notin Over
  BY DEF MayLeave, Place, Over
<1>2. pc[c] \notin Early => q \notin Early
  BY DEF MayLeave, Early
<1>3. q \in {"open", "reserve", "record"} => res[c] = c
  BY DEF MayLeave
<1>4. ASSUME q \in Working PROVE handle[res[c]] = handle[c]
  <2>1. CASE pc[c] \in Working
    BY <2>1 DEF Ownership, SameKey
  <2>2. CASE pc[c] \notin Working
    <3>1. Mine(c).status = "pending_escalated"
      BY <1>4, <2>2 DEF MayLeave, Working
    <3>2. Mine(c) # Unknown
      BY <3>1, UnknownIs DEF Active
    <3>3. QED
      BY <3>2, MineTyped DEF Ownership, Owned, Mine
  <2>3. QED
    BY <2>1, <2>2
<1>5. QED
  BY <1>1, <1>2, <1>3, <1>4

LEMMA BookingStays ==
  ASSUME TypeOK, Ownership, NEW c \in Calls, NEW e, NEW q, Booking(c, e, q)
  PROVE  /\ q \in Place /\ pc[c] \notin Over /\ q \notin Early
         /\ q \in Working => handle[res[c]] = handle[c]
         /\ Mine(c) = Unknown => res[c] = c
<1>1. q \in Place
  BY BookingTyped
<1>2. pc[c] \notin Over /\ q \notin Early
  BY DEF Booking, Over, Early
<1>3. Mine(c) = Unknown => pc[c] \in {"reserve", "record"}
  <2>1. Mine(c).status \in Active => Mine(c) # Unknown
    BY UnknownIs
  <2>2. QED
    BY <2>1, MineTyped DEF Booking
<1>4. pc[c] \in {"reserve", "record"} => res[c] = c
  BY DEF Ownership, Resumed
<1>5. q \in Working => pc[c] \in {"reserve"} \cup Working
  BY DEF Booking, Working
<1>6. q \in Working => handle[res[c]] = handle[c]
  BY <1>4, <1>5 DEF Ownership, SameKey
<1>7. QED
  BY <1>1, <1>2, <1>3, <1>4, <1>6

LEMMA OwnershipOfOpen ==
  ASSUME TypeOK, Ownership, NEW c \in Calls, Opened(c)
  PROVE  Ownership'
<1>1. PICK r \in {c} \cup Resumable(c) : res' = [res EXCEPT ![c] = r]
  BY DEF Opened
<1>2. /\ pc[c] = "open" /\ pc' = [pc EXCEPT ![c] = "decide"]
      /\ handle' = [handle EXCEPT ![c] = vaultKey]
  BY DEF Opened, To
<1>3. /\ r \in Calls /\ vaultKey \in MasterKey
      /\ r = c \/ (r # c /\ pc[r] = "escalated")
  BY <1>2 DEF Resumable, Ownership, Resumed, TypeOK, CallsOK, WorldOK
<1>4. \A d \in Calls : d # c => res[d] # c
  BY <1>2 DEF Ownership, Resumed
<1>5. ASSUME NEW k \in MasterKey, NEW n \in Calls, book'[k][n] # Unknown
      PROVE  book[k][n] # Unknown
  <2>1. n \in Ids /\ n \notin DOMAIN Legacy
    BY WalletAssumption
  <2>2. CASE book'[k][n] = book[k][n]
    BY <1>5, <2>2
  <2>3. CASE book[k][n].status = "pending_escalated"
    BY <2>3, UnknownIs DEF Active
  <2>4. QED
    BY <2>1, <2>2, <2>3 DEF Opened, Imports, Expires
<1>6. Owned'
  <2>1. ASSUME NEW k \in MasterKey, NEW n \in Calls, book'[k][n] # Unknown
        PROVE  handle'[n] = k /\ pc'[n] \notin Early /\ res'[n] = n
    <3>1. handle[n] = k /\ pc[n] \notin Early /\ res[n] = n
      BY <1>5, <2>1 DEF Ownership, Owned
    <3>2. n # c
      BY <1>2, <3>1 DEF Early
    <3>3. QED
      BY <1>1, <1>2, <3>1, <3>2 DEF TypeOK, CallsOK
  <2>2. QED
    BY <2>1 DEF Owned
<1>7. Fresh'
  BY DEF Opened, FileMoves, Ownership, Fresh
<1>8. Resumed'
  <2>1. ASSUME NEW d \in Calls, res'[d] # d
        PROVE  pc'[res'[d]] = "escalated" /\ pc'[d] \notin {"open", "reserve", "record"}
    <3>1. CASE d = c
      <4>1. r \in Calls \ {c} /\ pc[r] = "escalated"
        BY <1>1, <1>3, <2>1, <3>1 DEF TypeOK, CallsOK
      <4>2. QED
        BY <1>1, <1>2, <3>1, <4>1 DEF TypeOK, CallsOK
    <3>2. CASE d # c
      <4>1. res'[d] = res[d] /\ res[d] # c /\ pc'[d] = pc[d]
        BY <1>1, <1>2, <1>4, <3>2 DEF TypeOK, CallsOK
      <4>2. pc[res[d]] = "escalated" /\ pc[d] \notin {"open", "reserve", "record"}
        BY <2>1, <4>1 DEF Ownership, Resumed
      <4>3. QED
        BY <1>2, <4>1, <4>2 DEF TypeOK, CallsOK
    <3>3. QED
      BY <3>1, <3>2
  <2>2. QED
    BY <2>1 DEF Resumed
<1>9. Alone'
  <2>1. pc'[c] \notin Working /\ shared' = shared
    BY <1>2 DEF Opened, To, Working, TypeOK, CallsOK
  <2>2. \A d \in Calls : d # c => pc'[d] = pc[d] /\ res'[d] = res[d]
    BY <1>1, <1>2 DEF TypeOK, CallsOK
  <2>3. QED
    BY <2>1, <2>2 DEF Ownership, Alone
<1>10. SameKey'
  <2>1. ASSUME NEW d \in Calls, pc'[d] \in Working
        PROVE  handle'[res'[d]] = handle'[d]
    <3>1. d # c
      BY <1>2, <2>1 DEF Working, TypeOK, CallsOK
    <3>2. res'[d] = res[d] /\ res[d] # c /\ res[d] \in Calls /\ pc[d] \in Working
      BY <1>1, <1>2, <1>4, <2>1, <3>1 DEF TypeOK, CallsOK
    <3>3. QED
      BY <1>2, <3>1, <3>2 DEF Ownership, SameKey, TypeOK, CallsOK
  <2>2. QED
    BY <2>1 DEF SameKey
<1>11. QED
  BY <1>6, <1>7, <1>8, <1>9, <1>10 DEF Ownership

LEMMA OwnershipStep ==
  ASSUME TypeOK, Ownership, Next
  PROVE  Ownership'
<1>1. ASSUME NEW c \in Calls, Step(c)
      PROVE  Ownership'
  <2>1. CASE OpenWallet(c)
    BY <2>1, OpenOpens, OwnershipOfOpen
  <2>2. ASSUME NEW q, MayLeave(c, q), Leaves(c, q)
        PROVE  Ownership'
    <3>1. /\ pc' = [pc EXCEPT ![c] = q] /\ res' = res /\ handle' = handle
          /\ book' = book /\ header' = header
      BY <2>2 DEF Leaves, Only, To, ledgerVars
    <3>2. /\ shared \subseteq shared'
          /\ q = "create" /\ Joins(c) => res[c] \in shared'
      BY <2>2 DEF Leaves, Only, To
    <3>3. q \in Working /\ pc[c] \notin Working => q = "create"
      BY <2>2 DEF MayLeave, Working
    <3>4. QED
      BY <2>2, <3>1, <3>2, <3>3, MayLeaveStays, OwnershipOfMove
  <2>3. ASSUME NEW e, NEW q, Books(c, e, q)
        PROVE  Ownership'
    <3>1. /\ pc' = [pc EXCEPT ![c] = q] /\ res' = res /\ handle' = handle
          /\ header' = "written" /\ Booking(c, e, q)
      BY <2>3 DEF Books, FileWritten, Only, To
    <3>2. /\ q \in Place /\ pc[c] \notin Over /\ q \notin Early
          /\ q \in Working => handle[res[c]] = handle[c]
          /\ Mine(c) = Unknown => res[c] = c
      BY <3>1, BookingStays
    <3>3. ASSUME NEW k \in MasterKey, NEW r \in Calls, book'[k][r] # Unknown
          PROVE  \/ book[k][r] # Unknown
                 \/ r = c /\ k = handle[c] /\ res[c] = c /\ q \notin Early
      <4>1. r \in Ids
        BY WalletAssumption
      <4>2. CASE k = handle[c] /\ r = res[c]
        BY <3>2, <4>2 DEF Mine
      <4>3. CASE k # handle[c] \/ r # res[c]
        BY <2>3, <3>3, <4>1, <4>3 DEF Books, Turned
      <4>4. QED
        BY <4>2, <4>3
    <3>4. q \in {"open", "reserve", "record"} => res[c] = c
      BY <3>2 DEF Early
    <3>5. /\ shared \subseteq shared'
          /\ q = "create" /\ Joins(c) => res[c] \in shared'
      BY <2>3 DEF Books, Only, To
    <3>6. q \in Working /\ pc[c] \notin Working => q = "create"
      BY <3>1 DEF Booking, Working
    <3>7. QED
      BY <3>1, <3>2, <3>3, <3>4, <3>5, <3>6, OwnershipOfMove
  <2>4. CASE Create(c) \/ Update(c) \/ Complete(c)
    <3>1. PICK q \in {"update", "adjust", "answer"} : pc' = [pc EXCEPT ![c] = q]
      BY <2>4 DEF Create, Update, Complete, To, Only
    <3>2. /\ res' = res /\ handle' = handle /\ book' = book /\ header' = header
          /\ pc[c] \in {"create", "update", "complete"}
      BY <2>4 DEF Create, Update, Complete, Only, ledgerVars
    <3>3. /\ q \in Place /\ pc[c] \notin Over /\ q \notin Early /\ pc[c] \in Working
          /\ q \notin {"open", "reserve", "record"}
      BY <3>2 DEF Place, Over, Early, Working
    <3>4. handle[res[c]] = handle[c]
      BY <3>3 DEF Ownership, SameKey
    <3>5. shared \subseteq shared'
      BY <2>4 DEF Create, Update, Complete, Only, To
    <3>6. QED
      BY <3>1, <3>2, <3>3, <3>4, <3>5, OwnershipOfMove
  <2>5. QED
    BY <1>1, <2>1, <2>2, <2>3, <2>4, StepKinds DEF Ownership
<1>2. ASSUME NEW c \in Calls, Crash(c)
      PROVE  Ownership'
  <2>1. Crashed(c)
    BY <1>2, CrashCrashes
  <2>2. /\ "crashed" \in Place /\ "crashed" \notin Early /\ "crashed" \notin Working
        /\ "crashed" \notin {"open", "reserve", "record"}
    BY DEF Place, Over, Early, Working
  <2>3. \A k \in MasterKey, r \in Calls : book'[k][r] = book[k][r]
    BY <2>1, WalletAssumption DEF Crashed, Imports
  <2>4. /\ pc' = [pc EXCEPT ![c] = "crashed"] /\ res' = res /\ handle' = handle
        /\ pc[c] \notin Over
        /\ header' = "absent" => header = "absent" /\ book' = book
        /\ shared' = shared
    BY <2>1 DEF Crashed, FileMoves
  <2>5. QED
    BY <2>2, <2>3, <2>4, OwnershipOfMove
<1>3. ASSUME NEW r \in Calls, Reconcile(r)
      PROVE  Ownership'
  <2>1. PICK e : Reconciled(r, e)
    BY <1>3, ReconcileReconciles
  <2>2. /\ header' = "written" /\ UNCHANGED <<pc, res, handle, shared>>
        /\ book[vaultKey][r] # Unknown
    BY <2>1, Rows DEF Reconciled, FileWritten
  <2>3. ASSUME NEW k \in MasterKey, NEW n \in Calls
        PROVE  book'[k][n] # Unknown => book[k][n] # Unknown
    <3>1. n \in Ids
      BY WalletAssumption
    <3>2. CASE k = vaultKey /\ n = r
      BY <2>2, <3>2
    <3>3. CASE k # vaultKey \/ n # r
      BY <2>1, <3>1, <3>3 DEF Reconciled, Turned
    <3>4. QED
      BY <3>2, <3>3
  <2>4. Owned'
    BY <2>2, <2>3 DEF Ownership, Owned
  <2>5. QED
    BY <2>2, <2>4 DEF Ownership, Fresh, Resumed, Alone, SameKey
<1>4. CASE RotatePassword \/ Tick \/ Finished
  <2>1. UNCHANGED <<pc, res, handle, shared, book, header>>
    BY <1>4 DEF RotatePassword, Tick, Finished, ledgerVars, callVars, vars
  <2>2. QED
    BY <2>1 DEF Ownership, Owned, Fresh, Resumed, Alone, SameKey
<1>5. QED
  BY <1>1, <1>2, <1>3, <1>4 DEF Next

LEMMA OwnershipInit ==
  ASSUME Init
  PROVE  Ownership
<1>1. \A c \in Calls : pc[c] = "open" /\ res[c] = c
  BY DEF Init
<1>2. \A k \in MasterKey, i \in Ids : book[k][i] = Unknown
  BY DEF Init, LedgerInit
<1>3. QED
  BY <1>1, <1>2, WalletAssumption
     DEF Ownership, Owned, Fresh, Resumed, Alone, SameKey, Working

-----------------------------------------------------------------------------
(* Charging: what the merchant's order says and what the reservation says. *)

Gone == {"resume_expired", "reconciled_release"}

\* Nothing but the clock, or an operator, takes a reservation from a call.
Fair(k, r) ==
  \/ book'[k][r] = book[k][r]
  \/ /\ book[k][r] # Unknown
     /\ \E why \in Gone : book'[k][r] = ReleasedAs(book[k][r], why)

LEMMA ReleasedIs ==
  ASSUME NEW e \in Row, NEW why
  PROVE  /\ ReleasedAs(e, why).status = "released" /\ ReleasedAs(e, why).why = why
         /\ ReleasedAs(e, why).currency = e.currency
         /\ ReleasedAs(e, why).amount = e.amount
         /\ ReleasedAs(e, why).shadow = e.shadow
         /\ ReleasedAs(e, why).settled = e.settled
         /\ ReleasedAs(e, why) # Unknown
BY DEF ReleasedAs, Row, Unknown

LEMMA SettledIs ==
  ASSUME NEW e \in Row, NEW receipt, NEW time
  PROVE  /\ SettledAs(e, receipt, time).status = "captured"
         /\ SettledAs(e, receipt, time).amount = receipt.total
         /\ SettledAs(e, receipt, time).currency = receipt.currency
         /\ SettledAs(e, receipt, time).shadow = e.shadow
         /\ SettledAs(e, receipt, time).settled = time
         /\ SettledAs(e, receipt, time) # Unknown
BY DEF SettledAs, Row, Unknown

\* A call that does not change may count on what it counted on.
LEMMA FairBacked ==
  ASSUME TypeOK, Charging, NEW d \in Calls, pc[d] \in {"token", "complete"},
         res[d] \notin shared,
         pc'[d] = pc[d], res'[d] = res[d], handle'[d] = handle[d], quote'[d] = quote[d],
         Fair(handle[d], res[d]),
         TheOrder(d).currency = order'[KeyOf[res[d]]].currency,
         TheOrder(d).state = "charged" => order'[KeyOf[res[d]]].state = "charged"
  PROVE  LET mine == book'[handle'[d]][res'[d]]
         IN /\ mine # Unknown
            /\ mine.currency = order'[KeyOf[res[d]]].currency
            /\ mine.status \in Active => mine.amount >= quote'[d]
            /\ mine.status = "captured" => order'[KeyOf[res[d]]].state = "charged"
            /\ mine.status = "released" => mine.why \in Gone
<1>1. /\ Mine(d) # Unknown
      /\ Mine(d).currency = TheOrder(d).currency
      /\ Mine(d).status \in Active => Mine(d).amount >= quote[d]
      /\ Mine(d).status = "captured" => TheOrder(d).state = "charged"
      /\ Mine(d).status = "released" => Mine(d).why \in Gone
  BY DEF Charging, Backed, Gone
<1>2. Mine(d) \in Row
  BY <1>1, MineTyped
<1>3. CASE book'[handle[d]][res[d]] = Mine(d)
  BY <1>1, <1>3
<1>4. ASSUME NEW why \in Gone, book'[handle[d]][res[d]] = ReleasedAs(Mine(d), why)
      PROVE  LET mine == book'[handle'[d]][res'[d]]
             IN /\ mine # Unknown
                /\ mine.currency = order'[KeyOf[res[d]]].currency
                /\ mine.status \in Active => mine.amount >= quote'[d]
                /\ mine.status = "captured" => order'[KeyOf[res[d]]].state = "charged"
                /\ mine.status = "released" => mine.why \in Gone
  BY <1>1, <1>2, <1>4, ReleasedIs DEF Active
<1>5. QED
  BY <1>3, <1>4 DEF Fair, Mine

LEMMA FairCovered ==
  ASSUME TypeOK, Charging, NEW p \in Calls, p \in order[KeyOf[p]].by \ shared,
         handle'[p] = handle[p], Fair(handle[p], p), blind \subseteq blind',
         order'[KeyOf[p]] = order[KeyOf[p]]
  PROVE  LET made == book'[handle'[p]][p]
         IN /\ made # Unknown
            /\ made.currency = order'[KeyOf[p]].currency
            /\ made.status \in Active \cup {"captured"}
                 => made.amount >= order'[KeyOf[p]].total
            /\ made.status = "released" =>
                 p \in blind' \/ made.why \in Gone \cup {"cap_exceeded"}
<1>1. /\ Made(p) # Unknown
      /\ Made(p).currency = order[KeyOf[p]].currency
      /\ Made(p).status \in Active \cup {"captured"} => Made(p).amount >= order[KeyOf[p]].total
      /\ Made(p).status = "released" => p \in blind \/ Made(p).why \in Gone \cup {"cap_exceeded"}
  BY DEF Charging, Covered, Live, Gone
<1>2. Made(p) \in Row
  BY <1>1, WalletAssumption DEF TypeOK, FileOK, CallsOK, Made
<1>3. CASE book'[handle[p]][p] = Made(p)
  BY <1>1, <1>3
<1>4. ASSUME NEW why \in Gone, book'[handle[p]][p] = ReleasedAs(Made(p), why)
      PROVE  LET made == book'[handle'[p]][p]
             IN /\ made # Unknown
                /\ made.currency = order'[KeyOf[p]].currency
                /\ made.status \in Active \cup {"captured"}
                     => made.amount >= order'[KeyOf[p]].total
                /\ made.status = "released" =>
                     p \in blind' \/ made.why \in Gone \cup {"cap_exceeded"}
  BY <1>1, <1>2, <1>4, ReleasedIs DEF Active
<1>5. QED
  BY <1>3, <1>4 DEF Fair, Made

LEMMA FairShadowed ==
  ASSUME TypeOK, Charging, NEW k \in MasterKey, NEW r \in Calls, Fair(k, r),
         order[KeyOf[r]].state = "charged" => order'[KeyOf[r]].state = "charged"
  PROVE  book'[k][r] # Unknown /\ book'[k][r].shadow => order'[KeyOf[r]].state = "charged"
<1>1. book[k][r] # Unknown /\ book[k][r].shadow => order[KeyOf[r]].state = "charged"
  BY DEF Charging, Shadowed
<1>2. book[k][r] # Unknown => book[k][r] \in Row
  BY WalletAssumption DEF TypeOK, FileOK
<1>3. QED
  BY <1>1, <1>2, ReleasedIs DEF Fair

\* The order is as it was, and every reservation fared well: only the call that
\* moved is left to look at.
LEMMA ChargingOfFair ==
  ASSUME TypeOK, Charging, NEW c \in Calls, order' = order, blind \subseteq blind',
         shared \subseteq shared',
         \A k \in MasterKey, r \in Calls : Fair(k, r),
         \A d \in Calls : d # c => /\ pc'[d] = pc[d] /\ res'[d] = res[d]
                                   /\ handle'[d] = handle[d] /\ quote'[d] = quote[d],
         Made(c) # Unknown => handle'[c] = handle[c],
         \/ pc'[c] \in Early \cup (Over \ {"unpersisted"}) \cup {"create", "release"}
         \/ /\ res'[c] = res[c] /\ handle'[c] = handle[c]
            /\ pc[c] \in Working
            /\ \/ pc[c] = "token" /\ pc'[c] = "complete" /\ quote'[c] = quote[c]
               \/ pc[c] = "complete" /\ pc'[c] = "escalate" /\ TheOrder(c).state # "none"
               \/ pc[c] = "answer" /\ pc'[c] = "settle"
               \/ pc[c] = "settle" /\ pc'[c] = "shadow"
               \/ pc[c] = "shadow" /\ pc'[c] = "unpersisted"
  PROVE  Charging'
<1>1. \A d \in Calls : res[d] \in Calls /\ handle[d] \in MasterKey
  BY DEF TypeOK, CallsOK
<1>2. Asked'
  <2>1. ASSUME NEW d \in Calls
        PROVE  /\ pc'[d] \in Working \ {"create", "release"} =>
                    order'[KeyOf[res'[d]]].state # "none"
               /\ pc'[d] \in {"answer", "settle", "shadow", "unpersisted"} =>
                    order'[KeyOf[res'[d]]].state = "charged"
    <3>1. /\ pc[d] \in Working \ {"create", "release"} => order[KeyOf[res[d]]].state # "none"
          /\ pc[d] \in {"answer", "settle", "shadow", "unpersisted"} =>
               order[KeyOf[res[d]]].state = "charged"
      BY DEF Charging, Asked, TheOrder
    <3>2. CASE d # c
      BY <3>1, <3>2
    <3>3. CASE d = c
      BY <3>1, <3>3 DEF Working, Early, Over, TheOrder
    <3>4. QED
      BY <3>2, <3>3
  <2>2. QED
    BY <2>1 DEF Asked, TheOrder
<1>3. Shadowed'
  BY FairShadowed DEF Shadowed
<1>4. Payers'
  BY DEF Charging, Payers
<1>5. Backed'
  <2>1. ASSUME NEW d \in Calls, pc'[d] \in {"token", "complete"}, res'[d] \notin shared'
        PROVE  LET mine == book'[handle'[d]][res'[d]]
               IN /\ mine # Unknown
                  /\ mine.currency = order'[KeyOf[res'[d]]].currency
                  /\ mine.status \in Active => mine.amount >= quote'[d]
                  /\ mine.status = "captured" => order'[KeyOf[res'[d]]].state = "charged"
                  /\ mine.status = "released" => mine.why \in Gone
    <3>1. CASE d # c
      BY <1>1, <2>1, <3>1, FairBacked DEF TheOrder
    <3>2. CASE d = c
      <4>1. /\ pc[c] = "token" /\ quote'[c] = quote[c]
            /\ res'[c] = res[c] /\ handle'[c] = handle[c]
        BY <2>1, <3>2 DEF Early, Over
      <4>2. /\ Mine(c) # Unknown
            /\ Mine(c).currency = TheOrder(c).currency
            /\ Mine(c).status \in Active => Mine(c).amount >= quote[c]
            /\ Mine(c).status = "captured" => TheOrder(c).state = "charged"
            /\ Mine(c).status = "released" => Mine(c).why \in Gone
        BY <2>1, <3>2, <4>1 DEF Charging, Backed, Gone
      <4>3. Fair(handle[c], res[c]) /\ (Mine(c) # Unknown => Mine(c) \in Row)
        BY <1>1, MineTyped
      <4>4. CASE book'[handle[c]][res[c]] = Mine(c)
        BY <3>2, <4>1, <4>2, <4>4 DEF TheOrder
      <4>5. ASSUME NEW why \in Gone, book'[handle[c]][res[c]] = ReleasedAs(Mine(c), why)
            PROVE  LET mine == book'[handle'[d]][res'[d]]
                   IN /\ mine # Unknown
                      /\ mine.currency = order'[KeyOf[res'[d]]].currency
                      /\ mine.status \in Active => mine.amount >= quote'[d]
                      /\ mine.status = "captured" => order'[KeyOf[res'[d]]].state = "charged"
                      /\ mine.status = "released" => mine.why \in Gone
        BY <3>2, <4>1, <4>2, <4>3, <4>5, ReleasedIs DEF Active, TheOrder
      <4>6. QED
        BY <4>3, <4>4, <4>5 DEF Fair, Mine
    <3>3. QED
      BY <3>1, <3>2
  <2>2. QED
    BY <2>1 DEF Backed, Gone, Mine, TheOrder
<1>6. Told'
  <2>1. ASSUME NEW d \in Calls, pc'[d] \in {"update", "adjust", "token", "complete"},
               res'[d] \in order'[KeyOf[res'[d]]].by \ shared'
        PROVE  quote'[d] = order'[KeyOf[res'[d]]].total
    <3>1. pc[d] \in {"update", "adjust", "token", "complete"}
          /\ res'[d] = res[d] /\ quote'[d] = quote[d]
      BY <2>1 DEF Early, Over
    <3>2. QED
      BY <2>1, <3>1 DEF Charging, Told, TheOrder
  <2>2. QED
    BY <2>1 DEF Told, TheOrder
<1>7. Covered'
  <2>1. ASSUME NEW p \in Calls, p \in order'[KeyOf[p]].by \ shared'
        PROVE  LET made == book'[handle'[p]][p]
               IN /\ made # Unknown
                  /\ made.currency = order'[KeyOf[p]].currency
                  /\ made.status \in Active \cup {"captured"}
                       => made.amount >= order'[KeyOf[p]].total
                  /\ made.status = "released" =>
                       p \in blind' \/ made.why \in Gone \cup {"cap_exceeded"}
    <3>1. Made(p) # Unknown
      BY <2>1 DEF Charging, Covered
    <3>2. handle'[p] = handle[p] /\ Fair(handle[p], p)
      BY <1>1, <3>1
    <3>3. QED
      BY <2>1, <3>2, FairCovered
  <2>2. QED
    BY <2>1 DEF Covered, Made, Live, Gone
<1>8. QED
  BY <1>2, <1>3, <1>4, <1>5, <1>6, <1>7 DEF Charging

\* What is booked for a reservation whose token was charged covers the charge,
\* or takes it out in a known way.
LEMMA BookingCovers ==
  ASSUME TypeOK, Ownership, Charging, NEW c \in Calls, NEW e, NEW q, Booking(c, e, q),
         res[c] \in TheOrder(c).by \ shared, handle[res[c]] = handle[c],
         pc[c] = "release" /\ TheOrder(c).state = "charged" => res[c] \in blind'
  PROVE  /\ e # Unknown
         /\ e.currency = TheOrder(c).currency
         /\ e.status \in Active \cup {"captured"} => e.amount >= TheOrder(c).total
         /\ e.status = "released" => res[c] \in blind' \/ e.why \in Gone \cup {"cap_exceeded"}
<1>1. /\ res[c] \in Calls /\ KeyOf[res[c]] \in Keys /\ TheOrder(c) \in Order
  BY MineTyped
<1>2. /\ Mine(c) # Unknown
      /\ Mine(c).currency = TheOrder(c).currency
      /\ Mine(c).status \in Active \cup {"captured"} => Mine(c).amount >= TheOrder(c).total
  BY <1>1 DEF Charging, Covered, Live, Made, Mine, TheOrder
<1>3. Mine(c) \in Row /\ Mine(c).amount \in Nat /\ TheOrder(c).total \in Nat
  BY <1>1, <1>2, MineTyped, ReceiptTyped DEF Row
<1>4. TheOrder(c).state = "charged"
  BY <1>1 DEF Charging, Payers, TheOrder
<1>5. pc[c] = "adjust" => quote[c] = TheOrder(c).total
  BY DEF Charging, Told
<1>6. pc[c] \notin {"reserve", "record"}
  <2>1. pc[res[c]] \notin Early
    BY <1>1, <1>2, MineTyped DEF Ownership, Owned, Mine
  <2>2. pc[c] \in {"reserve", "record"} => res[c] = c
    BY DEF Ownership, Resumed
  <2>3. QED
    BY <2>1, <2>2 DEF Early
<1>7. \A why : e = ReleasedAs(Mine(c), why) =>
              /\ e # Unknown /\ e.currency = TheOrder(c).currency
              /\ e.status = "released" /\ e.why = why
              /\ e.status \notin Active \cup {"captured"}
  BY <1>2, <1>3, ReleasedIs DEF Active
<1>8. CASE pc[c] = "reattach"
  BY <1>7, <1>8 DEF Booking, Gone
<1>9. CASE pc[c] = "adjust" /\ q = "failed"
  <2>1. Mine(c).amount >= TheOrder(c).total
    BY <1>2, <1>9, MineTyped DEF Booking
  <2>2. e = ReleasedAs(Mine(c), "cap_exceeded")
    BY <1>2, <1>3, <1>5, <1>9, <2>1 DEF Booking
  <2>3. QED
    BY <1>7, <2>2
<1>10. CASE pc[c] = "adjust" /\ q = "token"
  <2>1. e = [Mine(c) EXCEPT !.amount = quote[c]]
    BY <1>10 DEF Booking
  <2>2. /\ e # Unknown /\ e.amount = TheOrder(c).total
        /\ e.currency = TheOrder(c).currency /\ e.status = Mine(c).status
    BY <1>2, <1>3, <1>5, <1>10, <2>1 DEF Row, Unknown
  <2>3. Mine(c).status \in Active
    BY <1>10, MineTyped DEF Booking
  <2>4. QED
    BY <1>3, <2>2, <2>3 DEF Active
<1>11. CASE pc[c] = "release"
  BY <1>4, <1>7, <1>11 DEF Booking
<1>12. CASE pc[c] = "escalate"
  <2>1. /\ e # Unknown /\ e.amount = Mine(c).amount
        /\ e.currency = TheOrder(c).currency /\ e.status = "pending_escalated"
    BY <1>2, <1>3, <1>12 DEF Booking, Row, Unknown
  <2>2. Mine(c).status \in Active
    BY <1>12 DEF Booking, Active
  <2>3. QED
    BY <1>2, <2>1, <2>2
<1>13. CASE pc[c] = "settle"
  <2>1. e = SettledAs(Mine(c), Receipt(c), at[c])
    BY <1>13 DEF Booking
  <2>2. Receipt(c).total = TheOrder(c).total /\ Receipt(c).currency = TheOrder(c).currency
    BY DEF Receipt
  <2>3. QED
    BY <1>3, <2>1, <2>2, SettledIs
<1>14. CASE pc[c] = "shadow"
  <2>1. /\ e # Unknown /\ e.amount = Mine(c).amount
        /\ e.currency = TheOrder(c).currency /\ e.status = Mine(c).status
    BY <1>2, <1>3, <1>14 DEF Booking, Row, Unknown
  <2>2. Mine(c).status \in Active
    BY <1>14, MineTyped DEF Booking
  <2>3. QED
    BY <1>2, <2>1, <2>2 DEF Active
<1>15. QED
  BY <1>6, <1>8, <1>9, <1>10, <1>11, <1>12, <1>13, <1>14 DEF Booking

\* A token is made for what the reservation was lowered to.
LEMMA BookingBacks ==
  ASSUME TypeOK, NEW c \in Calls, NEW e, Booking(c, e, "token"),
         NEW mine \in {e, Mine(c)}
  PROVE  /\ mine # Unknown /\ mine.currency = TheOrder(c).currency
         /\ mine.status \in Active /\ mine.amount >= quote[c]
<1>1. /\ Holds(c) /\ TheOrder(c).currency = Mine(c).currency
      /\ quote[c] <= Mine(c).amount /\ e = [Mine(c) EXCEPT !.amount = quote[c]]
  BY DEF Booking
<1>2. Mine(c) \in Row /\ Mine(c).status \in Active
  BY <1>1, MineTyped
<1>3. quote[c] \in Nat /\ Mine(c).amount \in Nat /\ Mine(c) # Unknown
  BY <1>2, Rows DEF TypeOK, CallsOK, Row
<1>4. e # Unknown /\ e.currency = Mine(c).currency /\ e.status = Mine(c).status
      /\ e.amount = quote[c]
  BY <1>1, <1>2 DEF Row, Unknown
<1>5. CASE mine = e
  BY <1>1, <1>2, <1>3, <1>4, <1>5
<1>6. CASE mine = Mine(c)
  BY <1>1, <1>2, <1>3, <1>6
<1>7. QED
  BY <1>5, <1>6

\* Only what is written as a shadow copy is one.
LEMMA BookingShadows ==
  ASSUME TypeOK, NEW c \in Calls, NEW e, NEW q, Booking(c, e, q), e.shadow
  PROVE  pc[c] = "shadow" \/ (Mine(c) # Unknown /\ Mine(c).shadow)
<1>1. CASE pc[c] \in {"reserve", "record"}
  BY <1>1 DEF Booking, Opening
<1>2. CASE pc[c] \notin {"reserve", "record", "shadow"}
  <2>1. Mine(c) \in Row
    BY <1>2, MineTyped DEF Booking
  <2>2. e.shadow = Mine(c).shadow
    <3>1. \/ \E why : e = ReleasedAs(Mine(c), why)
          \/ e = [Mine(c) EXCEPT !.amount = quote[c]]
          \/ e = [Mine(c) EXCEPT !.status = "pending_escalated", !.expires = at[c] + 1]
          \/ e = Mine(c)
          \/ e = SettledAs(Mine(c), Receipt(c), at[c])
      BY <1>2 DEF Booking
    <3>2. \A r \in Row : \A why, receipt, time :
            /\ ReleasedAs(r, why).shadow = r.shadow
            /\ SettledAs(r, receipt, time).shadow = r.shadow
      BY DEF Row, ReleasedAs, SettledAs
    <3>3. /\ \A why : ReleasedAs(Mine(c), why).shadow = Mine(c).shadow
          /\ SettledAs(Mine(c), Receipt(c), at[c]).shadow = Mine(c).shadow
      BY <2>1, <3>2, Zenon
    <3>4. QED
      BY <2>1, <3>1, <3>2, <3>3 DEF Row
  <2>3. QED
    BY <2>1, <2>2, Rows
<1>3. QED
  BY <1>1, <1>2

LEMMA ChargingOfBooks ==
  ASSUME TypeOK, Ownership, Charging, NEW c \in Calls, NEW e, NEW q, Books(c, e, q)
  PROVE  Charging'
<1>1. /\ pc' = [pc EXCEPT ![c] = q] /\ res' = res /\ handle' = handle /\ order' = order
      /\ quote' = [quote EXCEPT ![c] = IF q \in {"token", "complete"} THEN @ ELSE 0]
      /\ Booking(c, e, q)
      /\ blind' = IF pc[c] = "release" /\ TheOrder(c).state = "charged"
                  THEN blind \cup {res[c]} ELSE blind
      /\ shared \subseteq shared'
  BY DEF Books, Only, To
<1>2. \A d \in Calls : res[d] \in Calls /\ handle[d] \in MasterKey /\ d \in Ids
                     /\ KeyOf[d] \in Keys
  BY WalletAssumption DEF TypeOK, CallsOK, Keys
<1>3. /\ book'[handle[c]][res[c]] \in {e, Mine(c)}
      /\ \A k \in MasterKey, n \in Ids :
           k # handle[c] \/ n # res[c] => book'[k][n] = book[k][n]
  BY DEF Books, Turned
<1>4. pc[c] \notin Over
  BY <1>1, BookingStays
<1>5. \A d \in Calls : d # c => pc'[d] = pc[d] /\ quote'[d] = quote[d]
  BY <1>1 DEF TypeOK, CallsOK
<1>6. pc'[c] = q /\ (q = "token" => quote'[c] = quote[c])
  BY <1>1 DEF TypeOK, CallsOK
<1>7. Asked'
  <2>1. ASSUME NEW d \in Calls
        PROVE  /\ pc'[d] \in Working \ {"create", "release"} =>
                    order[KeyOf[res[d]]].state # "none"
               /\ pc'[d] \in {"answer", "settle", "shadow", "unpersisted"} =>
                    order[KeyOf[res[d]]].state = "charged"
    <3>1. /\ pc[d] \in Working \ {"create", "release"} => order[KeyOf[res[d]]].state # "none"
          /\ pc[d] \in {"answer", "settle", "shadow", "unpersisted"} =>
               order[KeyOf[res[d]]].state = "charged"
      BY DEF Charging, Asked, TheOrder
    <3>2. CASE d # c
      BY <1>5, <3>1, <3>2
    <3>3. CASE d = c
      BY <1>1, <1>6, <3>1, <3>3 DEF Booking, Working
    <3>4. QED
      BY <3>2, <3>3
  <2>2. QED
    BY <1>1, <2>1 DEF Asked, TheOrder
<1>8. Shadowed'
  <2>1. ASSUME NEW k \in MasterKey, NEW r \in Calls, book'[k][r] # Unknown, book'[k][r].shadow
        PROVE  order[KeyOf[r]].state = "charged"
    <3>1. book[k][r] # Unknown /\ book[k][r].shadow => order[KeyOf[r]].state = "charged"
      BY DEF Charging, Shadowed
    <3>2. CASE k # handle[c] \/ r # res[c]
      BY <1>2, <1>3, <2>1, <3>1, <3>2
    <3>3. CASE k = handle[c] /\ r = res[c] /\ book'[k][r] = Mine(c)
      BY <2>1, <3>1, <3>3 DEF Mine
    <3>4. CASE k = handle[c] /\ r = res[c] /\ book'[k][r] = e
      <4>1. pc[c] = "shadow" \/ (Mine(c) # Unknown /\ Mine(c).shadow)
        BY <1>1, <2>1, <3>4, BookingShadows
      <4>2. pc[c] = "shadow" => TheOrder(c).state = "charged"
        BY DEF Charging, Asked
      <4>3. QED
        BY <3>1, <3>4, <4>1, <4>2 DEF Mine, TheOrder
    <3>5. QED
      BY <1>3, <3>2, <3>3, <3>4
  <2>2. QED
    BY <1>1, <2>1 DEF Shadowed
<1>9. Payers'
  BY <1>1 DEF Charging, Payers
<1>10. Backed'
  <2>1. ASSUME NEW d \in Calls, pc'[d] \in {"token", "complete"}, res[d] \notin shared'
        PROVE  LET mine == book'[handle[d]][res[d]]
               IN /\ mine # Unknown
                  /\ mine.currency = order[KeyOf[res[d]]].currency
                  /\ mine.status \in Active => mine.amount >= quote'[d]
                  /\ mine.status = "captured" => order[KeyOf[res[d]]].state = "charged"
                  /\ mine.status = "released" => mine.why \in Gone
    <3>1. CASE d # c
      <4>1. pc[d] \in {"token", "complete"} /\ pc[d] \in Working /\ res[d] \notin shared
        BY <1>1, <1>5, <2>1, <3>1 DEF Working
      <4>2. ASSUME res[d] = res[c]
            PROVE  Mine(c) # Unknown /\ e = ReleasedAs(Mine(c), "resume_expired")
        <5>1. pc[c] \notin Working
          BY <3>1, <4>1, <4>2 DEF Ownership, Alone
        <5>2. pc[c] \notin {"reserve", "record"}
          BY <3>1, <4>1, <4>2 DEF Ownership, Resumed
        <5>3. QED
          BY <1>1, <5>1, <5>2, UnknownIs DEF Booking, Working, Active
      <4>3. Fair(handle[d], res[d])
        BY <1>2, <1>3, <4>2 DEF Fair, Gone, Mine
      <4>4. QED
        BY <1>1, <1>5, <3>1, <4>1, <4>3, FairBacked DEF TheOrder
    <3>2. CASE d = c
      <4>1. q = "token" /\ quote'[c] = quote[c]
        BY <1>1, <1>6, <2>1, <3>2 DEF Booking
      <4>2. Booking(c, e, "token")
        BY <1>1, <4>1
      <4>3. \A mine \in {e, Mine(c)} :
              /\ mine # Unknown /\ mine.currency = TheOrder(c).currency
              /\ mine.status \in Active /\ mine.amount >= quote[c]
        BY <4>2, BookingBacks
      <4>4. QED
        BY <1>3, <3>2, <4>1, <4>3 DEF Active, TheOrder
    <3>3. QED
      BY <3>1, <3>2
  <2>2. QED
    BY <1>1, <2>1 DEF Backed, Gone, Mine, TheOrder
<1>11. Told'
  <2>1. ASSUME NEW d \in Calls, pc'[d] \in {"update", "adjust", "token", "complete"},
               res[d] \in order[KeyOf[res[d]]].by \ shared'
        PROVE  quote'[d] = order[KeyOf[res[d]]].total
    <3>1. CASE d # c
      BY <1>1, <1>5, <2>1, <3>1 DEF Charging, Told, TheOrder
    <3>2. CASE d = c
      <4>1. pc[c] = "adjust" /\ quote'[c] = quote[c]
        BY <1>1, <1>6, <2>1, <3>2 DEF Booking
      <4>2. QED
        BY <1>1, <2>1, <3>2, <4>1 DEF Charging, Told, TheOrder
    <3>3. QED
      BY <3>1, <3>2
  <2>2. QED
    BY <1>1, <2>1 DEF Told, TheOrder
<1>12. Covered'
  <2>1. ASSUME NEW p \in Calls, p \in order[KeyOf[p]].by \ shared'
        PROVE  LET made == book'[handle[p]][p]
               IN /\ made # Unknown
                  /\ made.currency = order[KeyOf[p]].currency
                  /\ made.status \in Active \cup {"captured"}
                       => made.amount >= order[KeyOf[p]].total
                  /\ made.status = "released" =>
                       p \in blind' \/ made.why \in Gone \cup {"cap_exceeded"}
    <3>1. blind \subseteq blind'
      BY <1>1
    <3>2. CASE book'[handle[p]][p] = book[handle[p]][p]
      BY <1>1, <2>1, <3>1, <3>2, FairCovered DEF Fair
    <3>3. CASE book'[handle[p]][p] # book[handle[p]][p]
      <4>1. p = res[c] /\ handle[p] = handle[c] /\ book'[handle[p]][p] = e
        BY <1>2, <1>3, <3>3 DEF Mine
      <4>2. pc[c] = "release" /\ TheOrder(c).state = "charged" => res[c] \in blind'
        BY <1>1
      <4>3. res[c] \in TheOrder(c).by \ shared
        BY <1>1, <2>1, <4>1 DEF TheOrder
      <4>4. QED
        BY <1>1, <4>1, <4>2, <4>3, BookingCovers DEF TheOrder
    <3>4. QED
      BY <3>2, <3>3
  <2>2. QED
    BY <1>1, <2>1 DEF Covered, Made, Live, Gone
<1>13. QED
  BY <1>7, <1>8, <1>9, <1>10, <1>11, <1>12 DEF Charging

\* The order moves: it is opened, takes another total, or is charged.
OrderMove(c, o, q) ==
  /\ pc[c] \in {"create", "update", "complete"}
  /\ pc' = [pc EXCEPT ![c] = q]
  /\ UNCHANGED <<res, handle, book, blind>>
  /\ shared \subseteq shared'
  /\ \A d \in Calls : d # c => quote'[d] = quote[d]
  /\ order' = [order EXCEPT ![KeyOf[res[c]]] = o]
  /\ \/ TheOrder(c) = o /\ o.state # "none"
     \/ TheOrder(c).state = "none" /\ o.state = "open" /\ o.by = {} /\ q # "answer"
     \/ /\ TheOrder(c).state = "open" /\ o.state = "open" /\ o.by = {} /\ q # "answer"
        /\ o.currency = TheOrder(c).currency
     \/ /\ TheOrder(c).state = "open" /\ pc[c] = "complete" /\ q = "answer"
        /\ o = [TheOrder(c) EXCEPT !.state = "charged", !.by = {res[c]}]
        /\ TheOrder(c).total = quote[c]
  /\ \/ q \in {"update", "adjust"} /\ quote'[c] = o.total
     \/ q = "answer" /\ o.state = "charged"

LEMMA ChargingOfOrder ==
  ASSUME TypeOK, Ownership, Charging, NEW c \in Calls, NEW o \in Order, NEW q,
         OrderMove(c, o, q)
  PROVE  Charging'
<1> USE DEF OrderMove
<1>1. \A d \in Calls : /\ res[d] \in Calls /\ handle[d] \in MasterKey /\ d \in Ids
                       /\ KeyOf[d] \in Keys /\ order[KeyOf[d]] \in Order
                       /\ KeyOf[res[d]] \in Keys /\ order[KeyOf[res[d]]] \in Order
  BY WalletAssumption DEF TypeOK, CallsOK, WorldOK, Keys
<1>0. KeyOf \in [Calls -> DOMAIN Total]
  BY WalletAssumption
<1>2. /\ \A k \in Keys : order'[k] = IF k = KeyOf[res[c]] THEN o ELSE order[k]
      /\ TheOrder(c) = order[KeyOf[res[c]]]
  BY DEF TypeOK, WorldOK, TheOrder
<1>3. (\A d \in Calls : d # c => pc'[d] = pc[d]) /\ pc'[c] = q /\ pc[c] \notin Over
  BY DEF TypeOK, CallsOK, Over
<1>4. TheOrder(c).state # "charged" => TheOrder(c).by = {}
  BY <1>1, <1>2 DEF Charging, Payers
<1>5. \A k \in Keys : /\ order[k].state # "none" => order'[k].state # "none"
                      /\ order[k].state = "charged" => order'[k].state = "charged"
                      /\ order[k].state # "none" => order'[k].currency = order[k].currency
  <2>1. /\ o.state # "none"
        /\ TheOrder(c).state = "charged" => o.state = "charged"
        /\ TheOrder(c).state # "none" => o.currency = TheOrder(c).currency
    BY <1>1, <1>2 DEF Order
  <2>2. QED
    BY <1>2, <2>1
<1>6. o.state # "none" /\ (o.state = "charged" \/ o.by = {})
  BY <1>1, <1>2, <1>4 DEF Order
<1>7. Asked'
  <2>1. ASSUME NEW d \in Calls
        PROVE  /\ pc'[d] \in Working \ {"create", "release"} =>
                    order'[KeyOf[res[d]]].state # "none"
               /\ pc'[d] \in {"answer", "settle", "shadow", "unpersisted"} =>
                    order'[KeyOf[res[d]]].state = "charged"
    <3>1. CASE d # c
      <4>1. /\ pc[d] \in Working \ {"create", "release"} =>
                 order[KeyOf[res[d]]].state # "none"
            /\ pc[d] \in {"answer", "settle", "shadow", "unpersisted"} =>
                 order[KeyOf[res[d]]].state = "charged"
        BY DEF Charging, Asked, TheOrder
      <4>2. pc'[d] = pc[d]
        BY <1>3, <3>1
      <4>3. KeyOf[res[d]] \in Keys
        BY <1>1
      <4>4. /\ order[KeyOf[res[d]]].state # "none" => order'[KeyOf[res[d]]].state # "none"
            /\ order[KeyOf[res[d]]].state = "charged" =>
                 order'[KeyOf[res[d]]].state = "charged"
        BY <1>5, <4>3, Zenon
      <4>5. QED
        BY <4>1, <4>2, <4>4, Zenon
    <3>2. CASE d = c
      BY <1>1, <1>2, <1>3, <1>6, <3>2
    <3>3. QED
      BY <3>1, <3>2
  <2>2. QED
    BY <2>1 DEF Asked, TheOrder
<1>8. Shadowed'
  <2>1. ASSUME NEW k \in MasterKey, NEW r \in Calls, book[k][r] # Unknown, book[k][r].shadow
        PROVE  order'[KeyOf[r]].state = "charged"
    <3>1. order[KeyOf[r]].state = "charged"
      BY <2>1 DEF Charging, Shadowed
    <3>2. KeyOf[r] \in Keys
      BY <1>1
    <3>3. QED
      BY <1>5, <3>1, <3>2, Zenon
  <2>2. QED
    BY <2>1 DEF Shadowed
<1>9. Payers'
  <2>1. ASSUME NEW k \in Keys
        PROVE  IF order'[k].state = "charged"
               THEN \E p \in Calls : order'[k].by = {p} /\ KeyOf[p] = k
               ELSE order'[k].by = {}
    <3>1. IF order[k].state = "charged" THEN \E p \in Calls : order[k].by = {p} /\ KeyOf[p] = k
                                        ELSE order[k].by = {}
      BY DEF Charging, Payers
    <3>2. CASE k # KeyOf[res[c]]
      <4>1. order'[k] = order[k]
        BY <1>2, <3>2
      <4>2. QED
        BY <3>1, <4>1
    <3>3. CASE k = KeyOf[res[c]] /\ o = order[k]
      BY <1>2, <3>1, <3>3
    <3>4. CASE k = KeyOf[res[c]] /\ o.state = "open" /\ o.by = {}
      BY <1>2, <3>4
    <3>5. CASE /\ k = KeyOf[res[c]]
               /\ o = [TheOrder(c) EXCEPT !.state = "charged", !.by = {res[c]}]
      <4>1. o.state = "charged" /\ o.by = {res[c]}
        BY <1>1, <1>2, <3>5 DEF Order
      <4>2. order'[k] = o
        BY <1>2, <3>5
      <4>3. order'[k].by = {res[c]} /\ order'[k].state = "charged"
        BY <4>1, <4>2
      <4>4. \E p \in Calls : order'[k].by = {p} /\ KeyOf[p] = k
        BY <1>1, <3>5, <4>3
      <4>5. QED
        BY <4>3, <4>4
    <3>6. \/ k # KeyOf[res[c]]
          \/ k = KeyOf[res[c]] /\ o = order[k]
          \/ k = KeyOf[res[c]] /\ o.state = "open" /\ o.by = {}
          \/ /\ k = KeyOf[res[c]]
             /\ o = [TheOrder(c) EXCEPT !.state = "charged", !.by = {res[c]}]
      BY <1>2
    <3>7. QED
      BY <3>2, <3>3, <3>4, <3>5, <3>6
  <2>2. QED
    BY <2>1 DEF Payers
<1>10. Backed'
  <2>1. ASSUME NEW d \in Calls, pc'[d] \in {"token", "complete"}, res[d] \notin shared'
        PROVE  LET mine == book'[handle[d]][res[d]]
               IN /\ mine # Unknown
                  /\ mine.currency = order'[KeyOf[res[d]]].currency
                  /\ mine.status \in Active => mine.amount >= quote'[d]
                  /\ mine.status = "captured" => order'[KeyOf[res[d]]].state = "charged"
                  /\ mine.status = "released" => mine.why \in Gone
    <3>1. d # c /\ pc'[d] = pc[d] /\ quote'[d] = quote[d]
      BY <1>3, <2>1
    <3>2. TheOrder(d).state # "none"
      BY <2>1, <3>1 DEF Charging, Asked, Working
    <3>3. /\ TheOrder(d).currency = order'[KeyOf[res[d]]].currency
          /\ TheOrder(d).state = "charged" => order'[KeyOf[res[d]]].state = "charged"
      <4>1. KeyOf[res[d]] \in Keys /\ order[KeyOf[res[d]]].state # "none"
        BY <1>1, <3>2 DEF TheOrder
      <4>2. QED
        BY <1>5, <4>1, Zenon DEF TheOrder
    <3>4. QED
      BY <1>1, <2>1, <3>1, <3>3, FairBacked DEF Fair
  <2>2. QED
    BY <2>1 DEF Backed, Gone, Mine, TheOrder
<1>11. Told'
  <2>1. ASSUME NEW d \in Calls, pc'[d] \in {"update", "adjust", "token", "complete"},
               res[d] \in order'[KeyOf[res[d]]].by \ shared'
        PROVE  quote'[d] = order'[KeyOf[res[d]]].total
    <3>1. CASE d = c
      BY <1>1, <1>2, <1>3, <2>1, <3>1
    <3>2. CASE d # c /\ order'[KeyOf[res[d]]] = order[KeyOf[res[d]]]
      BY <1>3, <2>1, <3>2 DEF Charging, Told, TheOrder
    <3>3. CASE d # c /\ order'[KeyOf[res[d]]] # order[KeyOf[res[d]]]
      <4>1. KeyOf[res[d]] = KeyOf[res[c]] /\ o.by # {} /\ o # TheOrder(c)
        BY <1>1, <1>2, <2>1, <3>3
      <4>2. o.by = {res[c]}
        BY <1>1, <1>2, <4>1 DEF Order
      <4>3. res[d] = res[c]
        BY <1>1, <1>2, <2>1, <4>1, <4>2
      <4>4. pc[d] \in Working /\ pc[c] \in Working /\ res[c] \notin shared
        BY <1>3, <2>1, <3>3, <4>3 DEF Working
      <4>5. QED
        BY <3>3, <4>3, <4>4 DEF Ownership, Alone
    <3>4. QED
      BY <3>1, <3>2, <3>3
  <2>2. QED
    BY <2>1 DEF Told, TheOrder
<1>12. Covered'
  <2>1. ASSUME NEW p \in Calls, p \in order'[KeyOf[p]].by \ shared'
        PROVE  LET made == book'[handle[p]][p]
               IN /\ made # Unknown
                  /\ made.currency = order'[KeyOf[p]].currency
                  /\ made.status \in Active \cup {"captured"}
                       => made.amount >= order'[KeyOf[p]].total
                  /\ made.status = "released" =>
                       p \in blind' \/ made.why \in Gone \cup {"cap_exceeded"}
    <3>1. CASE order'[KeyOf[p]] = order[KeyOf[p]]
      BY <1>1, <2>1, <3>1, FairCovered DEF Fair
    <3>2. CASE order'[KeyOf[p]] # order[KeyOf[p]]
      <4>1. KeyOf[p] = KeyOf[res[c]] /\ o.by # {} /\ o # TheOrder(c)
        BY <1>1, <1>2, <2>1, <3>2
      <4>2. /\ pc[c] = "complete" /\ TheOrder(c).state = "open" /\ TheOrder(c).total = quote[c]
            /\ o = [TheOrder(c) EXCEPT !.state = "charged", !.by = {res[c]}]
        BY <1>1, <1>2, <4>1 DEF Order
      <4>3. /\ o.by = {res[c]} /\ o.total = quote[c] /\ o.currency = TheOrder(c).currency
        BY <1>1, <1>2, <4>2 DEF Order
      <4>4. p = res[c] /\ order'[KeyOf[p]] = o
        BY <1>1, <1>2, <2>1, <4>1, <4>3
      <4>5. handle[p] = handle[c]
        BY <4>2, <4>4 DEF Ownership, SameKey, Working
      <4>6. /\ Mine(c) # Unknown
            /\ Mine(c).currency = TheOrder(c).currency
            /\ Mine(c).status \in Active => Mine(c).amount >= quote[c]
            /\ Mine(c).status = "captured" => TheOrder(c).state = "charged"
            /\ Mine(c).status = "released" => Mine(c).why \in Gone
        BY <2>1, <4>2, <4>4 DEF Charging, Backed, Gone
      <4>7. book'[handle[p]][p] = Mine(c)
        BY <4>4, <4>5 DEF Mine
      <4>8. QED
        BY <4>2, <4>3, <4>4, <4>6, <4>7
    <3>3. QED
      BY <3>1, <3>2
  <2>2. QED
    BY <2>1 DEF Covered, Made, Live, Gone
<1>13. QED
  BY <1>7, <1>8, <1>9, <1>10, <1>11, <1>12 DEF Charging

LEMMA CreateMoves ==
  ASSUME TypeOK, Ownership, Charging, NEW c \in Calls, Create(c)
  PROVE  \E o \in Order : \E q : OrderMove(c, o, q)
<1>1. PICK t \in Total[KeyOf[res[c]]], cur \in Currency :
        LET opened == IF TheOrder(c).state = "none"
                      THEN [state |-> "open", total |-> t, currency |-> cur, by |-> {}]
                      ELSE TheOrder(c)
        IN /\ order' = [order EXCEPT ![KeyOf[res[c]]] = opened]
           /\ quote' = [quote EXCEPT ![c] = opened.total]
  BY DEF Create
<1> DEFINE opened == IF TheOrder(c).state = "none"
                     THEN [state |-> "open", total |-> t, currency |-> cur, by |-> {}]
                     ELSE TheOrder(c)
<1>2. res[c] \in Calls /\ TheOrder(c) \in Order
  BY MineTyped
<1>3. t \in Nat
  BY <1>2, WalletAssumption
<1>4. [state |-> "open", total |-> t, currency |-> cur, by |-> {}] \in Order
  BY <1>3 DEF Order
<1>5. /\ opened \in Order
      /\ \/ TheOrder(c) = opened /\ opened.state # "none"
         \/ TheOrder(c).state = "none" /\ opened.state = "open" /\ opened.by = {}
  BY <1>2, <1>4
<1>6. /\ order' = [order EXCEPT ![KeyOf[res[c]]] = opened]
      /\ quote' = [quote EXCEPT ![c] = opened.total]
  BY <1>1
<1> HIDE DEF opened
<1>7. PICK q \in {"update", "adjust"} : pc' = [pc EXCEPT ![c] = q]
  BY DEF Create, To
<1>8. /\ res' = res /\ handle' = handle /\ book' = book /\ blind' = blind
      /\ shared \subseteq shared'
      /\ pc[c] = "create" /\ q # "answer"
  BY DEF Create, To, ledgerVars
<1>9. /\ quote'[c] = opened.total
      /\ \A d \in Calls : d # c => quote'[d] = quote[d]
  BY <1>6 DEF TypeOK, CallsOK
<1>10. OrderMove(c, opened, q)
  BY <1>5, <1>6, <1>7, <1>8, <1>9 DEF OrderMove
<1>11. QED
  BY <1>5, <1>10

LEMMA UpdateMoves ==
  ASSUME TypeOK, Ownership, Charging, NEW c \in Calls, Update(c)
  PROVE  \E o \in Order : \E q : OrderMove(c, o, q)
<1>1. PICK t \in Total[KeyOf[res[c]]] :
        LET updated == IF TheOrder(c).state = "open"
                       THEN [TheOrder(c) EXCEPT !.total = t]
                       ELSE TheOrder(c)
        IN /\ order' = [order EXCEPT ![KeyOf[res[c]]] = updated]
           /\ quote' = [quote EXCEPT ![c] = updated.total]
  BY DEF Update
<1> DEFINE updated == IF TheOrder(c).state = "open"
                      THEN [TheOrder(c) EXCEPT !.total = t]
                      ELSE TheOrder(c)
<1>2. res[c] \in Calls /\ KeyOf[res[c]] \in Keys /\ TheOrder(c) \in Order
  BY MineTyped
<1>3. t \in Nat
  BY <1>2, WalletAssumption
<1>4. TheOrder(c).state = "open" => TheOrder(c).by = {}
  BY <1>2 DEF Charging, Payers, TheOrder
<1>5. TheOrder(c).state # "none"
  BY DEF Charging, Asked, Update, Working
<1>6. /\ updated \in Order
      /\ \/ TheOrder(c) = updated /\ updated.state # "none"
         \/ /\ TheOrder(c).state = "open" /\ updated.state = "open" /\ updated.by = {}
            /\ updated.currency = TheOrder(c).currency
  BY <1>2, <1>3, <1>4, <1>5 DEF Order
<1>7. /\ order' = [order EXCEPT ![KeyOf[res[c]]] = updated]
      /\ quote' = [quote EXCEPT ![c] = updated.total]
  BY <1>1
<1> HIDE DEF updated
<1>8. /\ pc' = [pc EXCEPT ![c] = "adjust"]
      /\ res' = res /\ handle' = handle /\ book' = book /\ blind' = blind
      /\ shared \subseteq shared'
      /\ pc[c] = "update"
  BY DEF Update, To, ledgerVars
<1>9. /\ quote'[c] = updated.total
      /\ \A d \in Calls : d # c => quote'[d] = quote[d]
  BY <1>7 DEF TypeOK, CallsOK
<1>10. OrderMove(c, updated, "adjust")
  BY <1>6, <1>7, <1>8, <1>9 DEF OrderMove
<1>11. QED
  BY <1>6, <1>10

LEMMA CompleteMoves ==
  ASSUME TypeOK, Ownership, Charging, NEW c \in Calls, Complete(c)
  PROVE  \E o \in Order : \E q : OrderMove(c, o, q)
<1> DEFINE charged == IF TheOrder(c).state = "charged" THEN TheOrder(c)
                      ELSE [TheOrder(c) EXCEPT !.state = "charged", !.by = {res[c]}]
<1>1. res[c] \in Calls /\ TheOrder(c) \in Order
  BY MineTyped
<1>2. /\ pc[c] = "complete"
      /\ \/ TheOrder(c).state = "open" /\ TheOrder(c).total = quote[c]
         \/ TheOrder(c).state = "charged"
  BY DEF Complete
<1>3. /\ charged \in Order /\ charged.state = "charged"
      /\ \/ TheOrder(c) = charged /\ charged.state # "none"
         \/ /\ TheOrder(c).state = "open" /\ TheOrder(c).total = quote[c]
            /\ charged = [TheOrder(c) EXCEPT !.state = "charged", !.by = {res[c]}]
  BY <1>1, <1>2 DEF Order
<1>4. order' = [order EXCEPT ![KeyOf[res[c]]] = charged]
  BY DEF Complete
<1> HIDE DEF charged
<1>5. /\ pc' = [pc EXCEPT ![c] = "answer"]
      /\ res' = res /\ handle' = handle /\ book' = book /\ blind' = blind
      /\ shared \subseteq shared'
      /\ \A d \in Calls : d # c => quote'[d] = quote[d]
  BY DEF Complete, Only, To, ledgerVars, TypeOK, CallsOK
<1>6. OrderMove(c, charged, "answer")
  BY <1>2, <1>3, <1>4, <1>5 DEF OrderMove
<1>7. QED
  BY <1>3, <1>6

LEMMA ChargingOfReconcile ==
  ASSUME TypeOK, Ownership, Charging, NEW r \in Calls, NEW e, Reconciled(r, e)
  PROVE  Charging'
<1>1. /\ UNCHANGED <<pc, res, at, quote, handle, shared, order, blind>>
      /\ book[vaultKey][r] \in Row /\ book[vaultKey][r].status \in Active
      /\ Reconciling(r, e)
  BY DEF Reconciled
<1>2. \A d \in Calls : /\ res[d] \in Calls /\ handle[d] \in MasterKey /\ d \in Ids
                       /\ KeyOf[d] \in Keys
  BY WalletAssumption DEF TypeOK, CallsOK, Keys
<1>3. /\ book'[vaultKey][r] \in {e, book[vaultKey][r]}
      /\ \A k \in MasterKey, n \in Ids :
           k # vaultKey \/ n # r => book'[k][n] = book[k][n]
  BY DEF Reconciled, Turned
<1>4. book[vaultKey][r] # Unknown /\ vaultKey \in MasterKey
  BY <1>1, Rows DEF TypeOK, WorldOK
<1>5. CASE e = ReleasedAs(book[vaultKey][r], "reconciled_release")
  <2>1. \A k \in MasterKey, n \in Calls : Fair(k, n)
    BY <1>2, <1>3, <1>4, <1>5 DEF Fair, Gone
  <2>2. Asked'
    BY <1>1 DEF Charging, Asked, TheOrder
  <2>3. Shadowed'
    BY <1>1, <2>1, FairShadowed DEF Shadowed
  <2>4. Payers' /\ Told'
    BY <1>1 DEF Charging, Payers, Told, TheOrder
  <2>5. Backed'
    BY <1>1, <1>2, <2>1, FairBacked DEF Backed, Gone, Mine, TheOrder
  <2>6. Covered'
    BY <1>1, <1>2, <2>1, FairCovered DEF Covered, Made, Live, Gone
  <2>7. QED
    BY <2>2, <2>3, <2>4, <2>5, <2>6 DEF Charging
<1>6. CASE /\ book[vaultKey][r].shadow
                \/ (pc[r] = "unpersisted" /\ order[KeyOf[r]].state = "charged")
           /\ e = SettledAs(book[vaultKey][r],
                            [total |-> order[KeyOf[r]].total,
                             currency |-> order[KeyOf[r]].currency],
                            now)
  <2>1. order[KeyOf[r]].state = "charged"
    BY <1>4, <1>6 DEF Charging, Shadowed
  <2>2. /\ e.status = "captured" /\ e.amount = order[KeyOf[r]].total
        /\ e.currency = order[KeyOf[r]].currency
        /\ e.shadow = book[vaultKey][r].shadow /\ e # Unknown
    BY <1>1, <1>6, SettledIs
  <2>3. \A k \in MasterKey, n \in Calls :
          k # vaultKey \/ n # r \/ book'[k][n] # e => Fair(k, n)
    BY <1>2, <1>3 DEF Fair
  <2>4. Asked'
    BY <1>1 DEF Charging, Asked, TheOrder
  <2>5. Shadowed'
    <3>1. ASSUME NEW k \in MasterKey, NEW n \in Calls
          PROVE  book'[k][n] # Unknown /\ book'[k][n].shadow => order'[KeyOf[n]].state = "charged"
      <4>1. CASE Fair(k, n)
        BY <1>1, <4>1, FairShadowed
      <4>2. CASE n = r
        BY <1>1, <2>1, <4>2
      <4>3. QED
        BY <2>3, <4>1, <4>2
    <3>2. QED
      BY <3>1 DEF Shadowed
  <2>6. Payers' /\ Told'
    BY <1>1 DEF Charging, Payers, Told, TheOrder
  <2>7. Backed'
    <3>1. ASSUME NEW d \in Calls, pc[d] \in {"token", "complete"}, res[d] \notin shared
          PROVE  LET mine == book'[handle[d]][res[d]]
                 IN /\ mine # Unknown
                    /\ mine.currency = order[KeyOf[res[d]]].currency
                    /\ mine.status \in Active => mine.amount >= quote[d]
                    /\ mine.status = "captured" => order[KeyOf[res[d]]].state = "charged"
                    /\ mine.status = "released" => mine.why \in Gone
      <4>1. CASE Fair(handle[d], res[d])
        BY <1>1, <1>2, <3>1, <4>1, FairBacked DEF TheOrder
      <4>2. CASE handle[d] = vaultKey /\ res[d] = r /\ book'[vaultKey][r] = e
        BY <2>1, <2>2, <4>2 DEF Active
      <4>3. QED
        BY <1>2, <2>3, <4>1, <4>2
    <3>2. QED
      BY <1>1, <3>1 DEF Backed, Gone, Mine, TheOrder
  <2>8. Covered'
    <3>1. ASSUME NEW p \in Calls, p \in order[KeyOf[p]].by \ shared
          PROVE  LET made == book'[handle[p]][p]
                 IN /\ made # Unknown
                    /\ made.currency = order[KeyOf[p]].currency
                    /\ made.status \in Active \cup {"captured"}
                         => made.amount >= order[KeyOf[p]].total
                    /\ made.status = "released" =>
                         p \in blind' \/ made.why \in Gone \cup {"cap_exceeded"}
      <4>1. CASE Fair(handle[p], p)
        BY <1>1, <3>1, <4>1, FairCovered
      <4>2. CASE handle[p] = vaultKey /\ p = r /\ book'[vaultKey][r] = e
        <5>1. order[KeyOf[r]].total \in Nat
          BY <1>2, ReceiptTyped DEF TypeOK, WorldOK
        <5>2. QED
          BY <2>2, <4>2, <5>1
      <4>3. QED
        BY <1>2, <2>3, <4>1, <4>2
    <3>2. QED
      BY <1>1, <3>1 DEF Covered, Made, Live, Gone
  <2>9. QED
    BY <2>4, <2>5, <2>6, <2>7, <2>8 DEF Charging
<1>7. QED
  BY <1>1, <1>5, <1>6 DEF Reconciling

LEMMA ChargingStep ==
  ASSUME TypeOK, Ownership, Charging, Next
  PROVE  Charging'
<1>1. \A d \in Calls : /\ d \in Ids /\ d \notin DOMAIN Legacy
                       /\ handle[d] \in MasterKey /\ res[d] \in Calls
  BY WalletAssumption DEF TypeOK, CallsOK
<1>2. ASSUME NEW c \in Calls, Step(c)
      PROVE  Charging'
  <2>1. CASE OpenWallet(c)
    <3>1. Opened(c)
      BY <2>1, OpenOpens
    <3>2. \A k \in MasterKey, r \in Calls : Fair(k, r)
      <4>1. ASSUME NEW k \in MasterKey, NEW r \in Calls
            PROVE  Fair(k, r)
        <5>1. CASE book'[k][r] = book[k][r]
          BY <5>1 DEF Fair
        <5>2. CASE /\ book[k][r].status = "pending_escalated"
                   /\ book'[k][r] = ReleasedAs(book[k][r], "resume_expired")
          BY <5>2, UnknownIs DEF Fair, Gone, Active
        <5>3. QED
          BY <1>1, <3>1, <5>1, <5>2 DEF Opened, Imports, Expires
      <4>2. QED
        BY <4>1
    <3>3. /\ order' = order /\ blind' = blind /\ shared' = shared /\ pc[c] = "open" /\ pc'[c] = "decide"
          /\ \A d \in Calls : d # c => /\ pc'[d] = pc[d] /\ res'[d] = res[d]
                                        /\ handle'[d] = handle[d] /\ quote'[d] = quote[d]
      BY <3>1 DEF Opened, To, TypeOK, CallsOK
    <3>4. Made(c) = Unknown
      BY <1>1, <3>3 DEF Ownership, Owned, Made, Early
    <3>5. pc'[c] \in Early \cup (Over \ {"unpersisted"}) \cup {"create", "release"}
      BY <3>3 DEF Early
    <3>6. QED
      BY <3>2, <3>3, <3>4, <3>5, ChargingOfFair
  <2>2. ASSUME NEW q, MayLeave(c, q), Leaves(c, q)
        PROVE  Charging'
    <3>1. /\ order' = order /\ blind' = blind /\ book' = book /\ res' = res /\ handle' = handle
          /\ pc'[c] = q /\ shared \subseteq shared'
          /\ quote'[c] = IF q \in {"token", "complete"} THEN quote[c] ELSE 0
          /\ \A d \in Calls : d # c => pc'[d] = pc[d] /\ quote'[d] = quote[d]
      BY <2>2 DEF Leaves, Only, To, ledgerVars, worldVars, TypeOK, CallsOK
    <3>2. \A k \in MasterKey, r \in Calls : Fair(k, r)
      BY <3>1 DEF Fair
    <3>3. \/ pc'[c] \in Early \cup (Over \ {"unpersisted"}) \cup {"create", "release"}
          \/ /\ res'[c] = res[c] /\ handle'[c] = handle[c]
             /\ pc[c] \in Working
             /\ \/ pc[c] = "token" /\ pc'[c] = "complete" /\ quote'[c] = quote[c]
                \/ pc[c] = "complete" /\ pc'[c] = "escalate" /\ TheOrder(c).state # "none"
                \/ pc[c] = "answer" /\ pc'[c] = "settle"
                \/ pc[c] = "settle" /\ pc'[c] = "shadow"
                \/ pc[c] = "shadow" /\ pc'[c] = "unpersisted"
      BY <2>2, <3>1 DEF MayLeave, Early, Over, Working
    <3>4. QED
      BY <3>1, <3>2, <3>3, ChargingOfFair
  <2>3. QED
    BY <1>2, <2>1, <2>2, StepKinds, ChargingOfBooks, ChargingOfOrder, CreateMoves,
       UpdateMoves, CompleteMoves
       DEF Ownership
<1>3. ASSUME NEW c \in Calls, Crash(c)
      PROVE  Charging'
  <2>1. Crashed(c)
    BY <1>3, CrashCrashes
  <2>2. \A k \in MasterKey, r \in Calls : Fair(k, r)
    BY <1>1, <2>1 DEF Crashed, Imports, Fair
  <2>3. /\ order' = order /\ blind' = blind /\ res' = res /\ handle' = handle /\ quote' = quote
        /\ shared' = shared /\ pc'[c] = "crashed" /\ \A d \in Calls : d # c => pc'[d] = pc[d]
    BY <2>1 DEF Crashed, TypeOK, CallsOK
  <2>4. pc'[c] \in Early \cup (Over \ {"unpersisted"}) \cup {"create", "release"}
    BY <2>3 DEF Over
  <2>5. QED
    BY <2>2, <2>3, <2>4, ChargingOfFair
<1>4. ASSUME NEW r \in Calls, Reconcile(r)
      PROVE  Charging'
  BY <1>4, ReconcileReconciles, ChargingOfReconcile
<1>5. CASE RotatePassword \/ Tick \/ Finished
  <2>1. UNCHANGED <<pc, res, handle, shared, quote, book, order, blind>>
    BY <1>5 DEF RotatePassword, Tick, Finished, ledgerVars, callVars, vars
  <2>2. QED
    BY <2>1
       DEF Charging, Asked, Shadowed, Payers, Backed, Told, Covered, TheOrder, Mine, Made, Live
<1>6. QED
  BY <1>2, <1>3, <1>4, <1>5 DEF Next

LEMMA ChargingInit ==
  ASSUME Init
  PROVE  Charging
<1>1. /\ \A c \in Calls : pc[c] = "open"
      /\ \A k \in MasterKey, i \in Ids : book[k][i] = Unknown
      /\ \A k \in Keys : order[k].state = "none" /\ order[k].by = {}
  BY DEF Init, LedgerInit
<1>2. Asked /\ Backed /\ Told
  BY <1>1 DEF Asked, Backed, Told, Working
<1>3. Shadowed
  BY <1>1, WalletAssumption DEF Shadowed
<1>4. Payers
  BY <1>1 DEF Payers
<1>5. \A p \in Calls : order[KeyOf[p]].by = {}
  BY <1>1 DEF Keys
<1>6. Covered
  BY <1>5 DEF Covered
<1>7. QED
  BY <1>2, <1>3, <1>4, <1>6 DEF Charging

\* Everything above, in every state.
LEMMA Always == Spec => [](TypeOK /\ Ownership /\ Charging)
<1>1. Init => TypeOK /\ Ownership /\ Charging
  BY TypeInit, OwnershipInit, ChargingInit
<1>2. TypeOK /\ Ownership /\ Charging /\ [Next]_vars => (TypeOK /\ Ownership /\ Charging)'
  <2> SUFFICES ASSUME TypeOK, Ownership, Charging, [Next]_vars
               PROVE  (TypeOK /\ Ownership /\ Charging)'
    OBVIOUS
  <2>1. CASE Next
    BY <2>1, TypeStep, OwnershipStep, ChargingStep DEF Ownership
  <2>2. CASE UNCHANGED vars
    <3>2. TypeOK'
      BY <2>2 DEF vars, TypeOK, FileOK, CallsOK, WorldOK
    <3>3. Ownership'
      BY <2>2 DEF vars, Ownership, Owned, Fresh, Resumed, Alone, SameKey
    <3>4. Charging'
      BY <2>2
         DEF vars, Charging, Asked, Shadowed, Payers, Backed, Told, Covered, TheOrder, Mine,
             Made, Live
    <3>5. QED
      BY <3>2, <3>3, <3>4
  <2>3. QED
    BY <2>1, <2>2
<1>3. QED
  BY <1>1, <1>2, PTL DEF Spec

\* Every variable keeps its type: in particular each row a holder of any key
\* reads is one of the four statuses of ledger.ts with the amounts, times and
\* reasons the wallet writes, torn lines and half migrations included.
THEOREM TypeCorrect == Spec => []TypeOK
BY Always, PTL

\* What a merchant charged is covered by a live reservation of its key, or left the
\* spend totals in one of the five known ways: wallet/index.ts releases on any driver
\* error, the clock, an operator, a resumed call that finds the cap filled (ledger.ts
\* adjust), or two calls that resumed one escalation at once (ledger.ts reattach).
THEOREM ChargesAreBooked == Spec => []ChargeIsBooked
<1>1. TypeOK /\ Charging => ChargeIsBooked
  <2>1. SUFFICES ASSUME TypeOK, Charging, NEW k \in Keys, order[k].state = "charged"
                 PROVE  \E r \in order[k].by :
                          Lost(r) \/ (Live(r) /\ Made(r).amount >= order[k].total)
    BY DEF ChargeIsBooked
  <2>2. PICK p \in Calls : order[k].by = {p} /\ KeyOf[p] = k
    BY <2>1 DEF Charging, Payers
  <2>3. CASE p \in shared
    BY <2>2, <2>3 DEF Lost
  <2>4. CASE p \notin shared
    <3>1. /\ Made(p) # Unknown
          /\ Live(p) => Made(p).amount >= order[k].total
          /\ Made(p).status = "released" =>
               p \in blind \/ Made(p).why \in {"resume_expired", "reconciled_release",
                                               "cap_exceeded"}
      BY <2>1, <2>2, <2>4 DEF Charging, Covered
    <3>2. Made(p) \in Row
      BY <2>1, <3>1, WalletAssumption DEF TypeOK, FileOK, CallsOK, Made
    <3>3. Live(p) \/ Made(p).status = "released"
      BY <3>2 DEF Row, Live, Active
    <3>4. QED
      BY <2>2, <3>1, <3>3 DEF Lost, ReleasedFor
  <2>5. QED
    BY <2>3, <2>4
<1>2. QED
  BY <1>1, Always, PTL

-----------------------------------------------------------------------------
(* Captured is final.                                                      *)

\* What a step does to the book.
LEMMA BookSteps ==
  ASSUME TypeOK, Ownership, Next
  PROVE  \/ \E c \in Calls : Opened(c)
         \/ \E c \in Calls : Crashed(c)
         \/ \E c \in Calls : \E e, q : Books(c, e, q)
         \/ \E r \in Calls : \E e : Reconciled(r, e)
         \/ \E c \in Calls : /\ Create(c) \/ Update(c) \/ Complete(c)
                            /\ book' = book /\ now' = now /\ vaultKey' = vaultKey
         \/ \E c \in Calls : \E q : MayLeave(c, q) /\ Leaves(c, q) /\ book' = book
         \/ UNCHANGED <<book, pc, res, at, quote, handle, shared, order>> /\ now' >= now
<1>1. ASSUME NEW c \in Calls, Create(c) \/ Update(c) \/ Complete(c)
      PROVE  book' = book /\ now' = now /\ vaultKey' = vaultKey
  BY <1>1 DEF Create, Update, Complete, ledgerVars
<1>2. ASSUME NEW c \in Calls, NEW q, Leaves(c, q)
      PROVE  book' = book
  BY <1>2 DEF Leaves, ledgerVars
<1>3. RotatePassword \/ Tick \/ Finished =>
        UNCHANGED <<book, pc, res, at, quote, handle, shared, order>> /\ now' >= now
  BY WalletAssumption
     DEF RotatePassword, Tick, Finished, ledgerVars, callVars, vars, TypeOK, WorldOK
<1>4. ASSUME NEW c \in Calls, Step(c)
      PROVE  \/ Opened(c)
             \/ \E e, q : Books(c, e, q)
             \/ /\ Create(c) \/ Update(c) \/ Complete(c)
                /\ book' = book /\ now' = now /\ vaultKey' = vaultKey
             \/ \E q : MayLeave(c, q) /\ Leaves(c, q) /\ book' = book
  BY <1>1, <1>2, <1>4, StepKinds, OpenOpens DEF Ownership
<1>5. ASSUME NEW c \in Calls, Crash(c)
      PROVE  Crashed(c)
  BY <1>5, CrashCrashes
<1>6. ASSUME NEW r \in Calls, Reconcile(r)
      PROVE  \E e : Reconciled(r, e)
  BY <1>6, ReconcileReconciles
<1>7. QED
  BY <1>3, <1>4, <1>5, <1>6 DEF Next

LEMMA BookingNew ==
  ASSUME TypeOK, Ownership, NEW c \in Calls, NEW e, NEW q, Booking(c, e, q)
  PROVE  /\ pc[c] \in {"reserve", "record"} => res[c] = c /\ Mine(c) = Unknown
         /\ pc[c] \notin {"reserve", "record"} => Mine(c).status \in Active
<1>1. pc[c] \notin {"reserve", "record"} => Mine(c).status \in Active
  BY MineTyped DEF Booking
<1>2. ASSUME pc[c] \in {"reserve", "record"}
      PROVE  res[c] = c /\ Mine(c) = Unknown
  BY <1>2, MineTyped DEF Ownership, Resumed, Owned, Mine, Early
<1>3. QED
  BY <1>1, <1>2

LEMMA CapturedStays ==
  ASSUME TypeOK, Ownership, Next, NEW k \in MasterKey, NEW i \in Ids,
         book[k][i].status = "captured"
  PROVE  book'[k][i] = book[k][i]
<1>1. /\ book[k][i] # Unknown /\ book[k][i].status \notin Active
      /\ book[k][i].status # "pending_escalated"
  BY UnknownIs DEF Active
<1>2. header # "absent"
  BY <1>1 DEF Ownership, Fresh
<1>3. ASSUME NEW c \in Calls, Opened(c) \/ Crashed(c)
      PROVE  book'[k][i] = book[k][i]
  BY <1>1, <1>2, <1>3 DEF Opened, Crashed, Imports, Expires
<1>4. ASSUME NEW c \in Calls, NEW e, NEW q, Books(c, e, q)
      PROVE  book'[k][i] = book[k][i]
  <2>1. CASE k # handle[c] \/ i # res[c]
    BY <1>4, <2>1 DEF Books, Turned
  <2>2. CASE k = handle[c] /\ i = res[c]
    <3>1. Mine(c) # Unknown /\ Mine(c).status \notin Active
      BY <1>1, <2>2 DEF Mine
    <3>2. QED
      BY <1>4, <3>1, BookingNew DEF Books
  <2>3. QED
    BY <2>1, <2>2
<1>5. ASSUME NEW r \in Calls, NEW e, Reconciled(r, e)
      PROVE  book'[k][i] = book[k][i]
  BY <1>1, <1>5 DEF Reconciled, Turned
<1>6. QED
  BY <1>3, <1>4, <1>5, BookSteps

LEMMA ReceiptStep ==
  ASSUME TypeOK, Ownership, Next, ReceiptIsKept
  PROVE  ReceiptIsKept'
<1>1. ASSUME NEW d \in Calls, pc[d] = "done", pc'[d] = "done", res'[d] = res[d],
             handle'[d] = handle[d], joined => joined'
      PROVE  book'[handle'[d]][res'[d]].status = "captured" \/ joined'
  <2>1. handle[d] \in MasterKey /\ res[d] \in Ids
    BY MineTyped
  <2>2. Mine(d).status = "captured" \/ joined
    BY <1>1 DEF ReceiptIsKept
  <2>3. QED
    BY <1>1, <2>1, <2>2, CapturedStays DEF Mine
<1>2. ASSUME NEW c \in Calls, NEW q, pc' = [pc EXCEPT ![c] = q], q # "done",
             \A d \in Calls : d # c => res'[d] = res[d] /\ handle'[d] = handle[d],
             joined => joined'
      PROVE  ReceiptIsKept'
  <2>1. \A d \in Calls : pc'[d] = "done" => d # c /\ pc[d] = "done"
    BY <1>2 DEF TypeOK, CallsOK
  <2>2. QED
    BY <1>1, <1>2, <2>1 DEF ReceiptIsKept, Mine
<1>3. ASSUME NEW c \in Calls, Opened(c)
      PROVE  ReceiptIsKept'
  <2>1. \A d \in Calls : d # c => res'[d] = res[d] /\ handle'[d] = handle[d]
    BY <1>3 DEF Opened, TypeOK, CallsOK
  <2>2. pc' = [pc EXCEPT ![c] = "decide"] /\ (joined => joined')
    BY <1>3 DEF Opened, To, FileMoves
  <2>3. QED
    BY <1>2, <2>1, <2>2
<1>4. ASSUME NEW c \in Calls, Crashed(c)
      PROVE  ReceiptIsKept'
  BY <1>2, <1>4 DEF Crashed, FileMoves
<1>5. ASSUME NEW c \in Calls, NEW e, NEW q, Books(c, e, q)
      PROVE  ReceiptIsKept'
  <2>1. /\ pc' = [pc EXCEPT ![c] = q] /\ res' = res /\ handle' = handle
        /\ (joined => joined') /\ Booking(c, e, q)
    BY <1>5 DEF Books, FileWritten, Only, To
  <2>2. CASE q # "done"
    BY <1>2, <2>1, <2>2
  <2>3. CASE q = "done"
    <3>1. pc[c] \in {"settle", "record"} /\ e.status = "captured"
      BY <2>1, <2>3, MineTyped, SettledIs DEF Booking, Opening
    <3>2. book'[handle[c]][res[c]] = e \/ joined'
      BY <1>5 DEF Books, Turned
    <3>3. \A d \in Calls : d # c => pc'[d] = pc[d]
      BY <2>1 DEF TypeOK, CallsOK
    <3>4. QED
      BY <1>1, <2>1, <3>1, <3>2, <3>3 DEF ReceiptIsKept, Mine
  <2>4. QED
    BY <2>2, <2>3
<1>6. ASSUME NEW r \in Calls, NEW e, Reconciled(r, e)
      PROVE  ReceiptIsKept'
  BY <1>1, <1>6 DEF Reconciled, FileWritten, ReceiptIsKept, Mine
<1>7. ASSUME NEW c \in Calls, Create(c) \/ Update(c) \/ Complete(c)
      PROVE  ReceiptIsKept'
  <2>1. PICK q \in {"update", "adjust", "answer"} : pc' = [pc EXCEPT ![c] = q]
    BY <1>7 DEF Create, Update, Complete, To, Only
  <2>2. res' = res /\ handle' = handle /\ joined' = joined
    BY <1>7 DEF Create, Update, Complete, Only, ledgerVars
  <2>3. QED
    BY <1>2, <2>1, <2>2
<1>8. ASSUME NEW c \in Calls, NEW q, MayLeave(c, q), Leaves(c, q)
      PROVE  ReceiptIsKept'
  <2>1. /\ pc' = [pc EXCEPT ![c] = q] /\ res' = res /\ handle' = handle /\ joined' = joined
    BY <1>8 DEF Leaves, Only, To, ledgerVars
  <2>2. q # "done"
    BY <1>8 DEF MayLeave
  <2>3. QED
    BY <1>2, <2>1, <2>2
<1>9. CASE RotatePassword \/ Tick \/ Finished
  <2>1. UNCHANGED <<pc, res, handle, book, joined>>
    BY <1>9 DEF RotatePassword, Tick, Finished, ledgerVars, callVars, vars
  <2>2. QED
    BY <2>1 DEF ReceiptIsKept, Mine
<1>10. ASSUME NEW c \in Calls, Step(c)
       PROVE  ReceiptIsKept'
  BY <1>3, <1>5, <1>7, <1>8, <1>10, StepKinds, OpenOpens DEF Ownership
<1>11. QED
  BY <1>4, <1>6, <1>9, <1>10, CrashCrashes, ReconcileReconciles DEF Next

\* A purchase that returned its receipt is captured in the ledger, under the key
\* it was settled with, whatever any process does afterwards; only a line a
\* crash had cut off can have taken the row (wallet/index.ts settles before it
\* returns; ledger.ts folds nothing into a captured reservation).
THEOREM ReceiptsAreKept == Spec => []ReceiptIsKept
<1>1. Init => ReceiptIsKept
  BY DEF Init, ReceiptIsKept
<1>2. TypeOK /\ Ownership /\ ReceiptIsKept /\ [Next]_vars => ReceiptIsKept'
  <2>1. UNCHANGED vars /\ ReceiptIsKept => ReceiptIsKept'
    BY DEF vars, ReceiptIsKept, Mine
  <2>2. QED
    BY <2>1, ReceiptStep
<1>3. QED
  BY <1>1, <1>2, Always, PTL DEF Spec

-----------------------------------------------------------------------------
(* The clock.                                                              *)

LEMMA BookingStamped ==
  ASSUME TypeOK, Ownership, Stamps, NEW c \in Calls, NEW e, NEW q, Booking(c, e, q)
  PROVE  /\ e.settled \in Nat /\ e.settled <= now
         /\ Mine(c) # Unknown => e.settled = Mine(c).settled \/ pc[c] = "settle"
<1>1. at[c] \in Nat /\ at[c] <= now /\ now \in Nat
  BY WalletAssumption DEF Stamps, TypeOK, CallsOK, WorldOK
<1>2. CASE pc[c] \in {"reserve", "record"}
  <2>1. Mine(c) = Unknown
    BY <1>2, BookingNew
  <2>2. e.settled = at[c]
    BY <1>2 DEF Booking, Opening
  <2>3. QED
    BY <1>1, <2>1, <2>2
<1>3. CASE pc[c] = "settle"
  <2>1. e = SettledAs(Mine(c), Receipt(c), at[c]) /\ Mine(c) \in Row
    BY <1>3, MineTyped DEF Booking
  <2>2. \A r \in Row : \A receipt, time : SettledAs(r, receipt, time).settled = time
    BY SettledIs
  <2>3. e.settled = at[c]
    BY <2>1, <2>2, Zenon
  <2>4. QED
    BY <1>1, <1>3, <2>3
<1>4. CASE pc[c] \notin {"reserve", "record", "settle"}
  <2>1. Mine(c) \in Row
    BY <1>4, MineTyped DEF Booking
  <2>2. \/ \E why : e = ReleasedAs(Mine(c), why)
        \/ e = [Mine(c) EXCEPT !.amount = quote[c]]
        \/ e = [Mine(c) EXCEPT !.status = "pending_escalated", !.expires = at[c] + 1]
        \/ e = Mine(c)
        \/ e = [Mine(c) EXCEPT !.shadow = TRUE]
    BY <1>4 DEF Booking
  <2>3. \A why : ReleasedAs(Mine(c), why).settled = Mine(c).settled
    BY <2>1, ReleasedIs
  <2>4. e.settled = Mine(c).settled
    BY <2>1, <2>2, <2>3 DEF Row
  <2>5. Mine(c).settled \in Nat /\ Mine(c) # Unknown
    BY <2>1, Rows DEF Row
  <2>6. Mine(c).settled <= now
    BY <2>5, MineTyped DEF Stamps, Mine
  <2>7. QED
    BY <2>4, <2>5, <2>6
<1>5. QED
  BY <1>2, <1>3, <1>4

LEMMA StampsStep ==
  ASSUME TypeOK, Ownership, Stamps, Next
  PROVE  Stamps'
<1>1. /\ \A d \in Calls : /\ d \in Ids /\ handle[d] \in MasterKey /\ res[d] \in Calls
                          /\ at[d] \in Nat /\ res[d] \in Ids /\ at[d] <= now
      /\ now \in Nat
      /\ \A k \in MasterKey, i \in Ids : book[k][i] # Unknown =>
           book[k][i] \in Row /\ book[k][i].settled \in Nat /\ book[k][i].settled <= now
      /\ \A d \in Calls : pc[d] = "settle" /\ book[handle[d]][res[d]].status \in Active =>
           book[handle[d]][res[d]].settled <= at[d]
  <2>1. \A r \in Row : r.settled \in Nat
    BY DEF Row
  <2>2. QED
    BY <2>1, WalletAssumption DEF TypeOK, FileOK, CallsOK, WorldOK, Stamps, Mine
<1>2. ASSUME NEW c \in Calls, NEW q, To(c, q), now' = now
      PROVE  /\ pc'[c] = q /\ \A d \in Calls : d # c => pc'[d] = pc[d] /\ at'[d] = at[d]
             /\ at'[c] \in {0, now} /\ (q = "settle" => at'[c] = now)
             /\ \A d \in Calls : at'[d] <= now'
  BY <1>1, <1>2 DEF To, Timed, TypeOK, CallsOK
<1>3. ASSUME \A k \in MasterKey, i \in Ids :
               \/ book'[k][i] = book[k][i]
               \/ book[k][i] # Unknown /\ \E why : book'[k][i] = ReleasedAs(book[k][i], why)
               \/ \E n \in Nat : book'[k][i] = Opening("captured", n, 0),
             now' = now
      PROVE  /\ \A k \in MasterKey, i \in Ids : book'[k][i] # Unknown => book'[k][i].settled <= now'
             /\ \A k \in MasterKey, i \in Ids :
                  book'[k][i].status \in Active => book'[k][i] = book[k][i]
  <2>1. \A n : Opening("captured", n, 0).settled = 0 /\ Opening("captured", n, 0).status = "captured"
    BY DEF Opening
  <2>2. \A r \in Row : \A why : /\ ReleasedAs(r, why).settled = r.settled
                               /\ ReleasedAs(r, why).status = "released"
    BY ReleasedIs
  <2>3. ASSUME NEW k \in MasterKey, NEW i \in Ids
        PROVE  /\ book'[k][i] # Unknown => book'[k][i].settled <= now'
               /\ book'[k][i].status \in Active => book'[k][i] = book[k][i]
    <3>1. CASE book'[k][i] = book[k][i]
      BY <1>1, <1>3, <3>1
    <3>2. CASE book[k][i] # Unknown /\ \E why : book'[k][i] = ReleasedAs(book[k][i], why)
      BY <1>1, <1>3, <2>2, <3>2 DEF Active
    <3>3. CASE \E n \in Nat : book'[k][i] = Opening("captured", n, 0)
      BY <1>1, <1>3, <2>1, <3>3 DEF Active
    <3>4. QED
      BY <1>3, <3>1, <3>2, <3>3
  <2>4. QED
    BY <2>3
<1>4. ASSUME NEW k \in MasterKey, Imports(k) \/ Expires(k) \/ book' = book
      PROVE  \A j \in MasterKey, i \in Ids :
               \/ book'[j][i] = book[j][i]
               \/ book[j][i] # Unknown /\ \E why : book'[j][i] = ReleasedAs(book[j][i], why)
               \/ \E n \in Nat : book'[j][i] = Opening("captured", n, 0)
  <2>1. \A j \in MasterKey, i \in Ids :
          book[j][i].status = "pending_escalated" => book[j][i] # Unknown
    BY UnknownIs DEF Active
  <2>2. QED
    BY <1>4, <2>1, LedgerAssumption DEF Imports, Expires
<1>5. ASSUME NEW c \in Calls, Opened(c)
      PROVE  Stamps'
  <2>1. To(c, "decide") /\ now' = now /\ vaultKey \in MasterKey
        /\ (Imports(vaultKey) \/ Expires(vaultKey) \/ book' = book)
    BY <1>5 DEF Opened, TypeOK, WorldOK
  <2>2. \A d \in Calls : d # c => res'[d] = res[d] /\ handle'[d] = handle[d]
    BY <1>5 DEF Opened, TypeOK, CallsOK
  <2>3. /\ \A k \in MasterKey, i \in Ids : book'[k][i] # Unknown => book'[k][i].settled <= now'
        /\ \A k \in MasterKey, i \in Ids :
             book'[k][i].status \in Active => book'[k][i] = book[k][i]
    BY <1>3, <1>4, <2>1
  <2>4. /\ pc'[c] = "decide" /\ \A d \in Calls : d # c => pc'[d] = pc[d] /\ at'[d] = at[d]
        /\ \A d \in Calls : at'[d] <= now'
    BY <1>2, <2>1
  <2>5. ASSUME NEW d \in Calls, pc'[d] = "settle", book'[handle'[d]][res'[d]].status \in Active
        PROVE  book'[handle'[d]][res'[d]].settled <= at'[d]
    BY <1>1, <2>2, <2>3, <2>4, <2>5
  <2>6. QED
    BY <2>3, <2>4, <2>5 DEF Stamps, Mine
<1>6. ASSUME NEW c \in Calls, Crashed(c)
      PROVE  Stamps'
  <2>1. /\ now' = now /\ vaultKey \in MasterKey /\ at' = at /\ res' = res /\ handle' = handle
        /\ (Imports(vaultKey) \/ Expires(vaultKey) \/ book' = book)
        /\ \A d \in Calls : pc'[d] = "settle" => pc[d] = "settle"
    BY <1>6 DEF Crashed, TypeOK, CallsOK, WorldOK
  <2>2. /\ \A k \in MasterKey, i \in Ids : book'[k][i] # Unknown => book'[k][i].settled <= now'
        /\ \A k \in MasterKey, i \in Ids :
             book'[k][i].status \in Active => book'[k][i] = book[k][i]
    BY <1>3, <1>4, <2>1
  <2>3. QED
    BY <1>1, <2>1, <2>2 DEF Stamps, Mine
<1>7. ASSUME NEW c \in Calls, NEW e, NEW q, Books(c, e, q)
      PROVE  Stamps'
  <2>1. /\ To(c, q) /\ now' = now /\ res' = res /\ handle' = handle /\ Booking(c, e, q)
        /\ pc[c] \notin Over
    BY <1>7, BookingStays DEF Books, Only
  <2>2. /\ e.settled \in Nat /\ e.settled <= now
    BY <2>1, BookingStamped
  <2>3. /\ book'[handle[c]][res[c]] \in {e, Mine(c)}
        /\ \A k \in MasterKey, n \in Ids :
             k # handle[c] \/ n # res[c] => book'[k][n] = book[k][n]
    BY <1>7 DEF Books, Turned
  <2>4. /\ pc'[c] = q /\ \A d \in Calls : d # c => pc'[d] = pc[d] /\ at'[d] = at[d]
        /\ \A d \in Calls : at'[d] <= now'
    BY <1>2, <2>1
  <2>5. ASSUME NEW k \in MasterKey, NEW i \in Ids, book'[k][i] # Unknown
        PROVE  book'[k][i].settled <= now'
    BY <1>1, <2>1, <2>2, <2>3, <2>5 DEF Mine
  <2>6. q # "settle"
    BY <2>1 DEF Booking
  <2>7. ASSUME NEW d \in Calls, pc'[d] = "settle", book'[handle[d]][res[d]].status \in Active
        PROVE  book'[handle[d]][res[d]].settled <= at'[d]
    <3>1. d # c /\ pc[d] = "settle" /\ at'[d] = at[d]
      BY <2>4, <2>6, <2>7
    <3>2. CASE book'[handle[d]][res[d]] = book[handle[d]][res[d]]
      BY <1>1, <2>7, <3>1, <3>2
    <3>3. CASE book'[handle[d]][res[d]] # book[handle[d]][res[d]]
      <4>1. /\ res[d] = res[c] /\ handle[d] = handle[c]
            /\ book'[handle[d]][res[d]] = e
        BY <1>1, <2>3, <3>3 DEF Mine
      <4>2. pc[c] \notin {"reserve", "record"}
        BY <2>1, <3>1, <4>1 DEF Ownership, Resumed
      <4>3. Mine(c).status \in Active /\ Mine(c) # Unknown
        BY <2>1, <4>2, BookingNew, UnknownIs
      <4>4. pc[c] # "settle"
        <5>1. ASSUME pc[c] = "settle"
              PROVE  e.status = "captured"
          <6>1. e = SettledAs(Mine(c), Receipt(c), at[c]) /\ Mine(c) \in Row
            BY <2>1, <5>1, MineTyped DEF Booking
          <6>2. \A x \in Row : \A receipt, time : SettledAs(x, receipt, time).status = "captured"
            BY SettledIs
          <6>3. QED
            BY <6>1, <6>2, Zenon
        <5>2. QED
          BY <2>7, <4>1, <5>1 DEF Active
      <4>5. e.settled = Mine(c).settled
        BY <2>1, <4>3, <4>4, BookingStamped
      <4>6. Mine(c) = book[handle[d]][res[d]]
        BY <4>1 DEF Mine
      <4>7. QED
        BY <1>1, <3>1, <4>1, <4>3, <4>5, <4>6
    <3>4. QED
      BY <3>2, <3>3
  <2>8. QED
    BY <2>1, <2>4, <2>5, <2>7 DEF Stamps, Mine
<1>8. ASSUME NEW r \in Calls, NEW e, Reconciled(r, e)
      PROVE  Stamps'
  <2>1. /\ UNCHANGED <<pc, res, at, handle, now>>
        /\ vaultKey \in MasterKey /\ book[vaultKey][r] \in Row /\ Reconciling(r, e)
    BY <1>8 DEF Reconciled, TypeOK, WorldOK
  <2>2. /\ book'[vaultKey][r] \in {e, book[vaultKey][r]}
        /\ \A k \in MasterKey, n \in Ids :
             k # vaultKey \/ n # r => book'[k][n] = book[k][n]
    BY <1>8 DEF Reconciled, Turned
  <2>3. e.settled <= now /\ e.status \notin Active
    <3>1. book[vaultKey][r] # Unknown
      BY <2>1, Rows
    <3>2. CASE e = ReleasedAs(book[vaultKey][r], "reconciled_release")
      BY <1>1, <2>1, <3>1, <3>2, ReleasedIs DEF Active
    <3>3. CASE e = SettledAs(book[vaultKey][r],
                             [total |-> order[KeyOf[r]].total,
                              currency |-> order[KeyOf[r]].currency], now)
      <4>1. e.settled = now /\ e.status = "captured"
        BY <2>1, <3>3, SettledIs
      <4>2. QED
        BY <1>1, <4>1 DEF Active
    <3>4. QED
      BY <2>1, <3>2, <3>3 DEF Reconciling
  <2>4. ASSUME NEW k \in MasterKey, NEW i \in Ids, book'[k][i] # Unknown
        PROVE  book'[k][i].settled <= now'
    BY <1>1, <2>1, <2>2, <2>3, <2>4
  <2>5. ASSUME NEW d \in Calls, pc[d] = "settle", book'[handle[d]][res[d]].status \in Active
        PROVE  book'[handle[d]][res[d]].settled <= at[d]
    <3>1. book'[handle[d]][res[d]] = book[handle[d]][res[d]]
      BY <1>1, <2>2, <2>3, <2>5
    <3>2. QED
      BY <1>1, <2>5, <3>1
  <2>6. QED
    BY <1>1, <2>1, <2>4, <2>5 DEF Stamps, Mine
<1>9. ASSUME NEW c \in Calls, NEW q, To(c, q), now' = now, book' = book, res' = res,
             handle' = handle
      PROVE  Stamps'
  <2>1. /\ pc'[c] = q /\ \A d \in Calls : d # c => pc'[d] = pc[d] /\ at'[d] = at[d]
        /\ (q = "settle" => at'[c] = now) /\ \A d \in Calls : at'[d] <= now'
    BY <1>2, <1>9
  <2>2. ASSUME NEW d \in Calls, pc'[d] = "settle", book[handle[d]][res[d]].status \in Active
        PROVE  book[handle[d]][res[d]].settled <= at'[d]
    <3>1. CASE d = c
      <4>1. book[handle[d]][res[d]] # Unknown
        BY <2>2, UnknownIs
      <4>2. QED
        BY <1>1, <2>1, <2>2, <3>1, <4>1
    <3>2. CASE d # c
      BY <1>1, <2>1, <2>2, <3>2
    <3>3. QED
      BY <3>1, <3>2
  <2>3. QED
    BY <1>1, <1>9, <2>1, <2>2 DEF Stamps, Mine
<1>10. ASSUME NEW c \in Calls, Create(c) \/ Update(c) \/ Complete(c)
       PROVE  Stamps'
  <2>1. \E q : To(c, q)
    BY <1>10 DEF Create, Update, Complete, Only
  <2>2. now' = now /\ book' = book /\ res' = res /\ handle' = handle
    BY <1>10 DEF Create, Update, Complete, Only, ledgerVars
  <2>3. QED
    BY <1>9, <2>1, <2>2
<1>11. ASSUME NEW c \in Calls, NEW q, Leaves(c, q)
       PROVE  Stamps'
  BY <1>9, <1>11 DEF Leaves, Only, ledgerVars, worldVars
<1>12. CASE UNCHANGED <<book, pc, res, at, quote, handle, shared, order>> /\ now' >= now
  <2>1. now' \in Nat
    BY TypeStep, WalletAssumption DEF Ownership, TypeOK, WorldOK
  <2>2. ASSUME NEW k \in MasterKey, NEW i \in Ids, book[k][i] # Unknown
        PROVE  book[k][i].settled <= now'
    BY <1>1, <1>12, <2>1, <2>2
  <2>3. \A d \in Calls : at[d] <= now'
    BY <1>1, <1>12, <2>1
  <2>4. QED
    BY <1>1, <1>12, <2>2, <2>3 DEF Stamps, Mine
<1>13. QED
  BY <1>5, <1>6, <1>7, <1>8, <1>10, <1>11, <1>12, BookSteps

LEMMA StampsInit ==
  ASSUME Init
  PROVE  Stamps
<1>1. /\ \A k \in MasterKey, i \in Ids : book[k][i] = Unknown
      /\ \A c \in Calls : pc[c] = "open" /\ at[c] = 0
      /\ now = 0
  BY DEF Init, LedgerInit
<1>2. QED
  BY <1>1 DEF Stamps

LEMMA InTime == Spec => []Stamps
<1>1. Init => Stamps
  BY StampsInit
<1>2. TypeOK /\ Ownership /\ Stamps /\ [Next]_vars => Stamps'
  <2>1. UNCHANGED vars /\ Stamps => Stamps'
    BY DEF vars, Stamps, Mine
  <2>2. QED
    BY <2>1, StampsStep
<1>3. QED
  BY <1>1, <1>2, Always, PTL DEF Spec

-----------------------------------------------------------------------------
(* The caps.                                                               *)

\* What a holder of key k counts, as a sum over one function of all ids.
Amount(k) == [i \in Ids |-> book[k][i].amount]

Counting(k, cur, statuses, from, excluded) ==
  {i \in Ids \ excluded : /\ book[k][i].status \in statuses
                          /\ book[k][i].currency = cur
                          /\ reservationTimestamp(book[k][i]) >= from}

LEMMA CountingTyped ==
  ASSUME TypeOK, NEW k \in MasterKey, NEW cur, NEW statuses \in SUBSET (Active \cup {"captured"}),
         NEW from, NEW excluded
  PROVE  /\ Counting(k, cur, statuses, from, excluded) \in SUBSET Ids
         /\ \A i \in Counting(k, cur, statuses, from, excluded) :
              book[k][i] \in Row /\ Amount(k)[i] = book[k][i].amount /\ Amount(k)[i] \in Nat
         /\ Spent(k, cur, statuses, from, excluded)
              = SumFunctionOnSet(Amount(k), Counting(k, cur, statuses, from, excluded))
         /\ Spent(k, cur, statuses, from, excluded) \in Nat
<1> DEFINE S == Counting(k, cur, statuses, from, excluded)
<1>1. S \in SUBSET Ids
  BY DEF Counting
<1>2. ASSUME NEW i \in S
      PROVE  book[k][i] \in Row /\ Amount(k)[i] = book[k][i].amount /\ Amount(k)[i] \in Nat
  <2>1. i \in Ids /\ book[k][i].status \in Active \cup {"captured"}
    BY DEF Counting
  <2>2. book[k][i] \in Row
    BY <2>1 DEF TypeOK, FileOK, Unknown, Active
  <2>3. QED
    BY <2>1, <2>2 DEF Row, Amount
<1>3. Spent(k, cur, statuses, from, excluded) = SumFunction([i \in S |-> Amount(k)[i]])
  <2>1. Spent(k, cur, statuses, from, excluded) = SumFunction([i \in S |-> book[k][i].amount])
    BY DEF Spent, Counting
  <2> HIDE DEF S
  <2>2. [i \in S |-> book[k][i].amount] = [i \in S |-> Amount(k)[i]]
    BY <1>2
  <2>3. QED
    BY <2>1, <2>2
<1> HIDE DEF S
<1>4. Spent(k, cur, statuses, from, excluded) = SumFunctionOnSet(Amount(k), S)
  BY <1>1, <1>2, <1>3, SumIsOnDomain, LedgerAssumption
<1>5. SumFunctionOnSet(Amount(k), S) \in Nat
  BY <1>1, <1>2, SumType, LedgerAssumption
<1>6. QED
  BY <1>1, <1>2, <1>4, <1>5 DEF S

\* What a reservation claims: never more than its amount.
LEMMA ClaimTyped ==
  ASSUME TypeOK, Ownership, Charging, NEW k \in MasterKey, NEW r \in Calls
  PROVE  /\ Claim(k)[r] \in Nat
         /\ Claim(k)[r] # 0 => /\ book[k][r] \in Row
                               /\ book[k][r].status \in Active \cup {"captured"}
                               /\ book[k][r].currency = Home
                               /\ Claim(k)[r] <= book[k][r].amount
<1> DEFINE e == book[k][r]
           o == order[KeyOf[r]]
<1>1. Claim(k)[r] = ClaimOf(e, r, o, shared)
  BY DEF Claim
<1>2. r \in Ids /\ e \in {Unknown} \cup Row /\ o.total \in Nat
  BY WalletAssumption DEF TypeOK, FileOK, WorldOK, Keys, Order
<1>3. CASE r \in shared \/ e.status \notin Active \cup {"captured"} \/ e.currency # Home
  BY <1>1, <1>3 DEF ClaimOf
<1>4. CASE r \notin shared /\ e.status \in Active \cup {"captured"} /\ e.currency = Home
  <2>1. e \in Row /\ e # Unknown /\ e.amount \in Nat
    BY <1>2, <1>4 DEF Unknown, Active, Row
  <2>2. r \in o.by => o.total <= e.amount
    <3>1. handle[r] = k
      BY <2>1 DEF Ownership, Owned
    <3>2. Made(r) = e
      BY <3>1 DEF Made
    <3>3. QED
      BY <1>2, <1>4, <2>1, <3>2 DEF Charging, Covered, Live
  <2>3. QED
    BY <1>1, <1>2, <1>4, <2>1, <2>2 DEF ClaimOf
<1>5. QED
  BY <1>3, <1>4

\* A check of the caps, at a time no later than now, leaves room for the amount
\* it was made for beside everything else that is claimed.
LEMMA CapCheck ==
  ASSUME TypeOK, Ownership, Charging, Stamps, NEW k \in MasterKey, NEW r \in Calls,
         NEW amount \in Nat, NEW time \in Nat, time <= MaxTime,
         NEW excluded \in SUBSET {r}, withinLimits(k, amount, Home, time, excluded),
         NEW w \in Window, Length[w] >= MaxTime, Home \in DOMAIN Limits[w]
  PROVE  SumFunctionOnSet(Claim(k), Calls \ {r}) + amount <= Limits[w][Home]
<1> DEFINE from == time - Length[w]
           P == Counting(k, Home, Active, from, excluded)
           E == Counting(k, Home, {"pending_escalated"}, from, excluded)
           C == Counting(k, Home, {"captured"}, from, excluded)
           U == {i \in Calls \ {r} : Claim(k)[i] # 0}
<1>1. /\ P \in SUBSET Ids /\ C \in SUBSET Ids
      /\ \A i \in P \cup C : Amount(k)[i] \in Nat /\ Amount(k)[i] = book[k][i].amount
      /\ Spent(k, Home, Active, from, excluded) = SumFunctionOnSet(Amount(k), P)
      /\ Spent(k, Home, {"captured"}, from, excluded) = SumFunctionOnSet(Amount(k), C)
      /\ Spent(k, Home, Active, from, excluded) \in Nat
      /\ Spent(k, Home, {"captured"}, from, excluded) \in Nat
      /\ Spent(k, Home, {"pending_escalated"}, from, excluded) \in Nat
  <2>1. /\ Active \in SUBSET (Active \cup {"captured"})
        /\ {"captured"} \in SUBSET (Active \cup {"captured"})
        /\ {"pending_escalated"} \in SUBSET (Active \cup {"captured"})
    BY DEF Active
  <2> HIDE DEF from
  <2>2. QED
    BY <2>1, CountingTyped
<1>2. Spent(k, Home, Active, from, excluded)
        + Spent(k, Home, {"pending_escalated"}, from, excluded)
        + Spent(k, Home, {"captured"}, from, excluded) + amount <= Limits[w][Home]
  BY DEF withinLimits, usageForWindow
<1>3. Calls \in SUBSET Ids /\ IsFiniteSet(Ids) /\ Limits[w][Home] \in Nat
  BY WalletAssumption, LedgerAssumption
<1>4. \A i \in Calls : /\ Claim(k)[i] \in Nat
                       /\ Claim(k)[i] # 0 => /\ book[k][i] \in Row
                                             /\ book[k][i].status \in Active \cup {"captured"}
                                             /\ book[k][i].currency = Home
                                             /\ Claim(k)[i] <= book[k][i].amount
  BY ClaimTyped
<1>5. U \subseteq P \cup C
  <2>1. ASSUME NEW i \in U
        PROVE  i \in P \cup C
    <3>1. /\ i \in Ids \ excluded /\ book[k][i] \in Row
          /\ book[k][i].status \in Active \cup {"captured"} /\ book[k][i].currency = Home
      BY <1>3, <1>4, <2>1
    <3>2. reservationTimestamp(book[k][i]) >= from
      <4>1. reservationTimestamp(book[k][i]) \in Nat
        BY <3>1 DEF Row, reservationTimestamp
      <4>2. Length[w] \in Nat /\ MaxTime \in Nat
        BY LedgerAssumption, WalletAssumption
      <4>3. QED
        BY <4>1, <4>2
    <3>3. QED
      BY <3>1, <3>2 DEF Counting
  <2>2. QED
    BY <2>1
<1>6. P \cap C = {}
  BY DEF Counting, Active
<1> HIDE DEF from, P, E, C
<1>7. SumFunctionOnSet(Claim(k), Calls \ {r}) = SumFunctionOnSet(Claim(k), U)
  BY <1>3, <1>4, SumOfSupport
<1>8. SumFunctionOnSet(Claim(k), U) <= SumFunctionOnSet(Amount(k), U)
  <2>1. \A i \in U : /\ Claim(k)[i] \in Nat /\ Amount(k)[i] \in Nat
                     /\ Claim(k)[i] <= Amount(k)[i]
    BY <1>1, <1>4, <1>5
  <2>2. U \in SUBSET Ids
    BY <1>3
  <2> HIDE DEF U
  <2>3. QED
    BY <1>3, <2>1, <2>2, SumOfLess
<1>9. SumFunctionOnSet(Amount(k), U) <= SumFunctionOnSet(Amount(k), P \cup C)
  BY <1>1, <1>3, <1>5, SumGrows
<1>10. SumFunctionOnSet(Amount(k), P \cup C)
         = SumFunctionOnSet(Amount(k), P) + SumFunctionOnSet(Amount(k), C)
  <2>1. P \in SUBSET (P \cup C) /\ (P \cup C) \ P = C /\ P \cup C \in SUBSET Ids
    BY <1>1, <1>6
  <2>2. QED
    BY <1>1, <1>3, <2>1, SumSplits
<1>11. /\ SumFunctionOnSet(Claim(k), U) \in Nat
       /\ SumFunctionOnSet(Amount(k), U) \in Nat
  <2>1. U \in SUBSET Ids /\ \A i \in U : Claim(k)[i] \in Nat /\ Amount(k)[i] \in Nat
    BY <1>1, <1>3, <1>4, <1>5
  <2> HIDE DEF U
  <2>2. QED
    BY <1>3, <2>1, SumType
<1> HIDE DEF U
<1>12. QED
  BY <1>1, <1>2, <1>3, <1>7, <1>8, <1>9, <1>10, <1>11

LEMMA ClaimsSum ==
  ASSUME TypeOK, Ownership, Charging, NEW k \in MasterKey
  PROVE  SumFunction(Claim(k)) = SumFunctionOnSet(Claim(k), Calls)
BY DEF SumFunction, Claim

LEMMA ClaimsAreNat ==
  TypeOK /\ Ownership /\ Charging => \A k \in MasterKey, r \in Calls : Claim(k)[r] \in Nat
BY ClaimTyped

LEMMA ClaimsStayNat ==
  (TypeOK /\ Ownership /\ Charging => \A k \in MasterKey, r \in Calls : Claim(k)[r] \in Nat)'
BY ClaimsAreNat, PTL

\* A step after which no reservation claims more.
LEMMA ClaimsOfLess ==
  ASSUME TypeOK, Ownership, Charging, ClaimsWithinCap, TypeOK', Ownership', Charging',
         \A k \in MasterKey, r \in Calls : Claim(k)'[r] <= Claim(k)[r]
  PROVE  ClaimsWithinCap'
<1>1. SUFFICES ASSUME NEW k \in MasterKey, NEW w \in Window, Length[w] >= MaxTime,
                      Home \in DOMAIN Limits[w]
               PROVE  SumFunction(Claim(k)') <= Limits[w][Home]
  BY DEF ClaimsWithinCap
<1>2. Calls \in SUBSET Ids /\ IsFiniteSet(Ids) /\ Limits[w][Home] \in Nat
  BY <1>1, WalletAssumption, LedgerAssumption
<1>3. \A r \in Calls : Claim(k)[r] \in Nat /\ Claim(k)'[r] \in Nat /\ Claim(k)'[r] <= Claim(k)[r]
  <2>1. \A r \in Calls : Claim(k)[r] \in Nat
    BY ClaimTyped
  <2>2. \A r \in Calls : Claim(k)'[r] \in Nat
    BY ClaimsStayNat
  <2>3. QED
    BY <2>1, <2>2
<1>4. SumFunction(Claim(k)) <= Limits[w][Home]
  BY <1>1 DEF ClaimsWithinCap
<1>5. SumFunction(Claim(k)) = SumFunctionOnSet(Claim(k), Calls)
  BY ClaimsSum
<1>6. SumFunction(Claim(k)') = SumFunctionOnSet(Claim(k)', Calls)
  BY DEF SumFunction, Claim
<1>7. SumFunctionOnSet(Claim(k)', Calls) <= SumFunctionOnSet(Claim(k), Calls)
  <2> DEFINE f == Claim(k)'
  <2>1. \A r \in Calls : f[r] \in Nat /\ Claim(k)[r] \in Nat /\ f[r] <= Claim(k)[r]
    BY <1>3
  <2> HIDE DEF f
  <2>2. SumFunctionOnSet(f, Calls) <= SumFunctionOnSet(Claim(k), Calls)
    BY <1>2, <2>1, SumOfLess
  <2>3. QED
    BY <2>2 DEF f
<1>8. SumFunctionOnSet(Claim(k)', Calls) \in Nat /\ SumFunctionOnSet(Claim(k), Calls) \in Nat
  <2> DEFINE f == Claim(k)'
  <2>1. \A r \in Calls : f[r] \in Nat /\ Claim(k)[r] \in Nat
    BY <1>3
  <2> HIDE DEF f
  <2>2. SumFunctionOnSet(f, Calls) \in Nat /\ SumFunctionOnSet(Claim(k), Calls) \in Nat
    BY <1>2, <2>1, SumType
  <2>3. QED
    BY <2>2 DEF f
<1>9. QED
  BY <1>2, <1>4, <1>5, <1>6, <1>7, <1>8

\* A step after which one reservation may claim more: what the caps were checked for.
LEMMA ClaimsOfOne ==
  ASSUME TypeOK, Ownership, Charging, Stamps, ClaimsWithinCap, TypeOK', Ownership', Charging',
         NEW k \in MasterKey, NEW r \in Calls, NEW amount \in Nat, NEW time \in Nat,
         time <= now, NEW excluded \in SUBSET {r},
         withinLimits(k, amount, Home, time, excluded),
         Claim(k)'[r] <= amount,
         \A j \in MasterKey, d \in Calls :
           j # k \/ d # r => Claim(j)'[d] <= Claim(j)[d]
  PROVE  ClaimsWithinCap'
<1>1. SUFFICES ASSUME NEW j \in MasterKey, NEW w \in Window, Length[w] >= MaxTime,
                      Home \in DOMAIN Limits[w]
               PROVE  SumFunction(Claim(j)') <= Limits[w][Home]
  BY DEF ClaimsWithinCap
<1>2. Calls \in SUBSET Ids /\ IsFiniteSet(Ids) /\ Limits[w][Home] \in Nat
  BY <1>1, WalletAssumption, LedgerAssumption
<1>3. \A d \in Calls : Claim(j)[d] \in Nat /\ Claim(j)'[d] \in Nat
  <2>1. \A d \in Calls : Claim(j)[d] \in Nat
    BY ClaimTyped
  <2>2. \A d \in Calls : Claim(j)'[d] \in Nat
    BY ClaimsStayNat
  <2>3. QED
    BY <2>1, <2>2
<1>4. SumFunction(Claim(j)) <= Limits[w][Home]
  BY <1>1 DEF ClaimsWithinCap
<1>5. SumFunction(Claim(j)) = SumFunctionOnSet(Claim(j), Calls)
  BY ClaimsSum
<1>6. SumFunction(Claim(j)') = SumFunctionOnSet(Claim(j)', Calls)
  BY DEF SumFunction, Claim
<1> DEFINE f == Claim(j)'
<1>7. \A d \in Calls : f[d] \in Nat /\ (j # k \/ d # r => f[d] <= Claim(j)[d])
  BY <1>3
<1>8. SumFunctionOnSet(f, Calls) <= Limits[w][Home]
  <2>1. CASE j # k
    <3> HIDE DEF f
    <3>1. SumFunctionOnSet(f, Calls) <= SumFunctionOnSet(Claim(j), Calls)
      BY <1>2, <1>3, <1>7, <2>1, SumOfLess
    <3>2. SumFunctionOnSet(f, Calls) \in Nat /\ SumFunctionOnSet(Claim(j), Calls) \in Nat
      BY <1>2, <1>3, <1>7, SumType
    <3>3. QED
      BY <1>2, <1>4, <1>5, <3>1, <3>2
  <2>2. CASE j = k
    <3>1. f[r] <= amount /\ f[r] \in Nat
      BY <1>7, <2>2
    <3> HIDE DEF f
    <3>2. SumFunctionOnSet(f, Calls) = f[r] + SumFunctionOnSet(f, Calls \ {r})
      BY <1>2, <1>7, SumTakesOut
    <3>3. Calls \ {r} \in SUBSET Ids
      BY <1>2
    <3>4. SumFunctionOnSet(f, Calls \ {r}) <= SumFunctionOnSet(Claim(j), Calls \ {r})
      BY <1>2, <1>3, <1>7, <3>3, SumOfLess
    <3>5. /\ SumFunctionOnSet(f, Calls \ {r}) \in Nat
          /\ SumFunctionOnSet(Claim(j), Calls \ {r}) \in Nat
      BY <1>2, <1>3, <1>7, <3>3, SumType
    <3>6. time <= MaxTime
      BY WalletAssumption DEF TypeOK, WorldOK
    <3>7. SumFunctionOnSet(Claim(k), Calls \ {r}) + amount <= Limits[w][Home]
      BY <1>1, <3>6, CapCheck
    <3>8. QED
      BY <1>2, <2>2, <3>1, <3>2, <3>4, <3>5, <3>7
  <2>3. QED
    BY <2>1, <2>2
<1>9. QED
  BY <1>6, <1>8

\* What may become of entry e of reservation r without a look at the caps.
Lesser(e, f, r) ==
  \/ f = e
  \/ r \in shared
  \/ f.status \notin Active \cup {"captured"}
  \/ f.currency # Home
  \/ /\ f.status = "captured"
     /\ r \in order[KeyOf[r]].by =>
          e.status \in Active \cup {"captured"} /\ e.currency = f.currency
  \/ /\ e.status \in Active /\ f.status \in Active
     /\ f.amount = e.amount /\ f.currency = e.currency

LEMMA ClaimOfLesser ==
  ASSUME TypeOK, Ownership, Charging, NEW k \in MasterKey, NEW r \in Calls,
         Lesser(book[k][r], book'[k][r], r), order'[KeyOf[r]] = order[KeyOf[r]],
         shared \subseteq shared'
  PROVE  Claim(k)'[r] <= Claim(k)[r]
<1> DEFINE e == book[k][r]
           f == book'[k][r]
           o == order[KeyOf[r]]
<1>1. Claim(k)[r] = ClaimOf(e, r, o, shared) /\ Claim(k)'[r] = ClaimOf(f, r, o, shared')
  BY DEF Claim
<1>2. Claim(k)[r] \in Nat /\ o.total \in Nat
  BY ClaimTyped DEF TypeOK, WorldOK, Keys, Order
<1>3. \/ ClaimOf(f, r, o, shared') = 0
      \/ ClaimOf(f, r, o, shared') = ClaimOf(e, r, o, shared)
  <2>1. "captured" \notin Active
    BY DEF Active
  <2>2. QED
    BY <2>1 DEF Lesser, ClaimOf
<1>4. QED
  BY <1>1, <1>2, <1>3

LEMMA ClaimOfBooking ==
  ASSUME TypeOK, Ownership, Charging, NEW c \in Calls, NEW e, NEW q, Booking(c, e, q),
         pc[c] # "reserve", pc[c] # "adjust" \/ q # "token"
  PROVE  Lesser(Mine(c), e, res[c])
<1>1. /\ Holds(c) => Mine(c) \in Row /\ Mine(c).status \in Active
      /\ Mine(c).status = "pending" => Mine(c) \in Row /\ Mine(c).status \in Active
      /\ Mine(c).status = "pending_escalated" => Mine(c) \in Row /\ Mine(c).status \in Active
      /\ handle[c] \in MasterKey /\ res[c] \in Calls
  BY MineTyped
<1>2. \A why : Mine(c) \in Row => ReleasedAs(Mine(c), why).status = "released"
  BY ReleasedIs
<1>3. "released" \notin Active \cup {"captured"} /\ "pending_escalated" \in Active
      /\ "captured" \notin Active
  BY DEF Active
<1>4. CASE \E why : e = ReleasedAs(Mine(c), why) /\ Mine(c) \in Row
  BY <1>2, <1>3, <1>4 DEF Lesser
<1>5. CASE pc[c] = "record"
  <2>1. res[c] = c /\ Mine(c) = Unknown
    BY <1>5, BookingNew
  <2>2. e.status = "captured"
    BY <1>5 DEF Booking, Opening
  <2>3. c \in order[KeyOf[c]].by \ shared => Made(c) # Unknown
    BY DEF Charging, Covered
  <2>4. Made(c) = Mine(c)
    BY <2>1 DEF Made, Mine
  <2>5. QED
    BY <2>1, <2>2, <2>3, <2>4 DEF Lesser
<1>6. CASE pc[c] = "escalate"
  BY <1>1, <1>3, <1>6 DEF Booking, Lesser, Row
<1>7. CASE pc[c] = "shadow"
  BY <1>1, <1>3, <1>7 DEF Booking, Lesser, Row
<1>8. CASE pc[c] = "settle"
  <2>1. /\ e = SettledAs(Mine(c), Receipt(c), at[c])
        /\ Mine(c) \in Row /\ Mine(c).status \in Active
    BY <1>1, <1>8 DEF Booking
  <2>2. /\ \A r \in Row : \A paid, time : SettledAs(r, paid, time).status = "captured"
        /\ \A r \in Row : \A paid, time : SettledAs(r, paid, time).currency = paid.currency
    BY SettledIs
  <2>3. e.status = "captured" /\ e.currency = Receipt(c).currency
    <3>1. e.status = "captured"
      BY <2>1, <2>2, Zenon
    <3>2. e.currency = Receipt(c).currency
      BY <2>1, <2>2, Zenon
    <3>3. QED
      BY <3>1, <3>2
  <2>4. Receipt(c).currency = TheOrder(c).currency
    BY DEF Receipt
  <2>5. Made(res[c]) = Mine(c)
    BY <1>8 DEF Ownership, SameKey, Working, Made, Mine
  <2>6. res[c] \in order[KeyOf[res[c]]].by \ shared => Mine(c).currency = order[KeyOf[res[c]]].currency
    BY <1>1, <2>5 DEF Charging, Covered
  <2>7. QED
    BY <2>1, <2>3, <2>4, <2>6 DEF Lesser, TheOrder
<1>9. CASE pc[c] \notin {"record", "escalate", "shadow", "settle"}
  <2>1. \E why : e = ReleasedAs(Mine(c), why) /\ Mine(c) \in Row
    BY <1>1, <1>9 DEF Booking
  <2>2. QED
    BY <1>4, <2>1
<1>10. QED
  BY <1>5, <1>6, <1>7, <1>8, <1>9

\* A ledger operation of a call: only opening a reservation, and lowering it to
\* the total, may claim more, and both look at the caps.
LEMMA ClaimsOfBooks ==
  ASSUME TypeOK, Ownership, Charging, Stamps, ClaimsWithinCap, TypeOK', Ownership', Charging',
         NEW c \in Calls, NEW e, NEW q, Books(c, e, q)
  PROVE  ClaimsWithinCap'
<1>0. PICK k \in MasterKey, r \in Calls : k = handle[c] /\ r = res[c]
  BY DEF TypeOK, CallsOK
<1>1. /\ k \in MasterKey /\ r \in Calls /\ r \in Ids /\ Calls \subseteq Ids
      /\ Price[c] \in Nat /\ quote[c] \in Nat /\ at[c] \in Nat /\ at[c] <= now
  BY WalletAssumption DEF TypeOK, CallsOK, Stamps
<1>2. order' = order /\ Booking(c, e, q) /\ shared \subseteq shared'
  BY DEF Books, Only, To
<1>3. \A j \in MasterKey, d \in Calls : j # k \/ d # r => book'[j][d] = book[j][d]
  BY <1>0, <1>1 DEF Books, Turned
<1>4. book'[k][r] = e \/ book'[k][r] = Mine(c)
  BY <1>0 DEF Books, Turned
<1>5. Mine(c) = book[k][r]
  BY <1>0 DEF Mine
<1>6. \A j \in MasterKey, d \in Calls : j # k \/ d # r => Claim(j)'[d] <= Claim(j)[d]
  <2>1. ASSUME NEW j \in MasterKey, NEW d \in Calls, j # k \/ d # r
        PROVE  Claim(j)'[d] <= Claim(j)[d]
    <3>1. Lesser(book[j][d], book'[j][d], d)
      BY <1>3, <2>1 DEF Lesser
    <3>2. QED
      BY <1>2, <3>1, ClaimOfLesser
  <2>2. QED
    BY <2>1
<1>7. ASSUME Lesser(Mine(c), book'[k][r], r)
      PROVE  ClaimsWithinCap'
  <2>1. Claim(k)'[r] <= Claim(k)[r]
    BY <1>1, <1>2, <1>5, <1>7, ClaimOfLesser
  <2>2. \A j \in MasterKey, d \in Calls : Claim(j)'[d] <= Claim(j)[d]
    BY <1>6, <2>1
  <2>3. QED
    BY <2>2, ClaimsOfLess
<1>8. Claim(k)'[r] = ClaimOf(book'[k][r], r, order[KeyOf[r]], shared')
  BY <1>1, <1>2 DEF Claim
<1>9. CASE book'[k][r] = Mine(c)
  BY <1>7, <1>9 DEF Lesser
<1>10. CASE book'[k][r] = e /\ pc[c] = "reserve"
  <2>1. /\ withinLimits(k, Price[c], Home, at[c], {}) /\ e.amount = Price[c]
        /\ e.status = "pending"
    BY <1>0, <1>2, <1>10 DEF Booking, Opening
  <2>2. r = c /\ Mine(c) = Unknown
    BY <1>0, <1>2, <1>10, BookingNew
  <2>3. r \notin order[KeyOf[r]].by \ shared
    <3>1. Made(c) = Unknown
      BY <1>0, <2>2 DEF Made, Mine
    <3>2. QED
      BY <2>2, <3>1 DEF Charging, Covered
  <2>4. Claim(k)'[r] <= Price[c]
    BY <1>1, <1>2, <1>8, <1>10, <2>1, <2>3 DEF ClaimOf
  <2>5. QED
    BY <1>1, <1>6, <2>1, <2>4, ClaimsOfOne
<1>11. CASE book'[k][r] = e /\ pc[c] = "adjust" /\ q = "token"
  <2>1. /\ withinLimits(k, quote[c], Mine(c).currency, at[c], {r})
        /\ Holds(c) /\ e = [Mine(c) EXCEPT !.amount = quote[c]]
    BY <1>0, <1>2, <1>11 DEF Booking
  <2>2. Mine(c) \in Row /\ e.amount = quote[c] /\ e.currency = Mine(c).currency
    BY <2>1, MineTyped DEF Row
  <2>3. CASE e.currency # Home
    BY <1>7, <1>11, <2>3 DEF Lesser
  <2>4. CASE e.currency = Home
    <3>1. r \in order[KeyOf[r]].by \ shared => order[KeyOf[r]].total = quote[c]
      BY <1>0, <1>11 DEF Charging, Told, TheOrder
    <3>2. Claim(k)'[r] <= quote[c]
      BY <1>1, <1>2, <1>8, <1>11, <2>2, <3>1 DEF ClaimOf
    <3>3. withinLimits(k, quote[c], Home, at[c], {r})
      BY <2>1, <2>2, <2>4
    <3>4. QED
      BY <1>1, <1>6, <3>2, <3>3, ClaimsOfOne
  <2>5. QED
    BY <2>3, <2>4
<1>12. CASE book'[k][r] = e /\ pc[c] # "reserve" /\ (pc[c] # "adjust" \/ q # "token")
  BY <1>0, <1>2, <1>7, <1>12, ClaimOfBooking
<1>13. QED
  BY <1>4, <1>9, <1>10, <1>11, <1>12

\* A merchant charges no more than the reservation the token was made for.
LEMMA ClaimsOfOrder ==
  ASSUME TypeOK, Ownership, Charging, ClaimsWithinCap, TypeOK', Ownership', Charging',
         NEW c \in Calls, NEW o \in Order, NEW q, OrderMove(c, o, q)
  PROVE  ClaimsWithinCap'
<1>1. /\ res[c] \in Calls /\ KeyOf[res[c]] \in Keys /\ handle[c] \in MasterKey
      /\ TheOrder(c) = order[KeyOf[res[c]]]
  BY MineTyped DEF TheOrder
<1>2. /\ order' = [order EXCEPT ![KeyOf[res[c]]] = o] /\ book' = book
      /\ pc[c] \in {"create", "update", "complete"} /\ shared \subseteq shared'
  BY DEF OrderMove
<1>3. \A d \in Calls : KeyOf[d] \in Keys /\ order'[KeyOf[d]] =
        IF KeyOf[d] = KeyOf[res[c]] THEN o ELSE order[KeyOf[d]]
  BY <1>2 DEF TypeOK, WorldOK, Keys
<1>4. TheOrder(c).state # "charged" => TheOrder(c).by = {}
  BY <1>1 DEF Charging, Payers
<1>5. ASSUME NEW k \in MasterKey, NEW d \in Calls
      PROVE  Claim(k)'[d] <= Claim(k)[d]
  <2> DEFINE e == book[k][d]
  <2>1. /\ Claim(k)[d] = ClaimOf(e, d, order[KeyOf[d]], shared)
        /\ Claim(k)'[d] = ClaimOf(e, d, order'[KeyOf[d]], shared')
    BY <1>2 DEF Claim
  <2>2. Claim(k)[d] \in Nat
    BY ClaimTyped
  <2>7. CASE d \in shared'
    BY <2>1, <2>2, <2>7 DEF ClaimOf
  <2>8. d \notin shared' => d \notin shared
    BY <1>2
  <2>3. CASE d \notin shared' /\ order'[KeyOf[d]] = order[KeyOf[d]]
    BY <2>1, <2>2, <2>3, <2>8 DEF ClaimOf
  <2>4. CASE d \notin shared' /\ order'[KeyOf[d]].by = {} /\ order[KeyOf[d]].by = {}
    <3>1. ClaimOf(e, d, order'[KeyOf[d]], shared') = ClaimOf(e, d, order[KeyOf[d]], shared)
      BY <2>4, <2>8 DEF ClaimOf
    <3>2. QED
      BY <2>1, <2>2, <3>1
  <2>5. CASE /\ d \notin shared' /\ KeyOf[d] = KeyOf[res[c]] /\ pc[c] = "complete"
             /\ TheOrder(c).state = "open" /\ TheOrder(c).total = quote[c]
             /\ o = [TheOrder(c) EXCEPT !.state = "charged", !.by = {res[c]}]
    <3>1. o.by = {res[c]} /\ o.total = quote[c] /\ order'[KeyOf[d]] = o
          /\ order[KeyOf[d]].by = {}
      BY <1>1, <1>3, <1>4, <2>5, MineTyped DEF Order
    <3>2. CASE d # res[c]
      <4>1. ClaimOf(e, d, order'[KeyOf[d]], shared') = ClaimOf(e, d, order[KeyOf[d]], shared)
        BY <2>5, <2>8, <3>1, <3>2 DEF ClaimOf
      <4>2. QED
        BY <2>1, <2>2, <4>1
    <3>3. CASE d = res[c] /\ e = Unknown
      <4>1. ClaimOf(e, d, order'[KeyOf[d]], shared') = 0
        BY <3>3, UnknownIs DEF ClaimOf, Unknown
      <4>2. QED
        BY <2>1, <2>2, <4>1
    <3>4. CASE d = res[c] /\ e # Unknown
      <4>1. k = handle[c]
        BY <2>5, <3>4 DEF Ownership, Owned, SameKey, Working
      <4>2. e = Mine(c)
        BY <3>4, <4>1 DEF Mine
      <4>3. /\ e.status \in Active => e.amount >= quote[c]
            /\ e.status # "captured"
        BY <2>5, <2>8, <3>4, <4>2 DEF Charging, Backed
      <4>4. e \in Row /\ e.amount \in Nat /\ quote[c] \in Nat
        BY <3>4, <4>2, MineTyped DEF Row, TypeOK, CallsOK
      <4>5. QED
        BY <2>1, <2>2, <2>5, <2>8, <3>1, <3>4, <4>3, <4>4 DEF ClaimOf
    <3>5. QED
      BY <3>2, <3>3, <3>4
  <2>6. QED
    BY <1>1, <1>3, <1>4, <2>3, <2>4, <2>5, <2>7 DEF OrderMove
<1>6. QED
  BY <1>5, ClaimsOfLess

LEMMA ClaimsStep ==
  ASSUME TypeOK, Ownership, Charging, Stamps, ClaimsWithinCap, Next
  PROVE  ClaimsWithinCap'
<1>1. TypeOK' /\ Ownership' /\ Charging'
  BY TypeStep, OwnershipStep, ChargingStep DEF Ownership
<1>2. ASSUME order' = order, shared \subseteq shared',
             \A k \in MasterKey, r \in Calls : Lesser(book[k][r], book'[k][r], r)
      PROVE  ClaimsWithinCap'
  <2>1. \A k \in MasterKey, r \in Calls : Claim(k)'[r] <= Claim(k)[r]
    BY <1>2, ClaimOfLesser
  <2>2. QED
    BY <1>1, <2>1, ClaimsOfLess
<1>3. ASSUME NEW k \in MasterKey, Imports(k) \/ Expires(k) \/ book' = book, order' = order,
             shared \subseteq shared'
      PROVE  ClaimsWithinCap'
  <2>1. ASSUME NEW j \in MasterKey, NEW r \in Calls
        PROVE  Lesser(book[j][r], book'[j][r], r)
    <3>1. r \in Ids /\ r \notin DOMAIN Legacy
      BY WalletAssumption
    <3>2. CASE book'[j][r] = book[j][r]
      BY <3>2 DEF Lesser
    <3>3. CASE /\ book[j][r].status = "pending_escalated"
               /\ book'[j][r] = ReleasedAs(book[j][r], "resume_expired")
      <4>1. book[j][r] \in Row
        BY <3>1, <3>3, UnknownIs DEF TypeOK, FileOK, Active
      <4>2. book'[j][r].status = "released"
        BY <3>3, <4>1, ReleasedIs
      <4>3. QED
        BY <4>2 DEF Lesser, Active
    <3>4. QED
      BY <1>3, <3>1, <3>2, <3>3 DEF Imports, Expires
  <2>2. QED
    BY <1>2, <1>3, <2>1
<1>4. vaultKey \in MasterKey
  BY DEF TypeOK, WorldOK
<1>5. ASSUME NEW c \in Calls, Opened(c)
      PROVE  ClaimsWithinCap'
  BY <1>3, <1>4, <1>5 DEF Opened, To
<1>6. ASSUME NEW c \in Calls, Crashed(c)
      PROVE  ClaimsWithinCap'
  BY <1>3, <1>4, <1>6 DEF Crashed
<1>7. ASSUME NEW c \in Calls, NEW e, NEW q, Books(c, e, q)
      PROVE  ClaimsWithinCap'
  BY <1>1, <1>7, ClaimsOfBooks
<1>8. ASSUME NEW r \in Calls, NEW e, Reconciled(r, e)
      PROVE  ClaimsWithinCap'
  <2>1. /\ book[vaultKey][r] \in Row /\ book[vaultKey][r].status \in Active
        /\ Reconciling(r, e) /\ order' = order /\ r \in Ids
        /\ shared' = shared
    BY <1>8, WalletAssumption DEF Reconciled
  <2>2. Lesser(book[vaultKey][r], e, r)
    <3>1. CASE e = ReleasedAs(book[vaultKey][r], "reconciled_release")
      <4>1. e.status = "released"
        BY <2>1, <3>1, ReleasedIs
      <4>2. QED
        BY <4>1 DEF Lesser, Active
    <3>2. CASE e = SettledAs(book[vaultKey][r],
                             [total |-> order[KeyOf[r]].total,
                              currency |-> order[KeyOf[r]].currency], now)
      <4>1. e.status = "captured" /\ e.currency = order[KeyOf[r]].currency
        BY <2>1, <3>2, SettledIs
      <4>2. Made(r) = book[vaultKey][r]
        BY <1>4, <2>1, Rows DEF Ownership, Owned, Made
      <4>3. r \in order[KeyOf[r]].by \ shared =>
              book[vaultKey][r].currency = order[KeyOf[r]].currency
        BY <4>2 DEF Charging, Covered
      <4>4. QED
        BY <2>1, <4>1, <4>3 DEF Lesser
    <3>3. QED
      BY <2>1, <3>1, <3>2 DEF Reconciling
  <2>3. ASSUME NEW j \in MasterKey, NEW d \in Calls
        PROVE  Lesser(book[j][d], book'[j][d], d)
    <3>1. CASE book'[j][d] = book[j][d]
      BY <3>1 DEF Lesser
    <3>2. CASE j = vaultKey /\ d = r /\ book'[j][d] = e
      BY <2>2, <3>2
    <3>3. d \in Ids
      BY WalletAssumption
    <3>4. QED
      BY <1>8, <3>1, <3>2, <3>3 DEF Reconciled, Turned
  <2>4. QED
    BY <1>2, <2>1, <2>3
<1>9. ASSUME NEW c \in Calls, Create(c) \/ Update(c) \/ Complete(c)
      PROVE  ClaimsWithinCap'
  BY <1>1, <1>9, CreateMoves, UpdateMoves, CompleteMoves, ClaimsOfOrder
<1>10. ASSUME book' = book, order' = order, shared \subseteq shared'
       PROVE  ClaimsWithinCap'
  BY <1>3, <1>4, <1>10
<1>11. ASSUME NEW c \in Calls, NEW q, Leaves(c, q), book' = book
       PROVE  ClaimsWithinCap'
  BY <1>10, <1>11 DEF Leaves, Only, To, worldVars
<1>12. QED
  BY <1>5, <1>6, <1>7, <1>8, <1>9, <1>10, <1>11, BookSteps

LEMMA ClaimsInit ==
  ASSUME Init
  PROVE  ClaimsWithinCap
<1>1. SUFFICES ASSUME NEW k \in MasterKey, NEW w \in Window, Home \in DOMAIN Limits[w]
               PROVE  SumFunction(Claim(k)) <= Limits[w][Home]
  BY DEF ClaimsWithinCap
<1>2. Calls \in SUBSET Ids /\ IsFiniteSet(Ids) /\ Limits[w][Home] \in Nat
  BY <1>1, WalletAssumption, LedgerAssumption
<1>3. \A r \in Calls : Claim(k)[r] = 0
  BY <1>2, UnknownIs DEF Init, LedgerInit, Claim, ClaimOf, Unknown
<1>4. SumFunctionOnSet(Claim(k), Calls) = 0
  BY <1>2, <1>3, SumOfZeros
<1>5. SumFunction(Claim(k)) = SumFunctionOnSet(Claim(k), Calls)
  BY DEF SumFunction, Claim
<1>6. QED
  BY <1>2, <1>4, <1>5

LEMMA ClaimsAreCapped == Spec => []ClaimsWithinCap
<1>1. Init => ClaimsWithinCap
  BY ClaimsInit
<1>2. TypeOK /\ Ownership /\ Charging /\ Stamps /\ ClaimsWithinCap /\ [Next]_vars
        => ClaimsWithinCap'
  <2>1. UNCHANGED vars /\ ClaimsWithinCap => ClaimsWithinCap'
    BY DEF vars, ClaimsWithinCap, Claim, ClaimOf
  <2>2. QED
    BY <2>1, ClaimsStep
<1>3. QED
  BY <1>1, <1>2, Always, InTime, PTL DEF Spec

\* What merchants charged for calls that see one another's reservations, released
\* or not, is under every cap whose window reaches back to the start, but for the charges
\* that left the totals in one of the known ways (Lost): a call reserves, and is told its
\* total, under the caps (ledger.ts withinLimits in reserve and adjust), and the token it
\* pays with is for no more than it holds, whatever the other processes, the clock,
\* crashes and operators do in between.
THEOREM ChargesAreCapped == Spec => []ChargesWithinCap
<1>1. TypeOK /\ Ownership /\ Charging /\ ClaimsWithinCap => ChargesWithinCap
  <2>1. SUFFICES ASSUME TypeOK, Ownership, Charging, ClaimsWithinCap,
                        NEW k \in MasterKey, NEW w \in Window, Length[w] >= MaxTime,
                        Home \in DOMAIN Limits[w]
                 PROVE  SumFunction([r \in Paid(k) |-> order[KeyOf[r]].total])
                          <= Limits[w][Home]
    BY DEF ChargesWithinCap
  <2>2. Calls \in SUBSET Ids /\ IsFiniteSet(Ids) /\ Limits[w][Home] \in Nat
    BY <2>1, WalletAssumption, LedgerAssumption
  <2>3. Paid(k) \in SUBSET Calls /\ Paid(k) \in SUBSET Ids
    BY <2>2 DEF Paid
  <2>4. \A r \in Calls : Claim(k)[r] \in Nat
    BY <2>1, ClaimTyped
  <2>5. \A r \in Paid(k) : Claim(k)[r] = order[KeyOf[r]].total
    <3>1. ASSUME NEW r \in Paid(k)
          PROVE  Claim(k)[r] = order[KeyOf[r]].total
      <4>1. /\ r \in Calls /\ handle[r] = k /\ r \in order[KeyOf[r]].by
            /\ order[KeyOf[r]].currency = Home /\ ~Lost(r)
        BY DEF Paid
      <4>2. /\ r \notin shared /\ r \notin blind
            /\ Made(r).status = "released" =>
                 Made(r).why \notin {"resume_expired", "reconciled_release", "cap_exceeded"}
        BY <4>1 DEF Lost, ReleasedFor
      <4>3. Made(r) # Unknown /\ Made(r).currency = Home /\ Made(r).status # "released"
        BY <2>1, <4>1, <4>2 DEF Charging, Covered
      <4>4. Made(r) = book[k][r] /\ Made(r) \in Row
        BY <2>1, <4>1, <4>3, WalletAssumption DEF Made, TypeOK, FileOK
      <4>5. Made(r).status \in Active \cup {"captured"}
        BY <4>3, <4>4 DEF Row, Active
      <4>6. QED
        BY <4>1, <4>2, <4>3, <4>4, <4>5 DEF Claim, ClaimOf
    <3>2. QED
      BY <3>1
  <2>6. [r \in Paid(k) |-> order[KeyOf[r]].total] = [r \in Paid(k) |-> Claim(k)[r]]
    BY <2>5
  <2>7. SumFunction([r \in Paid(k) |-> Claim(k)[r]]) = SumFunctionOnSet(Claim(k), Paid(k))
    BY <2>2, <2>3, <2>4, SumIsOnDomain
  <2>8. SumFunctionOnSet(Claim(k), Paid(k)) <= SumFunctionOnSet(Claim(k), Calls)
    BY <2>2, <2>3, <2>4, SumGrows
  <2>9. SumFunctionOnSet(Claim(k), Calls) <= Limits[w][Home]
    BY <2>1, ClaimsSum DEF ClaimsWithinCap
  <2>10. /\ SumFunctionOnSet(Claim(k), Paid(k)) \in Nat
         /\ SumFunctionOnSet(Claim(k), Calls) \in Nat
    BY <2>2, <2>3, <2>4, SumType
  <2>11. QED
    BY <2>2, <2>6, <2>7, <2>8, <2>9, <2>10
<1>2. QED
  BY <1>1, Always, ClaimsAreCapped, PTL

-----------------------------------------------------------------------------
(* The ledger implements ReservationBook.                                  *)

\* What of a reservation the book shows.
Shown(r) ==
  IF r = Unknown THEN [status |-> "none"]
  ELSE [status |-> r.status, amount |-> r.amount,
        currency |-> r.currency, stamp |-> r.settled]

LEMMA EntryIs ==
  /\ Entry(0) = [i \in Ids |-> Shown(book[0][i])]
  /\ Entry(0)' = [i \in Ids |-> Shown(book'[0][i])]
BY DEF Entry, Shown, reservationTimestamp

LEMMA ShownIs ==
  ASSUME NEW r \in Row
  PROVE  /\ Shown(r).status = r.status /\ Shown(r).amount = r.amount
         /\ Shown(r).currency = r.currency /\ Shown(r).stamp = r.settled
         /\ Shown(Unknown) = [status |-> "none"]
         /\ \A why : Shown(ReleasedAs(r, why)) = [Shown(r) EXCEPT !.status = "released"]
         /\ \A n : Shown([r EXCEPT !.amount = n]) = [Shown(r) EXCEPT !.amount = n]
         /\ \A n : Shown([r EXCEPT !.status = "pending_escalated", !.expires = n])
                     = [Shown(r) EXCEPT !.status = "pending_escalated"]
         /\ Shown([r EXCEPT !.shadow = TRUE]) = Shown(r)
         /\ \A paid, time : /\ Shown(SettledAs(r, paid, time)).status = "captured"
                            /\ Shown(SettledAs(r, paid, time)).stamp = time
<1>1. r # Unknown
  BY Rows
<1>2. Shown(r) = [status |-> r.status, amount |-> r.amount,
                  currency |-> r.currency, stamp |-> r.settled]
  BY <1>1 DEF Shown
<1>3. ASSUME NEW why
      PROVE  Shown(ReleasedAs(r, why)) = [Shown(r) EXCEPT !.status = "released"]
  BY <1>2, ReleasedIs DEF Shown
<1>4. ASSUME NEW n
      PROVE  Shown([r EXCEPT !.amount = n]) = [Shown(r) EXCEPT !.amount = n]
  <2> DEFINE e == [r EXCEPT !.amount = n]
  <2>1. /\ e.status = r.status /\ e.amount = n /\ e.currency = r.currency
        /\ e.settled = r.settled /\ e # Unknown
    BY DEF Row, Unknown
  <2> HIDE DEF e
  <2>2. Shown(e) = [status |-> r.status, amount |-> n, currency |-> r.currency,
                    stamp |-> r.settled]
    BY <2>1 DEF Shown
  <2>3. QED
    BY <1>2, <2>2 DEF e
<1>5. ASSUME NEW n
      PROVE  Shown([r EXCEPT !.status = "pending_escalated", !.expires = n])
               = [Shown(r) EXCEPT !.status = "pending_escalated"]
  <2> DEFINE e == [r EXCEPT !.status = "pending_escalated", !.expires = n]
  <2>1. /\ e.status = "pending_escalated" /\ e.amount = r.amount /\ e.currency = r.currency
        /\ e.settled = r.settled /\ e # Unknown
    BY DEF Row, Unknown
  <2> HIDE DEF e
  <2>2. Shown(e) = [status |-> "pending_escalated", amount |-> r.amount,
                    currency |-> r.currency, stamp |-> r.settled]
    BY <2>1 DEF Shown
  <2>3. QED
    BY <1>2, <2>2 DEF e
<1>6. Shown([r EXCEPT !.shadow = TRUE]) = Shown(r)
  <2> DEFINE e == [r EXCEPT !.shadow = TRUE]
  <2>1. /\ e.status = r.status /\ e.amount = r.amount /\ e.currency = r.currency
        /\ e.settled = r.settled /\ e # Unknown
    BY DEF Row, Unknown
  <2> HIDE DEF e
  <2>2. Shown(e) = Shown(r)
    BY <1>1, <2>1 DEF Shown
  <2>3. QED
    BY <2>2 DEF e
<1>7. ASSUME NEW paid, NEW time
      PROVE  /\ Shown(SettledAs(r, paid, time)).status = "captured"
             /\ Shown(SettledAs(r, paid, time)).stamp = time
  BY SettledIs DEF Shown
<1>8. Shown(Unknown) = [status |-> "none"]
  BY DEF Shown
<1>9. /\ Shown(r).status = r.status /\ Shown(r).amount = r.amount
      /\ Shown(r).currency = r.currency /\ Shown(r).stamp = r.settled
  BY <1>2
<1>10. QED
  BY <1>3, <1>4, <1>5, <1>6, <1>7, <1>8, <1>9, Zenon

\* What a row does to its reservation, as a move of the book.
LEMMA ShownMoves ==
  ASSUME NEW r \in Row, r.status \in Active
  PROVE  /\ \A why : Book!Release(Shown(r), Shown(ReleasedAs(r, why)))
         /\ \A n \in Nat : n <= r.amount
              => Book!Lower(Shown(r), Shown([r EXCEPT !.amount = n]))
         /\ \A n : r.status = "pending"
              => Book!Escalate(Shown(r), Shown([r EXCEPT !.status = "pending_escalated",
                                                         !.expires = n]))
         /\ \A paid : \A time \in Nat : r.settled <= time
              => Book!Capture(Shown(r), Shown(SettledAs(r, paid, time)))
<1>1. /\ Shown(r).status = r.status /\ Shown(r).amount = r.amount
      /\ Shown(r).stamp = r.settled /\ Shown(r).status \in Book!Active
      /\ r.settled \in Nat
      /\ Shown(r) = [status |-> r.status, amount |-> r.amount,
                     currency |-> r.currency, stamp |-> r.settled]
  BY ShownIs, Rows DEF Active, Book!Active, Row, Shown
<1>2. ASSUME NEW why
      PROVE  Book!Release(Shown(r), Shown(ReleasedAs(r, why)))
  <2>1. Shown(ReleasedAs(r, why)) = [Shown(r) EXCEPT !.status = "released"]
    BY ShownIs
  <2>2. QED
    BY <1>1, <2>1 DEF Book!Release
<1>3. ASSUME NEW n \in Nat, n <= r.amount
      PROVE  Book!Lower(Shown(r), Shown([r EXCEPT !.amount = n]))
  <2> DEFINE f == Shown([r EXCEPT !.amount = n])
  <2>1. f = [Shown(r) EXCEPT !.amount = n]
    BY ShownIs
  <2> HIDE DEF f
  <2>2. f.amount = n
    BY <1>1, <2>1
  <2>3. Book!Lower(Shown(r), f)
    BY <1>1, <1>3, <2>1, <2>2 DEF Book!Lower
  <2>4. QED
    BY <2>3 DEF f
<1>4. ASSUME NEW n, r.status = "pending"
      PROVE  Book!Escalate(Shown(r), Shown([r EXCEPT !.status = "pending_escalated",
                                                     !.expires = n]))
  <2> DEFINE f == Shown([r EXCEPT !.status = "pending_escalated", !.expires = n])
  <2>1. f = [Shown(r) EXCEPT !.status = "pending_escalated"]
    BY ShownIs
  <2> HIDE DEF f
  <2>2. Book!Escalate(Shown(r), f)
    BY <1>1, <1>4, <2>1 DEF Book!Escalate
  <2>3. QED
    BY <2>2 DEF f
<1>5. ASSUME NEW paid, NEW time \in Nat, r.settled <= time
      PROVE  Book!Capture(Shown(r), Shown(SettledAs(r, paid, time)))
  <2>1. /\ Shown(SettledAs(r, paid, time)).status = "captured"
        /\ Shown(SettledAs(r, paid, time)).stamp = time
    BY SettledIs DEF Shown
  <2>2. QED
    BY <1>1, <1>5, <2>1 DEF Book!Capture
<1>6. QED
  BY <1>2, <1>3, <1>4, <1>5

\* One entry moves.
LEMMA OneEntry ==
  ASSUME NEW r \in Ids,
         \A i \in Ids : i # r => Shown(book'[0][i]) = Shown(book[0][i]),
         \/ Shown(book'[0][r]) = Shown(book[0][r])
         \/ /\ Book!Reserve(Shown(book[0][r]), Shown(book'[0][r]))
            /\ Book!Fits(Entry(0)', r)
         \/ Book!Lower(Shown(book[0][r]), Shown(book'[0][r]))
         \/ Book!Escalate(Shown(book[0][r]), Shown(book'[0][r]))
         \/ Book!Capture(Shown(book[0][r]), Shown(book'[0][r]))
         \/ Book!Release(Shown(book[0][r]), Shown(book'[0][r]))
         \/ Book!Import(Shown(book[0][r]), Shown(book'[0][r]))
  PROVE  Book!Next \/ Entry(0)' = Entry(0)
<1> DEFINE moved == {i \in Ids : Entry(0)'[i] # Entry(0)[i]}
<1>1. \A i \in Ids : Entry(0)[i] = Shown(book[0][i]) /\ Entry(0)'[i] = Shown(book'[0][i])
  BY EntryIs
<1>2. CASE Shown(book'[0][r]) = Shown(book[0][r])
  BY <1>2, EntryIs
<1>3. CASE Shown(book'[0][r]) # Shown(book[0][r])
  <2>1. moved = {r}
    BY <1>1, <1>3
  <2>2. QED
    BY <1>1, <1>3, <2>1 DEF Book!Next
<1>4. QED
  BY <1>2, <1>3

\* Several at once.
LEMMA ManyEntries ==
  ASSUME \/ \A i \in Ids : \/ Shown(book'[0][i]) = Shown(book[0][i])
                           \/ Book!Release(Shown(book[0][i]), Shown(book'[0][i]))
         \/ \A i \in Ids : \/ Shown(book'[0][i]) = Shown(book[0][i])
                           \/ Book!Import(Shown(book[0][i]), Shown(book'[0][i]))
  PROVE  Book!Next
<1>1. \A i \in Ids : Entry(0)[i] = Shown(book[0][i]) /\ Entry(0)'[i] = Shown(book'[0][i])
  BY EntryIs
<1>2. QED
  BY <1>1 DEF Book!Next

\* The book sums as the ledger does.
LEMMA BookSums ==
  ASSUME NEW f
  PROVE  Book!SumFunction(f) = SumFunction(f)
BY DEF Book!SumFunction, Book!SumFunctionOnSet, Book!FoldFunctionOnSet, Book!MapThenFoldSet,
       SumFunction, SumFunctionOnSet, FoldFunctionOnSet, MapThenFoldSet

\* A reservation that withinLimits let through fits under every cap of the book.
LEMMA ReserveFits ==
  ASSUME TypeOK, NEW r \in Calls, NEW amount \in Nat, NEW time \in Nat,
         book[0][r] = Unknown, Turned(0, r, Opening("pending", amount, time)),
         withinLimits(0, amount, Home, time, {})
  PROVE  Book!Fits(Entry(0)', r)
<1> DEFINE f == Entry(0)'
<1>1. /\ 0 \in MasterKey /\ r \in Ids /\ IsFiniteSet(Ids)
      /\ Length \in [Window -> Nat]
  BY WalletAssumption, LedgerAssumption
<1>2. \A i \in Ids : f[i] = Shown(book'[0][i])
  BY EntryIs
<1>3. f[r] = [status |-> "pending", amount |-> amount, currency |-> Home, stamp |-> time]
  <2>1. Opening("pending", amount, time) \in Row
    BY OpeningIsRow
  <2>2. Opening("pending", amount, time) # Unknown
    BY <2>1, Rows
  <2>3. book'[0][r] = Opening("pending", amount, time)
    BY DEF Turned
  <2>4. QED
    BY <1>1, <1>2, <2>2, <2>3 DEF Shown, Opening
<1>4. \A i \in Ids \ {r} : f[i] = Shown(book[0][i])
  BY <1>1, <1>2 DEF Turned
<1> HIDE DEF f
<1>5. SUFFICES ASSUME NEW w \in Window, Home \in DOMAIN Limits[w]
               PROVE  Book!Sum(f, Home, time - Length[w]) <= Limits[w][Home]
  BY <1>3 DEF Book!Fits, f
<1> DEFINE from == time - Length[w]
           P == Counting(0, Home, Active, from, {})
           C == Counting(0, Home, {"captured"}, from, {})
           counted == {i \in Ids : /\ f[i].status \in Book!Counted
                                   /\ f[i].currency = Home
                                   /\ f[i].stamp >= from}
           g == [i \in Ids |-> f[i].amount]
<1>6. /\ P \in SUBSET Ids /\ C \in SUBSET Ids
      /\ \A i \in P \cup C : /\ book[0][i] \in Row /\ Amount(0)[i] \in Nat
                             /\ Amount(0)[i] = book[0][i].amount
      /\ Spent(0, Home, Active, from, {}) = SumFunctionOnSet(Amount(0), P)
      /\ Spent(0, Home, {"captured"}, from, {}) = SumFunctionOnSet(Amount(0), C)
      /\ Spent(0, Home, Active, from, {}) \in Nat
      /\ Spent(0, Home, {"captured"}, from, {}) \in Nat
      /\ Spent(0, Home, {"pending_escalated"}, from, {}) \in Nat
  <2>1. /\ Active \in SUBSET (Active \cup {"captured"})
        /\ {"captured"} \in SUBSET (Active \cup {"captured"})
        /\ {"pending_escalated"} \in SUBSET (Active \cup {"captured"})
    BY DEF Active
  <2> HIDE DEF from
  <2>2. QED
    BY <1>1, <2>1, CountingTyped
<1>7. Spent(0, Home, Active, from, {}) + Spent(0, Home, {"pending_escalated"}, from, {})
        + Spent(0, Home, {"captured"}, from, {}) + amount <= Limits[w][Home]
  BY <1>5 DEF withinLimits, usageForWindow
<1>8. r \notin P \cup C /\ P \cap C = {}
  BY UnknownIs DEF Counting, Active, Unknown
<1>9. counted = (P \cup C) \cup {r}
  <2>1. r \in counted
    <3>1. time >= from
      BY <1>1
    <3>2. QED
      BY <1>1, <1>3, <3>1 DEF Book!Counted, Book!Active
  <2>2. ASSUME NEW i \in Ids, i # r
        PROVE  i \in counted <=> i \in P \cup C
    <3>1. f[i] = Shown(book[0][i])
      BY <1>4, <2>2
    <3>2. CASE book[0][i] = Unknown
      <4>1. f[i].status = "none"
        BY <3>1, <3>2 DEF Shown
      <4>2. i \notin counted
        BY <4>1 DEF Book!Counted, Book!Active
      <4>3. i \notin P \cup C
        BY <3>2 DEF Counting, Active, Unknown
      <4>4. QED
        BY <4>2, <4>3
    <3>3. CASE book[0][i] # Unknown
      <4>1. /\ f[i].status = book[0][i].status /\ f[i].currency = book[0][i].currency
            /\ f[i].stamp = book[0][i].settled
        BY <3>1, <3>3 DEF Shown
      <4>2. QED
        BY <2>2, <4>1 DEF Counting, Book!Counted, Book!Active, Active, reservationTimestamp
    <3>4. QED
      BY <3>2, <3>3
  <2>3. counted \subseteq Ids /\ (P \cup C) \cup {r} \subseteq Ids
    BY <1>1, <1>6
  <2>4. \A i \in Ids : i \in counted <=> i \in (P \cup C) \cup {r}
    <3> HIDE DEF counted, P, C
    <3>1. QED
      BY <2>1, <2>2, <1>8
  <2> HIDE DEF counted, P, C
  <2>5. QED
    BY <2>3, <2>4
<1>10. \A i \in P \cup C : g[i] = Amount(0)[i]
  <2>1. ASSUME NEW i \in P \cup C
        PROVE  g[i] = Amount(0)[i]
    <3>1. i \in Ids /\ i # r /\ book[0][i] \in Row /\ book[0][i] # Unknown
      BY <1>6, <1>8, Rows
    <3>2. f[i] = Shown(book[0][i])
      BY <1>4, <3>1
    <3>3. f[i].amount = book[0][i].amount
      BY <3>1, <3>2 DEF Shown
    <3>4. g[i] = f[i].amount
      BY <3>1
    <3>5. QED
      BY <1>6, <3>3, <3>4
  <2>2. QED
    BY <2>1
<1>11. g[r] = amount
  BY <1>1, <1>3
<1>12. Book!Sum(f, Home, from) = SumFunction([i \in counted |-> f[i].amount])
  BY BookSums DEF Book!Sum
<1>13. [i \in counted |-> f[i].amount] = [i \in counted |-> g[i]]
  OBVIOUS
<1> HIDE DEF from, P, C, counted, g
<1>14. \A i \in counted : g[i] \in Nat
  BY <1>6, <1>9, <1>10, <1>11
<1>15. counted \in SUBSET Ids /\ P \cup C \in SUBSET Ids /\ r \in Ids \ (P \cup C)
  BY <1>1, <1>6, <1>8, <1>9
<1>16. Book!Sum(f, Home, from) = SumFunctionOnSet(g, counted)
  BY <1>1, <1>12, <1>13, <1>14, <1>15, SumIsOnDomain
<1>17. SumFunctionOnSet(g, counted) = amount + SumFunctionOnSet(g, P \cup C)
  BY <1>1, <1>9, <1>11, <1>14, <1>15, SumAdds
<1>18. SumFunctionOnSet(g, P \cup C) = SumFunctionOnSet(Amount(0), P \cup C)
  BY <1>1, <1>6, <1>10, <1>15, SumOfSame
<1>19. SumFunctionOnSet(Amount(0), P \cup C)
         = SumFunctionOnSet(Amount(0), P) + SumFunctionOnSet(Amount(0), C)
  <2>1. P \in SUBSET (P \cup C) /\ (P \cup C) \ P = C
    BY <1>6, <1>8
  <2>2. QED
    BY <1>1, <1>6, <1>15, <2>1, SumSplits
<1>20. Limits[w][Home] \in Nat
  BY <1>5, LedgerAssumption
<1>21. Book!Sum(f, Home, from) <= Limits[w][Home]
  BY <1>6, <1>7, <1>16, <1>17, <1>18, <1>19, <1>20
<1>22. QED
  BY <1>21 DEF from

\* What a call books is a step of the book.
LEMMA BookingIsStep ==
  ASSUME TypeOK, Ownership, Stamps, NEW c \in Calls, NEW e, NEW q, Booking(c, e, q),
         handle[c] = 0, Turned(0, res[c], e)
  PROVE  Book!Next \/ Entry(0)' = Entry(0)
<1>0. PICK r \in Calls : r = res[c]
  BY DEF TypeOK, CallsOK
<1> DEFINE m == book[0][r]
           f == book'[0][r]
<1>1. /\ r \in Ids /\ 0 \in MasterKey /\ Mine(c) = m /\ f = e
      /\ Price[c] \in Nat /\ at[c] \in Nat /\ quote[c] \in Nat
  BY <1>0, WalletAssumption DEF Mine, Turned, TypeOK, CallsOK
<1>2. \A i \in Ids : i # r => Shown(book'[0][i]) = Shown(book[0][i])
  BY <1>0, <1>1 DEF Turned
<1>3. /\ Holds(c) => m \in Row /\ m.status \in Active
      /\ m.status = "pending" => m \in Row
      /\ m.status = "pending_escalated" => m \in Row
  BY <1>1, MineTyped
<1>4. "pending" \in Book!Active /\ "pending_escalated" \in Book!Active /\ Active = Book!Active
  BY DEF Book!Active, Active
<1>5. ASSUME \/ Shown(f) = Shown(m)
             \/ Book!Reserve(Shown(m), Shown(f)) /\ Book!Fits(Entry(0)', r)
             \/ Book!Lower(Shown(m), Shown(f))
             \/ Book!Escalate(Shown(m), Shown(f))
             \/ Book!Capture(Shown(m), Shown(f))
             \/ Book!Release(Shown(m), Shown(f))
             \/ Book!Import(Shown(m), Shown(f))
      PROVE  Book!Next \/ Entry(0)' = Entry(0)
  BY <1>1, <1>2, <1>5, OneEntry
<1>6. CASE pc[c] \in {"reserve", "record"}
  <2>1. m = Unknown
    BY <1>1, <1>6, BookingNew
  <2>2. Shown(m) = Book!Nothing
    BY <2>1 DEF Shown, Book!Nothing
  <2>3. f \in Row
    BY <1>1, BookingTyped
  <2>4. Shown(f).status = f.status
    BY <2>3, ShownIs
  <2>5. CASE pc[c] = "reserve"
    <3>1. /\ f = Opening("pending", Price[c], at[c])
          /\ withinLimits(0, Price[c], Home, at[c], {})
      BY <1>1, <2>5 DEF Booking
    <3>2. Turned(0, r, Opening("pending", Price[c], at[c]))
      BY <1>0, <1>1, <3>1
    <3>3. Book!Fits(Entry(0)', r)
      BY <1>1, <2>1, <3>1, <3>2, ReserveFits
    <3>4. Shown(f).status = "pending"
      BY <2>4, <3>1 DEF Opening
    <3>5. QED
      BY <1>5, <2>2, <3>3, <3>4 DEF Book!Reserve
  <2>6. CASE pc[c] = "record"
    <3>1. f.status = "captured"
      BY <1>1, <2>6 DEF Booking, Opening
    <3>2. QED
      BY <1>5, <2>2, <2>4, <3>1 DEF Book!Import
  <2>7. QED
    BY <1>6, <2>5, <2>6
<1>7. CASE m \in Row /\ m.status \in Active /\ \E why : f = ReleasedAs(m, why)
  <2>1. Book!Release(Shown(m), Shown(f))
    BY <1>7, ShownMoves, Zenon
  <2>2. QED
    BY <1>5, <2>1
<1>8. CASE pc[c] = "adjust" /\ q = "token"
  <2>1. /\ m \in Row /\ m.status \in Active /\ quote[c] <= m.amount
        /\ f = [m EXCEPT !.amount = quote[c]]
    BY <1>1, <1>3, <1>8 DEF Booking
  <2>2. Book!Lower(Shown(m), Shown(f))
    BY <1>1, <2>1, ShownMoves, Zenon
  <2>3. QED
    BY <1>5, <2>2
<1>9. CASE pc[c] = "escalate" /\ m.status = "pending"
  <2>1. /\ m \in Row /\ m.status \in Active
        /\ f = [m EXCEPT !.status = "pending_escalated", !.expires = at[c] + 1]
    BY <1>1, <1>3, <1>9 DEF Booking, Active
  <2>2. Book!Escalate(Shown(m), Shown(f))
    BY <1>9, <2>1, ShownMoves, Zenon
  <2>3. QED
    BY <1>5, <2>2
<1>10. CASE pc[c] = "escalate" /\ m.status # "pending"
  BY <1>1, <1>5, <1>10 DEF Booking
<1>11. CASE pc[c] = "settle"
  <2>1. /\ m \in Row /\ m.status \in Active /\ f = SettledAs(m, Receipt(c), at[c])
        /\ m.settled <= at[c]
    BY <1>1, <1>3, <1>11 DEF Booking, Stamps, Holds, IsActive
  <2>2. Book!Capture(Shown(m), Shown(f))
    BY <1>1, <2>1, ShownMoves, Zenon
  <2>3. QED
    BY <1>5, <2>2
<1>12. CASE pc[c] = "shadow"
  <2>1. m \in Row /\ f = [m EXCEPT !.shadow = TRUE]
    BY <1>1, <1>3, <1>12 DEF Booking
  <2>2. Shown(f) = Shown(m)
    BY <2>1, ShownIs
  <2>3. QED
    BY <1>5, <2>2
<1>13. CASE /\ pc[c] \notin {"reserve", "record", "escalate", "settle", "shadow"}
            /\ pc[c] # "adjust" \/ q # "token"
  <2>1. m \in Row /\ m.status \in Active /\ \E why : f = ReleasedAs(m, why)
    BY <1>1, <1>3, <1>13 DEF Booking, Active
  <2>2. QED
    BY <1>7, <2>1
<1>14. QED
  BY <1>6, <1>8, <1>9, <1>10, <1>11, <1>12, <1>13

\* So is every step of the system.
LEMMA BookNextOf ==
  ASSUME TypeOK, Ownership, Stamps, Next
  PROVE  Book!Next \/ Entry(0)' = Entry(0)
<1>1. 0 \in MasterKey /\ vaultKey \in MasterKey
  BY WalletAssumption DEF TypeOK, WorldOK
<1>2. ASSUME \A i \in Ids : book'[0][i] = book[0][i]
      PROVE  Entry(0)' = Entry(0)
  BY <1>2, EntryIs
<1>3. ASSUME Imports(vaultKey)
      PROVE  Book!Next
  <2>1. ASSUME NEW i \in Ids
        PROVE  \/ Shown(book'[0][i]) = Shown(book[0][i])
               \/ Book!Import(Shown(book[0][i]), Shown(book'[0][i]))
    <3>1. CASE book'[0][i] = book[0][i]
      BY <3>1
    <3>2. CASE i \in DOMAIN Legacy /\ book'[0][i] = Opening("captured", Legacy[i], 0)
      <4>1. book[0][i] = Unknown
        BY <1>1, <1>3 DEF Imports, Ownership, Fresh
      <4>2. /\ book'[0][i] \in Row /\ book'[0][i].status = "captured"
        BY <3>2, OpeningIsRow, LedgerAssumption DEF Opening
      <4>3. /\ Shown(book[0][i]) = Book!Nothing
            /\ Shown(book'[0][i]).status = "captured"
        BY <4>1, <4>2, ShownIs DEF Shown, Book!Nothing
      <4>4. QED
        BY <4>3 DEF Book!Import
    <3>3. QED
      BY <1>1, <1>3, <3>1, <3>2 DEF Imports
  <2>2. QED
    BY <2>1, ManyEntries
<1>4. ASSUME Expires(vaultKey)
      PROVE  Book!Next
  <2>1. ASSUME NEW i \in Ids
        PROVE  \/ Shown(book'[0][i]) = Shown(book[0][i])
               \/ Book!Release(Shown(book[0][i]), Shown(book'[0][i]))
    <3>1. CASE book'[0][i] = book[0][i]
      BY <3>1
    <3>2. CASE /\ book[0][i].status = "pending_escalated"
               /\ book'[0][i] = ReleasedAs(book[0][i], "resume_expired")
      <4>1. book[0][i] \in Row
        BY <1>1, <3>2, UnknownIs DEF TypeOK, FileOK, Active
      <4>2. book[0][i].status \in Active
        BY <3>2 DEF Active
      <4>3. Book!Release(Shown(book[0][i]), Shown(book'[0][i]))
        BY <3>2, <4>1, <4>2, ShownMoves, Zenon
      <4>4. QED
        BY <4>3
    <3>3. QED
      BY <1>1, <1>4, <3>1, <3>2 DEF Expires
  <2>2. QED
    BY <2>1, ManyEntries
<1>5. ASSUME NEW c \in Calls, Opened(c) \/ Crashed(c)
      PROVE  Book!Next \/ Entry(0)' = Entry(0)
  BY <1>2, <1>3, <1>4, <1>5 DEF Opened, Crashed
<1>6. ASSUME NEW c \in Calls, NEW e, NEW q, Books(c, e, q)
      PROVE  Book!Next \/ Entry(0)' = Entry(0)
  <2>1. CASE handle[c] = 0 /\ Turned(0, res[c], e)
    BY <1>6, <2>1, BookingIsStep DEF Books
  <2>2. CASE handle[c] # 0
    BY <1>1, <1>2, <1>6, <2>2 DEF Books, Turned
  <2>3. CASE Turned(handle[c], res[c], Mine(c))
    BY <1>1, <1>2, <2>3 DEF Turned, Mine
  <2>4. QED
    BY <1>6, <2>1, <2>2, <2>3 DEF Books
<1>7. ASSUME NEW r \in Calls, NEW e, Reconciled(r, e)
      PROVE  Book!Next \/ Entry(0)' = Entry(0)
  <2>1. /\ book[vaultKey][r] \in Row /\ book[vaultKey][r].status \in Active
        /\ Reconciling(r, e) /\ r \in Ids
    BY <1>7, WalletAssumption DEF Reconciled
  <2>2. CASE vaultKey # 0
    BY <1>1, <1>2, <1>7, <2>2 DEF Reconciled, Turned
  <2>3. CASE Turned(vaultKey, r, book[vaultKey][r])
    BY <1>1, <1>2, <2>3 DEF Turned
  <2>4. CASE vaultKey = 0 /\ Turned(0, r, e)
    <3> DEFINE m == book[0][r]
               f == book'[0][r]
    <3>1. /\ m \in Row /\ m.status \in Active /\ f = e
          /\ \A i \in Ids : i # r => Shown(book'[0][i]) = Shown(book[0][i])
      BY <1>1, <2>1, <2>4 DEF Turned
    <3>3. CASE f = ReleasedAs(m, "reconciled_release")
      <4>1. Book!Release(Shown(m), Shown(f))
        BY <3>1, <3>3, ShownMoves, Zenon
      <4>2. QED
        BY <2>1, <3>1, <4>1, OneEntry
    <3>4. ASSUME NEW receipt, f = SettledAs(m, receipt, now)
          PROVE  Book!Next \/ Entry(0)' = Entry(0)
      <4>1. m.settled <= now /\ now \in Nat
        BY <1>1, <2>1, <3>1, Rows, WalletAssumption DEF Stamps, TypeOK, WorldOK
      <4>2. Book!Capture(Shown(m), Shown(f))
        BY <3>1, <3>4, <4>1, ShownMoves, Zenon
      <4>3. QED
        BY <2>1, <3>1, <4>2, OneEntry
    <3>5. QED
      BY <2>1, <2>4, <3>1, <3>3, <3>4 DEF Reconciling
  <2>5. QED
    BY <1>7, <2>2, <2>3, <2>4 DEF Reconciled
<1>8. QED
  BY <1>2, <1>5, <1>6, <1>7, BookSteps

\* For a holder of the first key, the file of sealed rows is a reservation book:
\* whatever operations of other processes come between two of its own, whatever
\* crashes, torn lines, rotations and migrations do, each step books at most one
\* reservation under the caps, lowers, escalates or captures one, releases
\* what was active or imports what is outside any reservation (ledger.ts
\* withLock, appendRowsLocked and applyEvent).
THEOREM LedgerIsReservationBook == Spec => IsReservationBook
<1>1. Init => Book!Init
  <2>1. SUFFICES ASSUME Init PROVE Book!Init
    OBVIOUS
  <2>2. \A i \in Ids : book[0][i] = Unknown
    BY <2>1, WalletAssumption DEF Init, LedgerInit
  <2>3. Entry(0) = [i \in Ids |-> [status |-> "none"]]
    BY <2>2, EntryIs DEF Shown
  <2>4. QED
    BY <2>3 DEF Book!Init, Book!Nothing
<1>2. TypeOK /\ Ownership /\ Stamps /\ [Next]_vars => [Book!Next]_(Entry(0))
  <2>1. UNCHANGED vars => Entry(0)' = Entry(0)
    BY EntryIs DEF vars
  <2>2. QED
    BY <2>1, BookNextOf
<1>3. QED
  BY <1>1, <1>2, Always, InTime, PTL DEF Spec, IsReservationBook, Book!Spec
=============================================================================
