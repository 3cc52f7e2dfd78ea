------------------------------ MODULE VaultLedger ------------------------------
(***************************************************************************)
(* The buyer's spend ledger: packages/buyer/src/vault/ledger.ts.           *)
(*                                                                         *)
(* The ledger is a file of sealed rows.  Every operation takes an          *)
(* in-process queue and a file lock, reads the whole file, folds its rows  *)
(* into a map of reservations, decides, and appends rows: one operation is *)
(* one step here.  Rows are never changed, so the file is kept as what     *)
(* reading it gives (`book`), for each master key a row may be sealed      *)
(* under: a reader with another key skips the row.  What the fold does not *)
(* say is how the file ends.  A process that dies inside an append leaves a  *)
(* line without its end (`ragged`): the next row is written onto that line *)
(* and neither can be read again.  One that dies while it creates the file *)
(* leaves a header nobody can use.                                         *)
(*                                                                         *)
(* This module has the state of the file and the operations on it; who     *)
(* calls them, and when, is in WalletPurchase.                             *)
(***************************************************************************)
EXTENDS Integers, FiniteSets, Functions

CONSTANTS
    Ids,       \* reservation ids, legacy spends included
    Currency,  \* currencies, normalised
    Window,    \* spend windows ("daily", "weekly", "monthly")
    Length,    \* Length[w]: how far back window w reaches
    Limits,    \* Limits[w]: the caps of window w, a function of some currencies
    Legacy,    \* the spends of the ledger the previous version kept: id -> amount
    MasterKey  \* the keys a row may be sealed under

\* What normalizeLimits makes of a window's caps: some currencies, normalised.
SpendLimits == [w \in Window |-> DOMAIN Limits[w] \cap Currency]

ASSUME LedgerAssumption ==
    /\ IsFiniteSet(Ids)
    /\ Length \in [Window -> Nat]
    /\ DOMAIN Legacy \subseteq Ids
    /\ \A i \in DOMAIN Legacy : Legacy[i] \in Nat
    /\ \A w \in Window : /\ DOMAIN Limits[w] = SpendLimits[w]
                         /\ \A cur \in DOMAIN Limits[w] : Limits[w][cur] \in Nat

VARIABLES
    header,  \* "absent", "written", or "torn": the file's first line
    book,    \* book[k][i]: reservation i, as a holder of key k reads the rows
    ragged,  \* whether the last line has no end
    joined,  \* whether a row was ever written onto such a line
    legacy   \* the ids of the old ledger's spends, {} once it was renamed

ledgerVars == <<header, book, ragged, joined, legacy>>

--------------------------------------------------------------------------------
\* The rows and their fold

Active == {"pending", "pending_escalated"}

Unknown == [status |-> "none"]

\* A settle row captures an active reservation, at the receipt's amount.
\* Mutant of Captured: an escalated reservation is not settled.
CapturedIfPending(r, row) ==
    IF r.status = "pending"
    THEN [r EXCEPT !.status = "captured", !.amount = row.amount,
                   !.currency = row.currency, !.settled = row.ts]
    ELSE r

Captured(r, row) ==
    IF r.status \in Active
    THEN [r EXCEPT !.status = "captured", !.amount = row.amount,
                   !.currency = row.currency, !.settled = row.ts]
    ELSE r

\* What one row does to its reservation; a row that finds it in another status
\* does nothing.  (why is part of the row only: the code does not fold it.)
applyEvent(r, row) ==
    CASE row.op \in {"reserve", "legacy_spend"} ->
           [status |-> IF row.op = "reserve" THEN "pending" ELSE "captured",
            amount |-> row.amount, currency |-> row.currency,
            ts |-> row.ts, settled |-> row.ts,
            expires |-> 0, shadow |-> FALSE, why |-> "none"]
      [] row.op = "adjust" /\ r.status \in Active -> [r EXCEPT !.amount = row.amount]
      [] row.op = "mark_escalated" /\ r.status = "pending" ->
           [r EXCEPT !.status = "pending_escalated", !.expires = row.expires]
      [] row.op = "release" /\ r.status \in Active ->
           [r EXCEPT !.status = "released", !.why = row.why]
      [] row.op = "shadow" /\ r # Unknown -> [r EXCEPT !.shadow = TRUE]
      [] row.op = "settle" -> Captured(r, row)
      [] OTHER -> r

IsActive(k, i) == book[k][i].status \in Active

--------------------------------------------------------------------------------
\* Limits

\* A settled reservation is stamped with the time it was settled.
reservationTimestamp(r) == r.settled

Spent(k, cur, statuses, from, excluded) ==
    LET counted == {i \in Ids \ excluded :
                      /\ book[k][i].status \in statuses
                      /\ book[k][i].currency = cur
                      /\ reservationTimestamp(book[k][i]) >= from}
    IN SumFunction([i \in counted |-> book[k][i].amount])

\* pending already contains what is escalated.
usageForWindow(k, w, cur, at, excluded) ==
    LET spent(statuses) == Spent(k, cur, statuses, at - Length[w], excluded)
    IN [pending |-> spent(Active),
        pending_escalated |-> spent({"pending_escalated"}),
        captured |-> spent({"captured"})]

\* Mutant of withinLimits: what is captured is not counted.
withinLimitsOfPending(k, amount, cur, at, excluded) ==
    \A w \in Window :
        cur \in DOMAIN Limits[w] =>
            usageForWindow(k, w, cur, at, excluded).pending + amount <= Limits[w][cur]

\* A reservation that is escalated is therefore counted twice here.
withinLimits(k, amount, cur, at, excluded) ==
    \A w \in Window :
        cur \in DOMAIN Limits[w] =>
            LET usage == usageForWindow(k, w, cur, at, excluded)
            IN usage.pending + usage.pending_escalated + usage.captured + amount
                 <= Limits[w][cur]

--------------------------------------------------------------------------------
\* The file

\* Every operation makes sure that the file has a header, and cannot go on
\* with one that was cut off.
Usable == header # "torn"

Folded(k, rows) ==
    [book EXCEPT ![k] = [i \in Ids |->
        IF \E row \in rows : row.id = i
        THEN applyEvent(book[k][i], CHOOSE row \in rows : row.id = i)
        ELSE book[k][i]]]

\* An operation appends rows about different reservations, sealed under the
\* caller's key; the first of them joins a ragged line.
appendRows(k, rows) ==
    /\ Usable
    /\ header' = "written"
    /\ IF ragged /\ rows # {}
       THEN /\ \E lost \in rows : book' = Folded(k, rows \ {lost})
            /\ ragged' = FALSE
            /\ joined' = TRUE
       ELSE /\ book' = Folded(k, rows)
            /\ UNCHANGED <<ragged, joined>>

\* What a process that dies in an operation may leave behind.
CrashInAppend ==
    /\ \/ /\ header = "absent"
          /\ header' = "torn"
          /\ UNCHANGED ragged
       \/ /\ header = "written"
          /\ ragged' = TRUE
          /\ UNCHANGED header
    /\ UNCHANGED <<book, joined, legacy>>

reserveRow(i, amount, cur, at) ==
    [op |-> "reserve", id |-> i, ts |-> at, amount |-> amount, currency |-> cur]

releaseRow(i, why) == [op |-> "release", id |-> i, why |-> why]

adjustRow(i, amount) == [op |-> "adjust", id |-> i, amount |-> amount]

escalateRow(i, expires) == [op |-> "mark_escalated", id |-> i, expires |-> expires]

settleRow(i, receipt, at) ==
    [op |-> "settle", id |-> i, ts |-> at,
     amount |-> receipt.total, currency |-> receipt.currency]

shadowRow(i) == [op |-> "shadow", id |-> i]

spendRow(i, amount, cur, at) ==
    [op |-> "legacy_spend", id |-> i, ts |-> at, amount |-> amount, currency |-> cur]

--------------------------------------------------------------------------------
\* What opening the vault does to the ledger

\* Every overdue escalation is released, in one append.
releaseExpiredEscalations(k, at) ==
    {releaseRow(i, "resume_expired") :
        i \in {j \in Ids : /\ book[k][j].status = "pending_escalated"
                           /\ book[k][j].expires <= at}}

\* The old ledger moves into a ledger that does not exist yet, and is renamed
\* only after all of its rows were appended.
migrateLegacyIfNeeded(cur) == {spendRow(i, Legacy[i], cur, 0) : i \in legacy}

MigrationDue == header = "absent" /\ legacy # {}

LedgerInit ==
    /\ header = "absent"
    /\ book = [k \in MasterKey |-> [i \in Ids |-> Unknown]]
    /\ ragged = FALSE
    /\ joined = FALSE
    /\ legacy = DOMAIN Legacy
================================================================================
