---------------------------- MODULE ReservationBook ----------------------------
(***************************************************************************)
(* What the buyer's spend ledger promises its callers, without the file:   *)
(* a book with one entry per reservation.  An entry is opened only while   *)
(* its amount fits under the caps, then lives through                      *)
(*     pending -> pending_escalated -> captured | released                 *)
(* and never leaves the last two.  VaultLedger keeps this book as an       *)
(* append-only encrypted log that several processes fold on every call;    *)
(* WalletPurchase shows that every step of theirs is a step of this book.  *)
(***************************************************************************)
EXTENDS Integers, Functions

CONSTANTS
    Ids,       \* reservation ids
    Currency,  \* currencies
    Window,    \* names of the spend windows
    Length,    \* Length[w]: how far window w reaches back
    Cap        \* Cap[w][c]: how much of currency c may be spent in window w

VARIABLE book

Active == {"pending", "pending_escalated"}

Counted == Active \cup {"captured"}

Nothing == [status |-> "none"]

\* What the entries of one currency stamped since `from` add up to.
Sum(entries, cur, from) ==
    LET counted == {i \in Ids : /\ entries[i].status \in Counted
                               /\ entries[i].currency = cur
                               /\ entries[i].stamp >= from}
    IN SumFunction([i \in counted |-> entries[i].amount])

\* Whether entry i fits under every cap, counted with all the others.
Fits(entries, i) ==
    LET e == entries[i]
    IN \A w \in Window : e.currency \in DOMAIN Cap[w] =>
           Sum(entries, e.currency, e.stamp - Length[w]) <= Cap[w][e.currency]

Init == book = [i \in Ids |-> Nothing]

\* What may happen to entry i, from e to f, on its own.
Reserve(e, f) == e = Nothing /\ f.status = "pending"

\* Only the amount of an active entry changes, and it never grows.
Lower(e, f) ==
    /\ e.status \in Active
    /\ f.amount <= e.amount
    /\ f = [e EXCEPT !.amount = f.amount]

Escalate(e, f) == e.status = "pending" /\ f = [e EXCEPT !.status = "pending_escalated"]

\* Capturing stamps the entry anew and takes the amount of the receipt.
Capture(e, f) ==
    /\ e.status \in Active
    /\ f.status = "captured"
    /\ f.stamp >= e.stamp

Release(e, f) == e.status \in Active /\ f = [e EXCEPT !.status = "released"]

\* A spend made outside a reservation is booked as it is, cap or no cap.
Import(e, f) == e = Nothing /\ f.status = "captured"

\* One entry moves; or opening the vault releases, or imports, several at once.
Next ==
    LET moved == {i \in Ids : book'[i] # book[i]}
    IN \/ \E i \in moved :
            /\ moved = {i}
            /\ \/ Reserve(book[i], book'[i]) /\ Fits(book', i)
               \/ Lower(book[i], book'[i])
               \/ Escalate(book[i], book'[i])
               \/ Capture(book[i], book'[i])
       \/ \A i \in moved : Release(book[i], book'[i])
       \/ \A i \in moved : Import(book[i], book'[i])

Spec == Init /\ [][Next]_book
================================================================================
