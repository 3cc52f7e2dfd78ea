------------------------------ MODULE AuditChain ------------------------------
(***************************************************************************)
(* The policy engine's audit log: one file of lines for each day, every    *)
(* entry naming the hash of the entry before it.  A write may be cut, with *)
(* the process alive (a full disk) or dead, and the next write continues   *)
(* the line it was cut in.  An editor may change or remove lines.          *)
(*                                                                         *)
(* An entry is numbered by its write and its hash is the pair of that      *)
(* number and its text, "written" or "edited".  A line is the sequence of  *)
(* the pieces of JSON in it: only one whole piece can be parsed.           *)
(***************************************************************************)
EXTENDS Integers, Sequences, FiniteSets, SequencesExt, FiniteSetsExt

CONSTANTS MaxDay, MaxWrites, MaxRestarts, MaxFaults

AuditAssumption == {MaxDay, MaxWrites, MaxRestarts, MaxFaults} \subseteq Nat

VARIABLES
  day,        \* of the engine's clock, which only advances
  file,       \* file[d]: whether YYYY-MM-DD.jsonl exists, its lines, and whether
              \* the last of them has its newline
  lastHash,   \* the sink's; "down" while the engine is not running
  writes,     \* how many entries were hashed
  acked,      \* entries whose append or amend returned to the engine
  restarts, faults,
  torn,       \* a write was cut and left something
  edited      \* somebody changed a file

vars == <<day, file, lastHash, writes, acked, restarts, faults, torn, edited>>
--------------------------------------------------------------------------------
Day == 0 .. MaxDay
NoHash == <<0, "none">>
Down == <<0, "down">>
Hash(piece) == <<piece.no, piece.text>>

Absent == [exists |-> FALSE, lines |-> <<>>, ended |-> TRUE]

\* Whether JSON.parse reads the line.
Parses(line) == Len(line) = 1 /\ line[1].whole

\* auditFiles() in the order of their names, which is that of the days.
auditFiles == {d \in Day : file[d].exists}
Lines == FlattenSeq([n \in 1 .. MaxDay + 1 |-> file[n - 1].lines])

Init ==
  /\ day = 0 /\ file = [d \in Day |-> Absent]
  /\ lastHash = Down /\ writes = 0 /\ acked = {}
  /\ restarts = 0 /\ faults = 0 /\ torn = FALSE /\ edited = FALSE

\* The text that appendFileSync adds to a file: into the last line, when that
\* has no newline.
appended(f, piece, newline) ==
  [exists |-> TRUE, ended |-> newline,
   lines |-> IF f.ended THEN Append(f.lines, <<piece>>)
             ELSE [f.lines EXCEPT ![Len(f.lines)] = Append(@, piece)]]

\* tailHash(): the last line of the last file.  An empty last file hides the
\* entries of the days before it.
tailHash ==
  IF auditFiles = {} THEN NoHash
  ELSE LET f == file[Max(auditFiles)]
       IN IF f.lines = <<>> THEN NoHash ELSE Hash(Last(f.lines)[1])
tailParses ==
  auditFiles # {} =>
    LET f == file[Max(auditFiles)] IN f.lines # <<>> => Parses(Last(f.lines))

\* The sink of a started engine; its constructor throws on a tail it cannot parse.
start ==
  /\ lastHash = Down /\ tailParses
  /\ lastHash' = tailHash
  /\ UNCHANGED <<day, file, writes, acked, restarts, faults, torn, edited>>

\* The entry that write() hashes: of today, on the sink's lastHash.
entry == [no |-> writes + 1, prev |-> lastHash, text |-> "written", whole |-> TRUE]

\* Mutant of write: the hash is remembered before the entry is in the file.
writeHashFirst(left) ==
  /\ file' = [file EXCEPT ![day] = left]
  /\ lastHash' = Hash(entry)
  /\ acked' = IF left = appended(file[day], entry, TRUE) THEN acked \cup {writes + 1} ELSE acked

\* write(): what is left in the file, and, when all of it is, the new lastHash.
write(left) ==
  LET whole == left = appended(file[day], entry, TRUE) IN
  /\ file' = [file EXCEPT ![day] = left]
  /\ lastHash' = IF whole THEN Hash(entry) ELSE lastHash
  /\ acked' = IF whole THEN acked \cup {writes + 1} ELSE acked

Writes == lastHash # Down /\ writes < MaxWrites /\ writes' = writes + 1

\* append(): a decision of the engine.
append ==
  /\ Writes /\ write(appended(file[day], entry, TRUE))
  /\ UNCHANGED <<day, restarts, faults, torn, edited>>

\* findEntry(): every line is parsed until the entry is found, and any line
\* that cannot be parsed before it throws.
found(hash) ==
  \E n \in DOMAIN Lines :
    /\ Hash(Lines[n][1]) = hash
    /\ \A k \in 1 .. n : Parses(Lines[k])

\* amend(): settlement events of an earlier entry, written as an entry of its own.
amend(no) ==
  /\ no \in acked /\ found(<<no, "written">>)
  /\ Writes /\ write(appended(file[day], entry, TRUE))
  /\ UNCHANGED <<day, restarts, faults, torn, edited>>

\* What a write that is cut leaves: nothing but the file, half of the entry,
\* or all of it without its newline.
cuts(f) ==
  {[f EXCEPT !.exists = TRUE],
   appended(f, [entry EXCEPT !.whole = FALSE], FALSE),
   appended(f, entry, FALSE)}

Fault == faults < MaxFaults /\ faults' = faults + 1

\* The disk is full: the write throws and the engine goes on.
appendFails ==
  /\ Fault /\ Writes
  /\ \E left \in cuts(file[day]) : write(left) /\ torn' = (torn \/ left # file[day])
  /\ UNCHANGED <<day, restarts, edited>>

\* The process dies inside a write, or between two.
crash ==
  /\ lastHash # Down /\ restarts < MaxRestarts
  /\ restarts' = restarts + 1 /\ lastHash' = Down
  /\ \/ UNCHANGED <<file, writes, faults, torn>>
     \/ /\ Fault /\ writes < MaxWrites /\ writes' = writes + 1
        /\ \E left \in cuts(file[day]) :
             file' = [file EXCEPT ![day] = left] /\ torn' = (torn \/ left # file[day])
  /\ UNCHANGED <<day, acked, edited>>

\* Somebody removes a line, or rewrites it with a hash that fits.
edit(d, n) ==
  /\ Fault /\ edited' = TRUE
  /\ \E lines \in {RemoveAt(file[d].lines, n), [file[d].lines EXCEPT ![n][1].text = "edited"]} :
       file' = [file EXCEPT ![d].lines = lines]
  /\ UNCHANGED <<day, lastHash, writes, acked, restarts, torn>>

Tomorrow ==
  /\ day < MaxDay /\ day' = day + 1
  /\ UNCHANGED <<file, lastHash, writes, acked, restarts, faults, torn, edited>>

Next ==
  \/ start \/ append \/ appendFails \/ crash \/ Tomorrow
  \/ \E no \in 1 .. MaxWrites : amend(no)
  \/ \E d \in Day : file[d].ended /\ \E n \in DOMAIN file[d].lines : edit(d, n)

Spec == Init /\ [][Next]_vars
--------------------------------------------------------------------------------
\* verifyChain(): the hash that the n-th line should name, and the lines reported.
expected ==
  LET prev[n \in 0 .. Len(Lines)] ==
        IF n = 0 THEN NoHash
        ELSE IF Parses(Lines[n]) THEN Hash(Lines[n][1]) ELSE prev[n - 1]
  IN prev

breaks ==
  {n \in DOMAIN Lines : ~Parses(Lines[n]) \/ Lines[n][1].prev # expected[n - 1]}

Readable == {Hash(Lines[n][1]) : n \in {k \in DOMAIN Lines : Parses(Lines[k])}}

\* What the log tells an auditor is true: nothing is reported of a log that no
\* cut write and no editor touched, whatever restarts, failed writes and ends
\* of days it went through; an entry the engine was told is written and that
\* can no longer be read is reported; and so is an edited or removed entry
\* when its successor can be read.
AuditTellsTruth ==
  /\ (~torn /\ ~edited) => breaks = {}
  /\ (~edited /\ \E no \in acked : <<no, "written">> \notin Readable) => breaks # {}
  /\ (\E n \in DOMAIN Lines :
        Parses(Lines[n]) /\ Lines[n][1].prev \notin Readable \cup {NoHash}) => breaks # {}
==============================================================================
