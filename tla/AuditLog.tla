------------------------------ MODULE AuditLog ------------------------------
(***************************************************************************)
(* The panel's audit log (internal/audit/log.go): one JSON line per entry  *)
(* in a file that is renamed to <path>.1 once it is full.  A file is the   *)
(* sequence of what was written to it; only a write that ends with its     *)
(* newline leaves a line of its own.                                       *)
(***************************************************************************)
EXTENDS Naturals, Sequences, SequencesExt

CONSTANTS
    LogSize,    \* writes that make the file reach maxLogBytes
    ListLimit,  \* entries a page asks List for
    MaxEntries, \* bound on the entries ever offered to Append
    MaxFaults   \* bound on failing steps, lost messages and crashes

ASSUME LogSizeAssumption == LogSize \in Nat \ {0}
ASSUME ListLimitAssumption == ListLimit \in Nat \ {0}
ASSUME MaxFaultsAssumption == MaxFaults \in Nat

VARIABLES
    current,   \* the file at path
    rotated,   \* the file at path.1
    appending, \* the next step of the Append that holds mu
    entry,     \* number of the entry last offered to Append
    written,   \* history: everything ever written, oldest first
    faults     \* faults so far

logVars == <<current, rotated, appending, entry, written>>

\* What a write leaves behind: a line, a complete entry without its newline,
\* or a fragment.
Ends == {"newline", "bare", "cut"}
Writes == [id : Nat, end : Ends]

LogTypeOK ==
    /\ current \in Seq(Writes)
    /\ rotated \in Seq(Writes)
    /\ written \in Seq(Writes)
    /\ appending \in {"idle", "stat", "remove", "rename", "write"}
    /\ entry \in Nat
    /\ faults \in 0..MaxFaults

LogInit ==
    /\ current = <<>>
    /\ rotated = <<>>
    /\ appending = "idle"
    /\ entry = 0
    /\ written = <<>>
    /\ faults = 0

Fault == faults < MaxFaults /\ faults' = faults + 1

-----------------------------------------------------------------------------
(* Append *)

\* mu is taken.
BeginAppend ==
    /\ appending = "idle"
    /\ entry < MaxEntries
    /\ appending' = "stat"
    /\ entry' = entry + 1
    /\ UNCHANGED <<current, rotated, written>>

\* The file is renamed one write later.
StatLogLater ==
    /\ appending = "stat"
    /\ \/ /\ appending' = IF Len(current) > LogSize THEN "remove" ELSE "write"
          /\ UNCHANGED faults
       \/ Fault /\ appending' = "idle"
    /\ UNCHANGED <<current, rotated, entry, written>>
\* MkdirAll and Stat; an error of either is returned.
StatLog ==
    /\ appending = "stat"
    /\ \/ /\ appending' = IF Len(current) >= LogSize THEN "remove" ELSE "write"
          /\ UNCHANGED faults
       \/ Fault /\ appending' = "idle"
    /\ UNCHANGED <<current, rotated, entry, written>>

\* The error of Remove is ignored.
RemoveRotated ==
    /\ appending = "remove"
    /\ appending' = "rename"
    /\ \/ rotated' = <<>> /\ UNCHANGED faults
       \/ Fault /\ UNCHANGED rotated
    /\ UNCHANGED <<current, entry, written>>

\* A rotation that makes room by emptying the file.
RenameAfterCopy ==
    /\ appending = "rename"
    /\ \/ rotated' = current /\ current' = <<>> /\ appending' = "write" /\ UNCHANGED faults
       \/ Fault /\ current' = <<>> /\ appending' = "idle" /\ UNCHANGED rotated
    /\ UNCHANGED <<entry, written>>
\* The error of Rename is returned.
RenameLog ==
    /\ appending = "rename"
    /\ \/ /\ rotated' = current
          /\ current' = <<>>
          /\ appending' = "write"
          /\ UNCHANGED faults
       \/ Fault /\ appending' = "idle" /\ UNCHANGED <<current, rotated>>
    /\ UNCHANGED <<entry, written>>

Written(end) ==
    /\ current' = Append(current, [id |-> entry, end |-> end])
    /\ written' = Append(written, [id |-> entry, end |-> end])

\* Marshal, OpenFile and one Write, which may fail after a part of the line.
WriteEntry ==
    /\ appending = "write"
    /\ appending' = "idle"
    /\ \/ Written("newline") /\ UNCHANGED faults
       \/ /\ Fault
          /\ \/ \E end \in {"cut", "bare"} : Written(end)
             \/ UNCHANGED <<current, written>>
    /\ UNCHANGED <<rotated, entry>>

\* The process ends: an Append under way stops where it is.
CrashLog ==
    /\ appending' = "idle"
    /\ \/ UNCHANGED <<current, written>>
       \/ appending = "write" /\ \E end \in Ends : Written(end)
    /\ UNCHANGED <<rotated, entry>>

AppendStep == StatLog \/ RemoveRotated \/ RenameLog \/ WriteEntry

-----------------------------------------------------------------------------
(* List *)

\* The text between two newlines is one entry.
IsEntry(file, i) ==
    /\ file[i].end # "cut"
    /\ i = 1 \/ file[i - 1].end = "newline"
    /\ file[i].end = "newline" \/ i = Len(file)

\* List fails on the first line that is not an entry.
ListFails(file) == \E i \in DOMAIN file : ~IsEntry(file, i)

\* The newest entries first; render shows none when List fails.
List(file) ==
    IF ListFails(file) THEN <<>>
    ELSE LET ids == [i \in DOMAIN file |-> file[i].id]
             from == IF Len(ids) > ListLimit THEN Len(ids) - ListLimit ELSE 0
         IN  Reverse(SubSeq(ids, from + 1, Len(ids)))

-----------------------------------------------------------------------------
(* Properties *)

\* The last LogSize writes.
Newest == LET n == Len(written) IN SubSeq(written, IF n > LogSize THEN n - LogSize + 1 ELSE 1, n)

\* Rotation never costs the newest entries: the last LogSize writes are in the
\* two files, in order, whatever step fails and wherever the panel stops.
NewestKept == IsSuffix(Newest, rotated \o current)

\* An incomplete write blocks the activity page only for as long as it takes to
\* fill a file: after LogSize complete writes List reads every entry again and
\* shows the newest ones.
ListRecovers ==
    (\A i \in DOMAIN Newest : Newest[i].end = "newline") =>
        /\ ~ListFails(current)
        /\ current # <<>> => List(current)[1] = Last(written).id
=============================================================================
