------------------------------ MODULE Journal ------------------------------
(***************************************************************************)
(* The journal (lib/modules/accounting): entries with their lines, the     *)
(* manual drafts a bookkeeper creates and posts, and the entries the other *)
(* services post by themselves. The repository says that the caller owns   *)
(* the surrounding transaction; JournalService opens none. So the header,  *)
(* every line and the outbox row of an entry are statements that commit    *)
(* one by one, and a request can be cut between any two of them.           *)
(*                                                                         *)
(* Purchases composes this module with a service that posts entries. The   *)
(* server is a single isolate, one request at a time: job is its place.    *)
(***************************************************************************)
EXTENDS Integers, Sequences, FiniteSetsExt

CONSTANTS Account,   \* the accounts a line can name, set up or not
          Entry,     \* ids of journal entries
          NoEntry,   \* no such row in journal_entries, no row in the outbox
          MaxCuts    \* bound: documents with a request that was cut

Line == [acc : Account, debit : Int, credit : Int]

Row == [status : {"draft", "posted"}, lines : Seq(Line)]

ASSUME JournalAssumption ==
  /\ NoEntry \notin Entry
  /\ NoEntry \notin Row
  /\ MaxCuts \in Nat

VARIABLES chart,      \* the accounts the business has set up
          journal,    \* journal_entries with their journal_lines
          announced,  \* the outbox row of an entry
          job,        \* the request being served
          cut         \* ghost: entries whose writing ended before its last statement

journalVars == <<chart, journal, announced, job, cut>>

\* The next step of a request, the document it is about, and the lines in its hand. The
\* steps "post" and "tell" are those of a service that posts.
Job == [step : {"none", "post", "line", "record", "tell"},
        id : Entry \cup {NoEntry}, lines : Seq(Line)]

NoJob == [step |-> "none", id |-> NoEntry, lines |-> <<>>]

At(step) == job.step = step

Debits(lines) == SumFunction([i \in DOMAIN lines |-> lines[i].debit])

Credits(lines) == SumFunction([i \in DOMAIN lines |-> lines[i].credit])

\* _validateBalanced.
Valid(lines) ==
  /\ lines # <<>>
  /\ Debits(lines) = Credits(lines)
  /\ \A i \in DOMAIN lines : lines[i].debit > 0 \/ lines[i].credit > 0

-----------------------------------------------------------------------------
JournalInit ==
  /\ chart \in SUBSET Account
  /\ journal = [e \in Entry |-> NoEntry]
  /\ announced = [e \in Entry |-> NoEntry]
  /\ job = NoJob
  /\ cut = {}

\* The header of an entry, after its lines were checked; the lines follow.
InsertEntry(e, status, lines) ==
  /\ Valid(lines)
  /\ journal' = [journal EXCEPT ![e] = [status |-> status, lines |-> <<>>]]
  /\ job' = [step |-> "line", id |-> e, lines |-> lines]
  /\ UNCHANGED <<chart, announced, cut>>

\* createJournal. Nothing checks that the accounts exist.
CreateJournal(e, lines) ==
  /\ At("none")
  /\ journal[e] = NoEntry
  /\ InsertEntry(e, "draft", lines)

\* The line whose turn it is.
NextLine == job.lines[Len(journal[job.id].lines) + 1]

\* Mutant of InsertLine: the outbox row is written while the last line is missing.
InsertLineRecordEarly ==
  /\ At("line")
  /\ NextLine.acc \in chart
  /\ journal' = [journal EXCEPT ![job.id].lines = Append(@, NextLine)]
  /\ job' = IF Len(journal'[job.id].lines) + 1 >= Len(job.lines)
            THEN [job EXCEPT !.step = "record"] ELSE job
  /\ UNCHANGED <<chart, announced, cut>>

\* One line, in a transaction of its own. The foreign key holds.
InsertLine ==
  /\ At("line")
  /\ NextLine.acc \in chart
  /\ journal' = [journal EXCEPT ![job.id].lines = Append(@, NextLine)]
  /\ job' = IF Len(journal'[job.id].lines) = Len(job.lines)
            THEN [job EXCEPT !.step = "record"] ELSE job
  /\ UNCHANGED <<chart, announced, cut>>

\* The foreign key refuses a line: the request fails, what it has written stays.
RefuseLine ==
  /\ At("line")
  /\ NextLine.acc \notin chart
  /\ cut' = cut \cup {job.id}
  /\ job' = NoJob
  /\ UNCHANGED <<chart, journal, announced>>

\* _recordJournalChange: the lines of the request, not those of the table.
RecordJournalChange ==
  /\ At("record")
  /\ announced' = [announced EXCEPT ![job.id] =
       [status |-> journal[job.id].status, lines |-> job.lines]]
  /\ job' = NoJob
  /\ UNCHANGED <<chart, journal, cut>>

\* Mutant of PostJournal: the balance was checked when the draft was created.
PostUnchecked(e) ==
  /\ At("none")
  /\ journal[e] # NoEntry
  /\ journal[e].status # "posted"
  /\ journal' = [journal EXCEPT ![e].status = "posted"]
  /\ UNCHANGED <<chart, announced, job, cut>>

\* postJournal: the lines are read back and checked once more. No outbox row is written.
PostJournal(e) ==
  /\ At("none")
  /\ journal[e] # NoEntry
  /\ journal[e].status # "posted"
  /\ Valid(journal[e].lines)
  /\ journal' = [journal EXCEPT ![e].status = "posted"]
  /\ UNCHANGED <<chart, announced, job, cut>>

-----------------------------------------------------------------------------
\* The writing of the entry is over.
Written(e) == ~(At("line") /\ job.id = e) /\ ~(At("record") /\ job.id = e)

\* What a peer hears of an entry is all of it: an outbox row has exactly the lines the
\* table has, and it is missing only where the request was cut before it. (The status a
\* peer hears stays 'draft' when the entry is posted: postJournal writes no row.)
EntriesAreWhole ==
  \A e \in Entry : journal[e] # NoEntry =>
    /\ announced[e] # NoEntry => announced[e].lines = journal[e].lines
    /\ Written(e) /\ e \notin cut => announced[e] # NoEntry
=============================================================================
