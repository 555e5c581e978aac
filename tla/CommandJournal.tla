--------------------------- MODULE CommandJournal ---------------------------
(***************************************************************************)
(* CommandRecoveryJournal: the append-only file of received, result and    *)
(* acknowledged lines, the map kept in memory beside it, its compaction,   *)
(* and what a crash, a failed write or a failed fsync leaves on disk.  The *)
(* journal's methods are synchronous, so only a crash comes between the    *)
(* steps of one; they are separate actions for that reason.                *)
(***************************************************************************)
EXTENDS Integers, Sequences, FiniteSets, SequencesExt

CONSTANTS
  Key,           \* idempotency keys
  Response,      \* responses, as far as they differ
  CompactAfter,  \* COMPACT_AFTER_RECORDS
  MaxErrors,     \* bound: I/O errors
  MaxCrashes,    \* bound: crashes
  ShortWrites    \* whether a failing write may leave part of its line

ASSUME JournalAssumption ==
  /\ IsFiniteSet(Key)
  /\ CompactAfter \in Nat \ {0}
  /\ MaxErrors \in Nat
  /\ MaxCrashes \in Nat
  /\ ShortWrites \in BOOLEAN
  /\ {"none", "received"} \cap Response = {}

VARIABLES
  file,         \* the terminated lines
  torn,         \* the file ends in part of a line
  entries,      \* the map in memory
  recordCount,
  up,           \* the process runs
  stage,        \* where the running method is: "idle", "append", "apply", "compact"
  record,       \* the line it appends, Garbage between methods
  errors,       \* I/O errors so far
  crashes,      \* crashes so far
  dispatched,   \* history: keys begun and not acknowledged since
  redispatched  \* history: keys begun while in dispatched

disk    == <<file, torn>>
memory  == <<entries, recordCount>>
history == <<dispatched, redispatched>>
journalVars    == <<disk, memory, up, stage, record, errors, crashes, history>>

Received(k)     == [type |-> "received", key |-> k, response |-> "none"]
Result(k, r)    == [type |-> "result", key |-> k, response |-> r]
Acknowledged(k) == [type |-> "acknowledged", key |-> k, response |-> "none"]

\* A line JSON.parse rejects: the end of one record behind part of another.
Garbage == [type |-> "garbage"]

Record == {Received(k) : k \in Key} \cup {Acknowledged(k) : k \in Key}
          \cup {Result(k, r) : k \in Key, r \in Response}
Entries == [Key -> {"none", "received"} \cup Response]

JournalTypeOK ==
  /\ file \in Seq(Record \cup {Garbage})
  /\ torn \in BOOLEAN
  /\ entries \in Entries
  /\ recordCount \in Nat
  /\ up \in BOOLEAN
  /\ stage \in {"idle", "append", "apply", "compact"}
  /\ record \in Record \cup {Garbage}
  /\ errors \in 0..MaxErrors
  /\ crashes \in 0..MaxCrashes
  /\ dispatched \subseteq Key
  /\ redispatched \subseteq Key

NoEntries == [k \in Key |-> "none"]

JournalInit ==
  /\ file = <<>>
  /\ torn = FALSE
  /\ entries = NoEntries
  /\ recordCount = 0
  /\ up = TRUE
  /\ stage = "idle"
  /\ record = Garbage
  /\ errors = 0
  /\ crashes = 0
  /\ dispatched = {}
  /\ redispatched = {}

\* What one line does to the map, in the methods and in load() alike.
Replay(m, line) ==
  CASE line.type = "received"     -> [m EXCEPT ![line.key] = "received"]
    [] line.type = "acknowledged" -> [m EXCEPT ![line.key] = "none"]
    [] line.type = "result"       -> IF m[line.key] = "none" THEN m
                                     ELSE [m EXCEPT ![line.key] = line.response]
    [] OTHER                      -> m

\* The map load() builds, line after line; an unterminated tail is not a line.
Loaded(lines) ==
  LET map[i \in 0..Len(lines)] ==
        IF i = 0 THEN NoEntries ELSE Replay(map[i - 1], lines[i])
  IN  map[Len(lines)]

---------------------------------------------------------------------------
(* The methods.  A lookup, a begin() of a known key and an acknowledge() of *)
(* an unknown one change nothing.                                          *)

Start(line) ==
  /\ up
  /\ stage = "idle"
  /\ stage' = "append"
  /\ record' = line
  /\ UNCHANGED <<disk, memory, up, errors, crashes, redispatched>>

Begin(k) ==
  /\ entries[k] = "none"
  /\ Start(Received(k))
  /\ UNCHANGED dispatched

RecordResult(k, r) ==
  /\ entries[k] # "none"
  /\ Start(Result(k, r))
  /\ UNCHANGED dispatched

\* The client has the response: it will not send the command again.
Acknowledge(k) ==
  /\ entries[k] # "none"
  /\ Start(Acknowledged(k))
  /\ dispatched' = dispatched \ {k}

\* The bytes of a line go behind whatever the file ends in.
AppendLine ==
  /\ file' = Append(file, IF torn THEN Garbage ELSE record)
  /\ torn' = FALSE

\* append(): the line is written and fsynced.
Write ==
  /\ stage = "append"
  /\ AppendLine
  /\ stage' = "apply"
  /\ UNCHANGED <<memory, up, record, errors, crashes, history>>

\* append() throws: the method ends there and the process goes on.
Throws ==
  /\ up
  /\ errors < MaxErrors
  /\ errors' = errors + 1
  /\ stage' = "idle"
  /\ record' = Garbage
  /\ UNCHANGED <<memory, up, crashes, history>>

\* writeSync throws or returns 0, before the first byte or behind a part of the
\* line; nothing truncates the file.
WriteFails ==
  /\ stage = "append"
  /\ Throws
  /\ UNCHANGED file
  /\ torn' \in (IF ShortWrites THEN {torn, TRUE} ELSE {torn})

\* fsyncSync or chmodSync throws behind a whole line.
SyncFails ==
  /\ stage = "append"
  /\ Throws
  /\ AppendLine

\* Slip: the threshold is not looked at.
CompactionDueWhenEmpty == record.type = "acknowledged" /\ entries' = NoEntries

\* When the method compacts the file: never begin().
CompactionDue ==
  \/ record.type # "received" /\ recordCount' >= CompactAfter
  \/ record.type = "acknowledged" /\ entries' = NoEntries

\* The method updates the map; begin() has returned "new" and the command is
\* dispatched.
Apply ==
  /\ stage = "apply"
  /\ entries' = Replay(entries, record)
  /\ recordCount' = recordCount + 1
  /\ stage' = IF CompactionDue THEN "compact" ELSE "idle"
  /\ IF record.type = "received"
       THEN /\ dispatched' = dispatched \cup {record.key}
            /\ redispatched' = redispatched \cup (dispatched \cap {record.key})
       ELSE UNCHANGED <<dispatched, redispatched>>
  /\ record' = Garbage
  /\ UNCHANGED <<disk, up, errors, crashes>>

\* Slips: compaction keeps the receipts only, or the answered commands only.
LinesOfReceipt(k)  == <<Received(k)>>
LinesOfAnswered(k) == IF entries[k] = "received" THEN <<>>
                      ELSE <<Received(k), Result(k, entries[k])>>

\* The lines that stand for the map.
LinesOf(k) == <<Received(k)>> \o (IF entries[k] = "received" THEN <<>>
                                  ELSE <<Result(k, entries[k])>>)
Compacted ==
  LET keys == SetToSeq({k \in Key : entries[k] # "none"})
      lines[i \in 0..Len(keys)] ==
        IF i = 0 THEN <<>> ELSE lines[i - 1] \o LinesOf(keys[i])
  IN  lines[Len(keys)]

\* compact(): the file is replaced in one rename.
Compact ==
  /\ stage = "compact"
  /\ file' = Compacted
  /\ torn' = FALSE
  /\ recordCount' = Len(Compacted)
  /\ stage' = "idle"
  /\ UNCHANGED <<entries, up, record, errors, crashes, history>>

CompactFails ==
  /\ stage = "compact"
  /\ Throws
  /\ UNCHANGED disk

---------------------------------------------------------------------------
\* The process or the machine dies: a line being appended is lost, torn or whole.
JournalCrash ==
  /\ up
  /\ crashes < MaxCrashes
  /\ crashes' = crashes + 1
  /\ up' = FALSE
  /\ stage' = "idle"
  /\ \/ UNCHANGED disk
     \/ stage = "append" /\ torn' = TRUE /\ UNCHANGED file
     \/ stage = "append" /\ AppendLine
  /\ entries' = NoEntries
  /\ recordCount' = 0
  /\ record' = Garbage
  /\ UNCHANGED <<errors, history>>

\* The next process's load(): a torn tail is cut off, the lines are replayed.
Load ==
  /\ ~up
  /\ up' = TRUE
  /\ torn' = FALSE
  /\ entries' = Loaded(file)
  /\ recordCount' = Cardinality({i \in 1..Len(file) : file[i] # Garbage})
  /\ UNCHANGED <<file, stage, record, errors, crashes, history>>

JournalNext ==
  \/ \E k \in Key : Begin(k) \/ Acknowledge(k) \/ \E r \in Response : RecordResult(k, r)
  \/ Write \/ WriteFails \/ SyncFails \/ Apply
  \/ Compact \/ CompactFails
  \/ JournalCrash \/ Load

JournalSpec == JournalInit /\ [][JournalNext]_journalVars

---------------------------------------------------------------------------
(* Properties.                                                             *)

\* The map as the supervisor sees it: in memory, or what the next load() finds.
Visible == IF up THEN entries ELSE Loaded(file)

Entry(k) == INSTANCE CommandEntry WITH entry <- Visible[k]
EntriesStep == \A k \in Key : [Entry(k)!Next]_(Visible[k])

\* For every key the journal is one durable entry: the switch from memory to disk
\* at a crash, wherever it comes in a method and after whatever failed appends
\* and compactions, is an operation of that entry or no step at all.
ImplementsEntries ==
  /\ \A k \in Key : Entry(k)!Init
  /\ [][EntriesStep]_Visible

\* Class comment, command-recovery-journal.ts:50: a command that was dispatched
\* is never taken for a new one, whatever crashes follow, until it is
\* acknowledged.
NeverReplayed == redispatched = {}

\* The file stays bounded although begin() never compacts it: beyond the
\* threshold it holds at most two lines per key, and what is appended before the
\* next result once an error or a crash has skipped a compaction.
FileIsBounded ==
  Len(file) <= CompactAfter + 2 * Cardinality(Key)
               + (errors + crashes) * (Cardinality(Key) + 1)
=============================================================================
