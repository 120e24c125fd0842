---------------------------- MODULE ReplayJournal ----------------------------
(***************************************************************************)
(* One ReplayCache over its append-only file (protocol.rs): consume() tests *)
(* the identifier in memory, appends it as one line, synchronizes the file, *)
(* and only then remembers it and reports success.                          *)
(*                                                                         *)
(* writeln! on an unbuffered file makes two writes, the digits and the line *)
(* end, so a line is two steps. The process may be killed before, between   *)
(* and after them, either may fail part-way, the synchronization may fail,  *)
(* and a power loss may take whatever is not yet synchronized.              *)
(***************************************************************************)
EXTENDS Integers, Sequences, FiniteSets

CONSTANTS
  Ids,       \* identifiers presented to consume()
  MaxWrites  \* bound on the lines and unfinished lines of the file

ASSUME JournalAssumption == MaxWrites \in Nat

VARIABLES
  lines,     \* the terminated lines of the file
  tail,      \* what follows the last line end
  synced,    \* how many of the lines are known to be on the disk
  consumed,  \* ReplayCache.consumed
  pc,        \* where consume() is
  current,   \* the identifier being consumed: {} or {id}
  acked      \* history: the identifiers consume() reported as accepted

vars == <<lines, tail, synced, consumed, pc, current, acked>>

\* A line is what was written between two line ends: usually the digits of one
\* identifier, or what a write left of them. "odd" ends inside a byte.
Chunk == [id : Ids, part : {"whole", "even", "odd"}]
Line == Seq(Chunk)

Whole(id) == [id |-> id, part |-> "whole"]

\* hex::decode fails on an odd number of digits.
Decodes(line) == Cardinality({i \in DOMAIN line : line[i].part = "odd"}) % 2 = 0

\* BufRead::lines yields an unterminated last line like any other.
FileLines == lines \o (IF tail = << >> THEN << >> ELSE <<tail>>)

\* load: every line must decode, or the cache is not built.
Loadable == \A i \in DOMAIN FileLines : Decodes(FileLines[i])

\* The identifiers load returns. A line holding more than one chunk decodes
\* to bytes that are no identifier of Ids.
LoadedFrom(file) == {id \in Ids : \E i \in DOMAIN file : file[i] = <<Whole(id)>>}

-----------------------------------------------------------------------------
\* consume() goes on only for an identifier it does not remember; otherwise it
\* returns Replay.
FirstSeen(id) == id \notin consumed

Consume(id) ==
  /\ pc = "idle" /\ Len(lines) + Len(tail) < MaxWrites
  /\ FirstSeen(id)
  /\ pc' = "digits" /\ current' = {id}
  /\ UNCHANGED <<lines, tail, synced, consumed, acked>>

WriteDigits ==
  /\ pc = "digits"
  /\ \E id \in current : tail' = Append(tail, Whole(id))
  /\ pc' = "newline"
  /\ UNCHANGED <<lines, synced, consumed, current, acked>>

WriteNewline ==
  /\ pc = "newline"
  /\ lines' = Append(lines, tail) /\ tail' = << >>
  /\ pc' = "sync"
  /\ UNCHANGED <<synced, consumed, current, acked>>

\* (Mutation) sync_data is not called.
NoSync == UNCHANGED synced

\* The effect of sync_data: everything written so far is on the disk.
SyncData == synced' = Len(lines)

\* sync_data succeeded: remember the identifier and report success.
Acknowledge ==
  /\ pc = "sync"
  /\ SyncData
  /\ consumed' = consumed \cup current
  /\ acked' = acked \cup current
  /\ pc' = "idle" /\ current' = {}
  /\ UNCHANGED <<lines, tail>>

\* consume() returns an error: the file keeps what was written.
Abandon(rest) ==
  /\ tail' = rest
  /\ pc' = "idle" /\ current' = {}
  /\ UNCHANGED <<lines, synced, consumed, acked>>

\* sync_data failed, or the file could not be opened or written at all.
AppendFails == pc \in {"digits", "sync"} /\ Abandon(tail)

\* A write failed part-way: some digits, or the digits without a line end.
WriteFails ==
  \/ pc = "newline" /\ Abandon(tail)
  \/ /\ pc = "digits"
     /\ \E id \in current, p \in {"even", "odd"} :
          Abandon(Append(tail, [id |-> id, part |-> p]))

\* The process is gone and with it the memory.
Down ==
  /\ pc' = "down" /\ consumed' = {} /\ current' = {}
  /\ UNCHANGED acked

\* The process is killed: the file keeps every byte written.
Kill ==
  /\ pc # "down"
  /\ Down
  /\ UNCHANGED <<lines, tail, synced>>

\* What may be left of a line whose end was not reached: nothing, or some of
\* its chunks, the last perhaps in part.
TailLeftOf(line) ==
  \/ tail' = << >>
  \/ \E n \in 1..Len(line) : tail' = SubSeq(line, 1, n)
  \/ \E i \in 1..Len(line), p \in {"even", "odd"} :
       /\ line[i].part = "whole"
       /\ tail' = Append(SubSeq(line, 1, i - 1), [id |-> line[i].id, part |-> p])

\* The power fails: only the synchronized lines are sure to survive.
PowerLoss ==
  /\ Down
  /\ \E n \in synced..Len(lines) :
       /\ lines' = SubSeq(lines, 1, n)
       /\ TailLeftOf(IF n < Len(lines) THEN lines[n + 1] ELSE tail)
       /\ synced' = n

\* (Mutation) load is not called: the new cache starts empty.
LoadNothing == {}

\* What a new cache remembers.
Load == LoadedFrom(FileLines)

\* ReplayCache::persistent: a file that does not decode keeps it from starting.
Start ==
  /\ pc = "down"
  /\ Loadable
  /\ consumed' = Load
  /\ pc' = "idle"
  /\ UNCHANGED <<lines, tail, synced, current, acked>>

-----------------------------------------------------------------------------
Init ==
  /\ lines = << >> /\ tail = << >> /\ synced = 0
  /\ consumed = {} /\ pc = "idle" /\ current = {}
  /\ acked = {}

Next ==
  \/ \E id \in Ids : Consume(id)
  \/ WriteDigits
  \/ WriteNewline
  \/ Acknowledge
  \/ AppendFails
  \/ WriteFails
  \/ Kill
  \/ PowerLoss
  \/ Start

Spec == Init /\ [][Next]_vars

-----------------------------------------------------------------------------
(* Properties *)

\* Types of the file, the cache and the history.
TypeOK ==
  /\ lines \in Seq(Line) /\ tail \in Line
  /\ synced \in 0..Len(lines)
  /\ consumed \in SUBSET Ids /\ acked \in SUBSET Ids
  /\ pc \in {"idle", "digits", "newline", "sync", "down"}
  /\ current \in SUBSET Ids

\* "Implementations must durably commit an identifier before returning
\* success": an identifier that consume() accepted is on the disk, on a line
\* that load recovers whatever the next failure is.
AckedIsDurable == acked \subseteq LoadedFrom(SubSeq(lines, 1, synced))

\* A line whose last chunk is the identifier.
EndsIn(line, id) == line # << >> /\ line[Len(line)] = Whole(id)

\* This much is left of it when lines are left unfinished: the digits of an
\* accepted identifier are on the disk at the end of a synchronized line. What
\* an earlier unfinished line spoils is where the identifier starts, not its
\* bytes.
AckedEndsALine == \A id \in acked : \E i \in 1..synced : EndsIn(lines[i], id)

\* No synchronized line was joined to an unfinished one.
SyncedLinesWhole == \A i \in 1..synced : Len(lines[i]) = 1

\* As long as that is so, no identifier is accepted twice, across failures and
\* restarts, however many appends have failed.
AcceptedOnce == [][Acknowledge /\ SyncedLinesWhole => current \cap acked = {}]_vars

\* The cache over its file, seen as the cache that replay protection promises:
\* what is stored is what load would return from the file as it is now.
Cache == INSTANCE DurableCache WITH
  remembered <- consumed,
  stored     <- LoadedFrom(FileLines),
  accepted   <- acked,
  running    <- pc # "down"

\* As long as no synchronized line is joined to an unfinished one, every step,
\* failed writes, kills and power losses included, is one that the promise
\* allows: nothing accepted ever leaves what load returns.
KeepsContract == [][SyncedLinesWhole' => Cache!CacheNext \/ UNCHANGED Cache!cacheVars]_vars
=============================================================================
