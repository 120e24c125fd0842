------------------------ MODULE ReplayJournalProofs ------------------------
(***************************************************************************)
(* Proofs about ReplayJournal, for every set of identifiers and every       *)
(* length of the file.                                                      *)
(***************************************************************************)
EXTENDS ReplayJournal, SequenceTheorems, TLAPS

-----------------------------------------------------------------------------
(* Sequences *)

\* Appending to a line keeps it a line and puts the chunk at its end.
LEMMA AppendChunk ==
  ASSUME NEW line \in Line, NEW c \in Chunk
  PROVE  /\ Append(line, c) \in Line
         /\ Append(line, c) # << >>
         /\ Append(line, c)[Len(Append(line, c))] = c
  BY AppendProperties DEF Line

\* A prefix of a sequence has the sequence's elements.
LEMMA Prefix ==
  ASSUME NEW S, NEW q \in Seq(S), NEW n \in 0..Len(q)
  PROVE  /\ SubSeq(q, 1, n) \in Seq(S)
         /\ Len(SubSeq(q, 1, n)) = n
         /\ \A i \in 1..n : SubSeq(q, 1, n)[i] = q[i]
  <1>1. \A i \in 1..n : q[i] \in S
    BY ElementOfSeq
  <1> QED BY <1>1, SubSeqProperties

\* What a power loss leaves of a line is a line.
LEMMA TailLeftType ==
  ASSUME NEW line \in Line, TailLeftOf(line)
  PROVE  tail' \in Line
  <1>1. << >> \in Line
    BY EmptySeq DEF Line
  <1>2. Len(line) \in Nat /\ \A n \in 0..Len(line) : SubSeq(line, 1, n) \in Line
    BY Prefix, LenProperties DEF Line
  <1>3. ASSUME NEW i \in 1..Len(line), NEW p \in {"even", "odd"}
        PROVE  Append(SubSeq(line, 1, i - 1), [id |-> line[i].id, part |-> p]) \in Line
    <2>1. SubSeq(line, 1, i - 1) \in Line
      BY <1>2
    <2>2. line[i] \in Chunk
      BY ElementOfSeq DEF Line
    <2>3. [id |-> line[i].id, part |-> p] \in Chunk
      BY <2>2 DEF Chunk
    <2> QED BY <2>1, <2>3, AppendChunk
  <1>4. CASE tail' = << >>
    BY <1>1, <1>4
  <1>5. ASSUME NEW n \in 1..Len(line), tail' = SubSeq(line, 1, n)
        PROVE  tail' \in Line
    BY <1>2, <1>5
  <1>6. ASSUME NEW i \in 1..Len(line), NEW p \in {"even", "odd"},
               tail' = Append(SubSeq(line, 1, i - 1), [id |-> line[i].id, part |-> p])
        PROVE  tail' \in Line
    BY <1>3, <1>6
  <1> QED BY <1>4, <1>5, <1>6, Zenon DEF TailLeftOf

-----------------------------------------------------------------------------
(* The inductive invariant *)

Busy == pc \in {"digits", "newline", "sync"}

\* consume() works on one identifier, which it did not remember when it began.
OneCurrent ==
  IF Busy THEN \E id \in Ids : current = {id} /\ id \notin consumed ELSE current = {}

\* Between the writes and the acknowledgement the identifier ends the file.
CurrentWritten ==
  /\ pc = "newline" => \A id \in current : EndsIn(tail, id)
  /\ pc = "sync" => /\ Len(lines) > 0
                    /\ \A id \in current : EndsIn(lines[Len(lines)], id)

\* While no synchronized line was joined to an unfinished one, a running cache
\* remembers all it accepted.
NothingForgotten == SyncedLinesWhole /\ pc # "down" => acked \subseteq consumed

IInv ==
  /\ TypeOK
  /\ OneCurrent
  /\ CurrentWritten
  /\ AckedEndsALine
  /\ NothingForgotten

LEMMA InitInv == Init => IInv
  <1> SUFFICES ASSUME Init PROVE IInv
    OBVIOUS
  <1>1. TypeOK
    BY EmptySeq DEF Init, TypeOK, Line
  <1> QED
    BY <1>1 DEF Init, IInv, OneCurrent, Busy, CurrentWritten, AckedEndsALine,
                NothingForgotten, SyncedLinesWhole

\* Accepted identifiers on whole lines are the ones load finds.
LEMMA WholeLinesLoad ==
  ASSUME IInv, SyncedLinesWhole
  PROVE  AckedIsDurable
  <1> SUFFICES ASSUME NEW id \in acked
               PROVE  id \in LoadedFrom(SubSeq(lines, 1, synced))
    BY DEF AckedIsDurable
  <1>1. PICK i \in 1..synced : EndsIn(lines[i], id)
    BY DEF IInv, AckedEndsALine
  <1>2. /\ lines \in Seq(Line) /\ synced \in 0..Len(lines) /\ id \in Ids
        /\ Len(lines) \in Nat
    BY LenProperties DEF IInv, TypeOK
  <1>3. i \in 1..Len(lines)
    BY <1>2
  <1>4. lines[i] \in Line
    BY <1>2, <1>3, ElementOfSeq
  <1>5. Len(lines[i]) = 1 /\ lines[i][1] = Whole(id)
    BY <1>1, <1>3 DEF IInv, SyncedLinesWhole, EndsIn
  <1>6. lines[i] = <<Whole(id)>>
    BY <1>4, <1>5 DEF Line
  <1>7. /\ SubSeq(lines, 1, synced) \in Seq(Line)
        /\ Len(SubSeq(lines, 1, synced)) = synced
        /\ SubSeq(lines, 1, synced)[i] = lines[i]
    BY <1>2, Prefix
  <1>8. i \in DOMAIN SubSeq(lines, 1, synced)
    BY <1>7, LenProperties
  <1> QED BY <1>2, <1>6, <1>7, <1>8 DEF LoadedFrom

\* The file as load reads it begins with the synchronized lines, so while these
\* are whole, everything accepted is among what load returns.
LEMMA WholeLinesStored ==
  IInv => (SyncedLinesWhole => acked \subseteq LoadedFrom(FileLines))
  <1> SUFFICES ASSUME IInv, SyncedLinesWhole
               PROVE  acked \subseteq LoadedFrom(FileLines)
    OBVIOUS
  <1>0. /\ lines \in Seq(Line) /\ Len(lines) \in Nat
        /\ tail \in Line /\ synced \in 0..Len(lines)
    BY LenProperties DEF IInv, TypeOK
  <1>1. \A i \in 1..synced : i \in DOMAIN FileLines /\ FileLines[i] = lines[i]
    <2>1. CASE tail = << >>
      BY <1>0, <2>1, ConcatEmptySeq, LenProperties DEF FileLines
    <2>2. CASE tail # << >>
      <3>1. <<tail>> \in Seq(Line) /\ FileLines = lines \o <<tail>>
        BY <1>0, <2>2 DEF FileLines
      <3> QED BY <1>0, <3>1, ConcatProperties, LenProperties
    <2> QED BY <2>1, <2>2
  <1>2. \A i \in DOMAIN SubSeq(lines, 1, synced) :
          i \in 1..synced /\ SubSeq(lines, 1, synced)[i] = lines[i]
    BY <1>0, Prefix, LenProperties
  <1> QED
    BY <1>1, <1>2, WholeLinesLoad DEF AckedIsDurable, LoadedFrom

\* Every step keeps the invariant.
LEMMA NextInv == IInv /\ [Next]_vars => IInv'
  <1> SUFFICES ASSUME IInv, [Next]_vars
               PROVE  IInv'
    OBVIOUS
  <1>0. /\ lines \in Seq(Line) /\ Len(lines) \in Nat
        /\ tail \in Line /\ synced \in 0..Len(lines)
        /\ \A i \in 1..Len(lines) : lines[i] \in Line
    BY LenProperties, ElementOfSeq DEF IInv, TypeOK
  <1> USE DEF IInv
  <1>1. ASSUME NEW id \in Ids, Consume(id)
        PROVE  IInv'
    BY <1>1 DEF Consume, FirstSeen, TypeOK, OneCurrent, Busy, CurrentWritten,
                AckedEndsALine, NothingForgotten, SyncedLinesWhole
  <1>2. ASSUME WriteDigits
        PROVE  IInv'
    <2>1. PICK id \in Ids : current = {id} /\ id \notin consumed
      BY <1>2 DEF WriteDigits, OneCurrent, Busy
    <2>2. tail' = Append(tail, Whole(id)) /\ Whole(id) \in Chunk
      BY <1>2, <2>1 DEF WriteDigits, Whole, Chunk
    <2>3. tail' \in Line /\ EndsIn(tail', id)
      BY <1>0, <2>2, AppendChunk DEF EndsIn
    <2> QED
      BY <1>2, <2>1, <2>3
      DEF WriteDigits, TypeOK, OneCurrent, Busy, CurrentWritten, AckedEndsALine,
          NothingForgotten, SyncedLinesWhole
  <1>3. ASSUME WriteNewline
        PROVE  IInv'
    <2>1. /\ lines' \in Seq(Line) /\ Len(lines') = Len(lines) + 1
          /\ \A i \in 1..Len(lines) : lines'[i] = lines[i]
          /\ lines'[Len(lines')] = tail
          /\ tail' = << >> /\ tail' \in Line
      BY <1>0, <1>3, AppendProperties, EmptySeq DEF WriteNewline, Line
    <2>2. TypeOK'
      BY <1>0, <1>3, <2>1 DEF WriteNewline, TypeOK
    <2>3. OneCurrent'
      BY <1>3 DEF WriteNewline, OneCurrent, Busy
    <2>4. CurrentWritten'
      BY <1>0, <1>3, <2>1 DEF WriteNewline, CurrentWritten
    <2>5. NothingForgotten'
      BY <1>0, <1>3, <2>1 DEF WriteNewline, NothingForgotten, SyncedLinesWhole
    <2>6. AckedEndsALine'
      BY <1>0, <1>3, <2>1 DEF WriteNewline, AckedEndsALine
    <2> QED BY <2>2, <2>3, <2>4, <2>5, <2>6
  <1>4. ASSUME Acknowledge
        PROVE  IInv'
    <2>1. TypeOK' /\ OneCurrent' /\ CurrentWritten'
      BY <1>0, <1>4
      DEF Acknowledge, SyncData, TypeOK, OneCurrent, Busy, CurrentWritten
    <2>2. NothingForgotten'
      BY <1>0, <1>4 DEF Acknowledge, SyncData, NothingForgotten, SyncedLinesWhole
    <2>3. AckedEndsALine'
      <3> SUFFICES ASSUME NEW id \in acked \cup current
                   PROVE  \E i \in 1..Len(lines) : EndsIn(lines[i], id)
        BY <1>4 DEF Acknowledge, SyncData, AckedEndsALine
      <3>1. CASE id \in acked
        BY <1>0, <3>1 DEF AckedEndsALine
      <3>2. CASE id \in current
        BY <1>0, <1>4, <3>2 DEF Acknowledge, CurrentWritten
      <3> QED BY <3>1, <3>2
    <2> QED BY <2>1, <2>2, <2>3
  <1>5. ASSUME NEW rest \in Line, Abandon(rest), pc # "down"
        PROVE  IInv'
    BY <1>0, <1>5 DEF Abandon, TypeOK, OneCurrent, Busy, CurrentWritten, AckedEndsALine,
                      NothingForgotten, SyncedLinesWhole
  <1>6. ASSUME AppendFails
        PROVE  IInv'
    BY <1>0, <1>5, <1>6 DEF AppendFails
  <1>7. ASSUME WriteFails
        PROVE  IInv'
    <2>1. CASE pc = "newline" /\ Abandon(tail)
      BY <1>0, <1>5, <1>7, <2>1 DEF WriteFails
    <2>2. ASSUME NEW id \in current, NEW p \in {"even", "odd"},
                 Abandon(Append(tail, [id |-> id, part |-> p])), pc = "digits"
          PROVE  IInv'
      <3>1. [id |-> id, part |-> p] \in Chunk
        BY DEF Chunk, TypeOK
      <3>2. Append(tail, [id |-> id, part |-> p]) \in Line
        BY <1>0, <3>1, AppendChunk
      <3> QED BY <1>5, <1>7, <2>2, <3>2 DEF WriteFails
    <2> QED BY <1>7, <2>1, <2>2 DEF WriteFails
  <1>8. ASSUME Kill
        PROVE  IInv'
    BY <1>0, <1>8 DEF Kill, Down, TypeOK, OneCurrent, Busy, CurrentWritten,
                      AckedEndsALine, NothingForgotten
  <1>9. ASSUME PowerLoss
        PROVE  IInv'
    <2>1. PICK n \in synced..Len(lines) :
            /\ lines' = SubSeq(lines, 1, n)
            /\ TailLeftOf(IF n < Len(lines) THEN lines[n + 1] ELSE tail)
            /\ synced' = n
      BY <1>9 DEF PowerLoss
    <2>2. n \in 0..Len(lines)
      BY <1>0
    <2>3. /\ lines' \in Seq(Line) /\ Len(lines') = n
          /\ \A i \in 1..n : lines'[i] = lines[i]
      BY <1>0, <2>1, <2>2, Prefix
    <2>4. (IF n < Len(lines) THEN lines[n + 1] ELSE tail) \in Line
      BY <1>0, <2>2
    <2>5. tail' \in Line
      BY <2>1, <2>4, TailLeftType
    <2>6. TypeOK' /\ OneCurrent' /\ NothingForgotten' /\ CurrentWritten'
      BY <1>9, <2>1, <2>2, <2>3, <2>5
      DEF PowerLoss, Down, TypeOK, OneCurrent, Busy, NothingForgotten, CurrentWritten
    <2>7. AckedEndsALine'
      BY <1>0, <1>9, <2>1, <2>2, <2>3 DEF PowerLoss, Down, AckedEndsALine
    <2> QED BY <2>6, <2>7
  <1>10. ASSUME Start
         PROVE  IInv'
    <2>1. NothingForgotten'
      BY <1>10, WholeLinesStored
      DEF Start, NothingForgotten, SyncedLinesWhole, Load
    <2>2. Load \subseteq Ids
      BY DEF Load, LoadedFrom
    <2>3. TypeOK' /\ OneCurrent' /\ CurrentWritten' /\ AckedEndsALine'
      BY <1>0, <1>10, <2>2 DEF Start, TypeOK, OneCurrent, Busy, CurrentWritten,
                         AckedEndsALine
    <2> QED BY <2>1, <2>3
  <1>11. ASSUME UNCHANGED vars
         PROVE  IInv'
    BY <1>0, <1>11 DEF vars, TypeOK, OneCurrent, Busy, CurrentWritten, AckedEndsALine,
                       NothingForgotten, SyncedLinesWhole
  <1> QED
    BY <1>1, <1>2, <1>3, <1>4, <1>6, <1>7, <1>8, <1>9, <1>10, <1>11 DEF Next

-----------------------------------------------------------------------------
(* Theorems *)

\* The inductive invariant holds in every reachable state.
THEOREM JournalInvariance == Spec => []IInv
  BY InitInv, NextInv, PTL DEF Spec

\* The file, the cache and the history have their types.
THEOREM JournalTypeCorrect == Spec => []TypeOK
  <1>1. IInv => TypeOK
    BY DEF IInv
  <1> QED BY <1>1, JournalInvariance, PTL

\* Whatever fails, in whatever step, the digits of every accepted identifier
\* end a synchronized line of the file.
THEOREM AckedDigitsSurvive == Spec => []AckedEndsALine
  <1>1. IInv => AckedEndsALine
    BY DEF IInv
  <1> QED BY <1>1, JournalInvariance, PTL

\* While no synchronized line was joined to an unfinished one, append_and_sync
\* keeps its contract: every accepted identifier is recovered by load after any
\* kill or power loss.
THEOREM AckedSurvives == Spec => [](SyncedLinesWhole => AckedIsDurable)
  <1>1. IInv => (SyncedLinesWhole => AckedIsDurable)
    BY WholeLinesLoad
  <1> QED BY <1>1, JournalInvariance, PTL

\* While no synchronized line was joined to an unfinished one, no identifier is
\* accepted twice, in one process or across restarts.
THEOREM NoSecondAcceptance == Spec => AcceptedOnce
  <1>1. IInv => (Acknowledge /\ SyncedLinesWhole => current \cap acked = {})
    BY DEF IInv, OneCurrent, Busy, NothingForgotten, Acknowledge
  <1>2. IInv /\ [Next]_vars
          => [Acknowledge /\ SyncedLinesWhole => current \cap acked = {}]_vars
    BY <1>1
  <1> QED BY <1>2, JournalInvariance, PTL DEF Spec, AcceptedOnce

-----------------------------------------------------------------------------
(* The promise of replay protection *)

\* The empty file stores nothing.
LEMMA InitCache == Init => Cache!CacheInit
  <1> SUFFICES ASSUME Init PROVE Cache!CacheInit
    OBVIOUS
  <1>1. FileLines = << >>
    BY DEF Init, FileLines
  <1> QED BY <1>1 DEF Init, Cache!CacheInit, LoadedFrom

\* Every step that leaves the accepted identifiers stored is one of the promise.
LEMMA CacheStep ==
  ASSUME IInv, [Next]_vars, acked' \subseteq LoadedFrom(FileLines)'
  PROVE  Cache!CacheNext \/ UNCHANGED Cache!cacheVars
  <1>1. ASSUME NEW id \in Ids, Consume(id)
        PROVE  Cache!Attempt
    BY <1>1 DEF Consume, Cache!Attempt
  <1>2. CASE WriteDigits \/ WriteNewline
    BY <1>2 DEF WriteDigits, WriteNewline, Cache!Attempt, Cache!CacheNext
  <1>3. CASE Acknowledge
    <2>1. PICK id \in Ids : current = {id} /\ id \notin consumed
      BY <1>3 DEF Acknowledge, IInv, OneCurrent, Busy
    <2>2. Cache!Accept(id)
      BY <1>3, <2>1 DEF Acknowledge, Cache!Accept
    <2> QED BY <2>2 DEF Cache!CacheNext
  <1>4. CASE AppendFails \/ WriteFails
    BY <1>4 DEF AppendFails, WriteFails, Abandon, Cache!Attempt, Cache!CacheNext
  <1>5. CASE Kill \/ PowerLoss
    BY <1>5 DEF Kill, PowerLoss, Down, Cache!StopCache, Cache!CacheNext
  <1>6. CASE Start
    BY <1>6 DEF Start, Load, FileLines, Cache!StartCache, Cache!CacheNext
  <1>7. CASE UNCHANGED vars
    BY <1>7 DEF vars, FileLines, Cache!cacheVars
  <1> QED
    BY <1>1, <1>2, <1>3, <1>4, <1>5, <1>6, <1>7 DEF Next, Cache!CacheNext

\* While no synchronized line was joined to an unfinished one, every step of the
\* cache over its file is a step the promise of replay protection allows.
THEOREM JournalKeepsContract == Spec => KeepsContract
  <1>1. IInv /\ [Next]_vars
          /\ (SyncedLinesWhole => acked \subseteq LoadedFrom(FileLines))'
          => [SyncedLinesWhole' => Cache!CacheNext \/ UNCHANGED Cache!cacheVars]_vars
    BY CacheStep
  <1> QED
    BY <1>1, WholeLinesStored, JournalInvariance, PTL DEF Spec, KeepsContract

\* In a run in which no synchronized line is ever joined to an unfinished one,
\* the cache over its file implements the promise, all failures included.
THEOREM JournalImplementsCache == Spec /\ []SyncedLinesWhole => Cache!CacheSpec
  <1>1. IInv /\ [Next]_vars /\ SyncedLinesWhole'
          /\ (SyncedLinesWhole => acked \subseteq LoadedFrom(FileLines))'
          => [Cache!CacheNext]_(Cache!cacheVars)
    BY CacheStep
  <1> QED
    BY <1>1, InitCache, WholeLinesStored, JournalInvariance, PTL
    DEF Spec, Cache!CacheSpec

-----------------------------------------------------------------------------
(* Where the promise is lost *)

\* An append begins only where a line begins.
BeginsOnALine == pc = "idle" => tail = << >>

\* Then every line is one identifier, and so is the line being written.
LinesWhole ==
  /\ \A i \in 1..Len(lines) : Len(lines[i]) = 1
  /\ pc = "digits" => tail = << >>
  /\ pc = "newline" => Len(tail) = 1

LEMMA LinesStayWhole ==
  ASSUME TypeOK, LinesWhole, BeginsOnALine, [Next]_vars
  PROVE  LinesWhole'
  <1>0. lines \in Seq(Line) /\ Len(lines) \in Nat /\ tail \in Line /\ synced \in Nat
    BY LenProperties DEF TypeOK
  <1>1. ASSUME NEW id \in Ids, Consume(id)
        PROVE  LinesWhole'
    BY <1>1 DEF Consume, LinesWhole, BeginsOnALine
  <1>2. CASE WriteDigits
    <2>1. PICK id \in Ids : tail' = Append(tail, Whole(id))
      BY <1>2 DEF WriteDigits, TypeOK
    <2>2. Whole(id) \in Chunk
      BY DEF Whole, Chunk
    <2>3. Len(tail') = 1
      BY <1>0, <1>2, <2>1, <2>2, AppendProperties DEF WriteDigits, LinesWhole, Line
    <2> QED BY <1>2, <2>3 DEF WriteDigits, LinesWhole
  <1>3. CASE WriteNewline
    <2>1. /\ Len(lines') = Len(lines) + 1
          /\ \A i \in 1..Len(lines) : lines'[i] = lines[i]
          /\ lines'[Len(lines) + 1] = tail
      BY <1>0, <1>3, AppendProperties DEF WriteNewline
    <2>2. Len(tail) = 1
      BY <1>3 DEF WriteNewline, LinesWhole
    <2>3. \A i \in 1..Len(lines') : Len(lines'[i]) = 1
      BY <1>0, <2>1, <2>2 DEF LinesWhole
    <2> QED BY <1>3, <2>3 DEF WriteNewline, LinesWhole
  <1>4. CASE Acknowledge \/ AppendFails \/ WriteFails \/ Kill
    BY <1>4 DEF Acknowledge, AppendFails, WriteFails, Abandon, Kill, Down, LinesWhole
  <1>5. CASE PowerLoss
    <2>1. PICK n \in synced..Len(lines) : lines' = SubSeq(lines, 1, n)
      BY <1>5 DEF PowerLoss
    <2>2. n \in 0..Len(lines)
      BY <1>0
    <2>3. Len(lines') = n /\ \A i \in 1..n : lines'[i] = lines[i]
      BY <1>0, <2>1, <2>2, Prefix
    <2>4. \A i \in 1..Len(lines') : Len(lines'[i]) = 1
      BY <1>0, <2>2, <2>3 DEF LinesWhole
    <2> QED BY <1>5, <2>4 DEF PowerLoss, Down, LinesWhole
  <1>6. CASE Start \/ UNCHANGED vars
    BY <1>6 DEF Start, vars, LinesWhole
  <1> QED BY <1>1, <1>2, <1>3, <1>4, <1>5, <1>6 DEF Next

\* The one way the promise is lost is going on after an unfinished line: in a
\* run in which every append begins where a line begins, because a failed
\* append or a restart never leaves an unfinished line in use, the cache over
\* its file implements the promise.
THEOREM WholeLinesSuffice == Spec /\ []BeginsOnALine => Cache!CacheSpec
  <1>1. Init => LinesWhole
    BY DEF Init, LinesWhole
  <1>2. TypeOK /\ LinesWhole /\ BeginsOnALine /\ [Next]_vars => LinesWhole'
    BY LinesStayWhole
  <1>3. TypeOK /\ LinesWhole => SyncedLinesWhole
    BY LenProperties DEF TypeOK, LinesWhole, SyncedLinesWhole
  <1> QED
    BY <1>1, <1>2, <1>3, JournalTypeCorrect, JournalImplementsCache, PTL DEF Spec
=============================================================================
