---------------------- MODULE EntitlementVerifierProofs ----------------------
(***************************************************************************)
(* Proofs about EntitlementVerifier, for every trust bundle with distinct  *)
(* key identifiers, every set of messages and every length of the file.    *)
(***************************************************************************)
EXTENDS EntitlementVerifier, ReplayJournalProofs

-----------------------------------------------------------------------------
(* The verifier's file is a replay journal *)

\* Every step of the verifier is a step of its replay cache, or leaves it alone.
LEMMA JournalStep == [VerifierNext]_verifierVars => [Next]_vars
  <1> SUFFICES ASSUME [VerifierNext]_verifierVars
               PROVE  [Next]_vars
    OBVIOUS
  <1>1. ASSUME NEW e \in Envelopes, NEW x \in Expectations, ReadCommand(e, x)
        PROVE  Next
    BY <1>1, VerifierAssumption DEF ReadCommand, Next
  <1>2. CASE WriteLine \/ Answer \/ AnswerError \/ Stop \/ StartVerifier
    BY <1>2 DEF Next, WriteLine, Answer, AnswerError, Stop, StartVerifier
  <1>3. CASE ClockMoves \/ UNCHANGED verifierVars
    BY <1>3 DEF ClockMoves, verifierVars
  <1> QED BY <1>1, <1>2, <1>3 DEF VerifierNext

\* The verifier implements the replay journal, so what holds of the journal
\* holds of the client's replay file.
THEOREM VerifierRunsJournal == VerifierSpec => Spec
  <1>1. VerifierInit => Init
    BY DEF VerifierInit
  <1> QED BY <1>1, JournalStep, PTL DEF VerifierSpec, Spec

\* No nonce is accepted twice by the client, across faults and restarts, while
\* no line of its file was joined to an unfinished one.
THEOREM VerifierAcceptsOnce == VerifierSpec => AcceptedOnce
  BY VerifierRunsJournal, NoSecondAcceptance, PTL

\* Each step of the client's verifier keeps the promise of replay protection,
\* while no line of its file was joined to an unfinished one.
THEOREM VerifierKeepsContract == VerifierSpec => KeepsContract
  BY VerifierRunsJournal, JournalKeepsContract, PTL

\* The digits of every nonce the client accepted survive on its disk.
THEOREM VerifierKeepsDigits == VerifierSpec => []AckedEndsALine
  BY VerifierRunsJournal, AckedDigitsSurvive, PTL

-----------------------------------------------------------------------------
(* Verdicts *)

\* With distinct key identifiers, the key the store holds for an identifier is
\* the one that every authority listing the identifier lists.
LEMMA StoredKeyIsListed ==
  ASSUME NEW a, NEW k, TrustsAuthority(a, k), NEW key \in StoredKeys(k)
  PROVE  \E i \in DOMAIN Bundle : Bundle[i].authority_id = a /\ Bundle[i].key = key
  <1>1. PICK i \in DOMAIN Bundle : Bundle[i].authority_id = a /\ Bundle[i].key_id = k
    BY DEF TrustsAuthority
  <1>2. PICK j \in DOMAIN Bundle : Bundle[j].key_id = k /\ Bundle[j].key = key
    BY DEF StoredKeys
  <1>3. i = j
    BY <1>1, <1>2, VerifierAssumption DEF KeyIdsDistinct
  <1> QED BY <1>1, <1>2, <1>3

\* A command under way carries an authentic entitlement.
CommandsAuthentic == \A c \in command : Authentic(c.entitlement, c.now)

VerdictInv ==
  /\ VerifierTypeOK
  /\ CommandsAuthentic
  /\ VerdictSound

\* A command that passes both groups of tests deserves its verdict.
LEMMA SoundCommand ==
  ASSUME NEW c, Authentic(c.entitlement, c.now), Matches(c)
  PROVE  /\ Genuine(c.entitlement, c.expected.authority)
         /\ c.entitlement.session_id = c.expected.session_id
         /\ c.entitlement.authorized_stage = c.expected.stage
         /\ c.now <= c.entitlement.expires_at
         /\ WithinSkew(c.now, c.entitlement.issued_at)
  <1>1. TrustsAuthority(c.expected.authority, c.entitlement.key_id)
    BY DEF Matches
  <1>2. c.entitlement.signed_by \in StoredKeys(c.entitlement.key_id)
    BY DEF Authentic, VerifySignedPayload
  <1>3. Genuine(c.entitlement, c.expected.authority)
    BY <1>1, <1>2, StoredKeyIsListed DEF Genuine, Authentic
  <1> QED BY <1>3 DEF Matches, Authentic

LEMMA VerdictStep ==
  ASSUME VerdictInv, TypeOK', [VerifierNext]_verifierVars
  PROVE  VerdictInv'
  <1> USE DEF VerdictInv, VerifierTypeOK, CommandsAuthentic
  <1>1. ASSUME NEW e \in Envelopes, NEW x \in Expectations, ReadCommand(e, x)
        PROVE  VerdictInv'
    BY <1>1 DEF ReadCommand, Command, VerdictSound
  <1>2. CASE WriteLine
    BY <1>2 DEF WriteLine, VerdictSound
  <1>3. CASE Answer
    <2>1. verdicts' \in SUBSET Command /\ command' = {} /\ clock' \in 0..MaxTime
      BY <1>3 DEF Answer
    <2>2. ASSUME NEW c \in verdicts'
          PROVE  /\ Genuine(c.entitlement, c.expected.authority)
                 /\ c.entitlement.session_id = c.expected.session_id
                 /\ c.entitlement.authorized_stage = c.expected.stage
                 /\ c.now <= c.entitlement.expires_at
                 /\ WithinSkew(c.now, c.entitlement.issued_at)
      <3>1. CASE c \in verdicts
        BY <3>1 DEF VerdictSound
      <3>2. CASE c \in command /\ Matches(c)
        BY <3>2, SoundCommand
      <3> QED BY <1>3, <2>2, <3>1, <3>2 DEF Answer
    <2> QED BY <2>1, <2>2 DEF VerdictSound
  <1>4. CASE AnswerError
    BY <1>4 DEF AnswerError, VerdictSound
  <1>5. CASE Stop
    BY <1>5 DEF Stop, VerdictSound
  <1>6. CASE StartVerifier
    BY <1>6 DEF StartVerifier, VerdictSound
  <1>7. CASE ClockMoves
    BY <1>7 DEF ClockMoves, VerdictSound
  <1>8. CASE UNCHANGED verifierVars
    BY <1>8 DEF verifierVars, VerdictSound
  <1> QED BY <1>1, <1>2, <1>3, <1>4, <1>5, <1>6, <1>7, <1>8 DEF VerifierNext

\* Whatever is presented with whatever expectations, in whatever order and with
\* whatever faults, a verdict is given only on a genuine entitlement of the
\* expected authority that fits session, stage and time.
THEOREM VerdictsAreSound == VerifierSpec => []VerdictSound
  <1>1. VerifierInit /\ TypeOK => VerdictInv
    BY DEF VerifierInit, VerdictInv, VerifierTypeOK, CommandsAuthentic, VerdictSound
  <1>2. VerdictInv /\ TypeOK' /\ [VerifierNext]_verifierVars => VerdictInv'
    BY VerdictStep
  <1>3. VerifierSpec => []TypeOK
    BY VerifierRunsJournal, JournalTypeCorrect, PTL
  <1>4. VerdictInv => VerdictSound
    BY DEF VerdictInv
  <1> QED BY <1>1, <1>2, <1>3, <1>4, PTL DEF VerifierSpec

-----------------------------------------------------------------------------
(* Spent nonces *)

\* The nonces of messages that a key of the bundle signed for this client.
GenuineNonces ==
  {n \in Ids : \E e \in Envelopes :
     e.nonce = n /\ \E i \in DOMAIN Bundle : Genuine(e, Bundle[i].authority_id)}

GenuineChunk == [id : GenuineNonces, part : {"whole", "even", "odd"}]
GenuineLine == Seq(GenuineChunk)

\* Memory and file hold genuine nonces only, whole or in part.
SpentInv ==
  /\ consumed \subseteq GenuineNonces
  /\ current \subseteq GenuineNonces
  /\ acked \subseteq GenuineNonces
  /\ tail \in GenuineLine
  /\ lines \in Seq(GenuineLine)

\* An authentic message is genuine.
LEMMA AuthenticIsGenuine ==
  ASSUME NEW e \in Envelopes, NEW now, Authentic(e, now)
  PROVE  e.nonce \in GenuineNonces
  <1>1. PICK i \in DOMAIN Bundle : Bundle[i].key = e.signed_by
    BY DEF Authentic, VerifySignedPayload, StoredKeys
  <1>2. Genuine(e, Bundle[i].authority_id)
    BY <1>1 DEF Genuine, Authentic
  <1> QED BY <1>2, VerifierAssumption DEF GenuineNonces

\* A chunk of a genuine nonce keeps a line genuine.
LEMMA AppendGenuine ==
  ASSUME NEW line \in GenuineLine, NEW n \in GenuineNonces,
         NEW p \in {"whole", "even", "odd"}
  PROVE  Append(line, [id |-> n, part |-> p]) \in GenuineLine
  <1>1. [id |-> n, part |-> p] \in GenuineChunk
    BY DEF GenuineChunk
  <1> QED BY <1>1, AppendProperties DEF GenuineLine

\* What a power loss leaves of a genuine line is genuine.
LEMMA TailLeftGenuine ==
  ASSUME NEW line \in GenuineLine, TailLeftOf(line)
  PROVE  tail' \in GenuineLine
  <1>1. << >> \in GenuineLine
    BY EmptySeq DEF GenuineLine
  <1>2. Len(line) \in Nat /\ \A n \in 0..Len(line) : SubSeq(line, 1, n) \in GenuineLine
    BY Prefix, LenProperties DEF GenuineLine
  <1>3. CASE tail' = << >>
    BY <1>1, <1>3
  <1>4. ASSUME NEW n \in 1..Len(line), tail' = SubSeq(line, 1, n)
        PROVE  tail' \in GenuineLine
    BY <1>2, <1>4
  <1>5. ASSUME NEW i \in 1..Len(line), NEW p \in {"even", "odd"},
               tail' = Append(SubSeq(line, 1, i - 1), [id |-> line[i].id, part |-> p])
        PROVE  tail' \in GenuineLine
    <2>1. SubSeq(line, 1, i - 1) \in GenuineLine
      BY <1>2
    <2>2. line[i] \in GenuineChunk
      BY ElementOfSeq DEF GenuineLine
    <2>3. line[i].id \in GenuineNonces
      BY <2>2 DEF GenuineChunk
    <2> QED BY <1>5, <2>1, <2>3, AppendGenuine
  <1> QED BY <1>3, <1>4, <1>5, Zenon DEF TailLeftOf

\* What load finds in genuine lines is genuine.
LEMMA LoadGenuine ==
  ASSUME SpentInv
  PROVE  Load \subseteq GenuineNonces
  <1>1. FileLines \in Seq(GenuineLine)
    <2>1. CASE tail = << >>
      BY <2>1, ConcatEmptySeq DEF FileLines, SpentInv
    <2>2. CASE tail # << >>
      <3>1. <<tail>> \in Seq(GenuineLine)
        BY DEF SpentInv
      <3> QED BY <2>2, <3>1, ConcatProperties DEF FileLines, SpentInv
    <2> QED BY <2>1, <2>2
  <1> SUFFICES ASSUME NEW id \in Load
               PROVE  id \in GenuineNonces
    OBVIOUS
  <1>2. PICK i \in DOMAIN FileLines : FileLines[i] = <<Whole(id)>>
    BY DEF Load, LoadedFrom
  <1>3. <<Whole(id)>> \in GenuineLine
    BY <1>1, <1>2, ElementOfSeq, LenProperties
  <1>4. Whole(id) \in GenuineChunk
    <2>1. Len(<<Whole(id)>>) = 1 /\ <<Whole(id)>>[1] = Whole(id)
      OBVIOUS
    <2> QED BY <1>3, <2>1, ElementOfSeq DEF GenuineLine
  <1> QED BY <1>4 DEF Whole, GenuineChunk

LEMMA SpentStep ==
  ASSUME SpentInv, TypeOK, [VerifierNext]_verifierVars
  PROVE  SpentInv'
  <1>1. ASSUME NEW e \in Envelopes, NEW x \in Expectations, ReadCommand(e, x)
        PROVE  SpentInv'
    <2>1. e.nonce \in GenuineNonces
      BY <1>1, AuthenticIsGenuine DEF ReadCommand
    <2> QED BY <1>1, <2>1 DEF ReadCommand, Consume, SpentInv
  <1>2. CASE WriteDigits
    <2>1. PICK id \in current : tail' = Append(tail, Whole(id))
      BY <1>2 DEF WriteDigits
    <2>2. tail' \in GenuineLine
      BY <2>1, AppendGenuine DEF Whole, SpentInv
    <2> QED BY <1>2, <2>2 DEF WriteDigits, SpentInv
  <1>3. CASE WriteNewline
    <2>1. lines' \in Seq(GenuineLine) /\ tail' \in GenuineLine
      BY <1>3, AppendProperties, EmptySeq DEF WriteNewline, SpentInv, GenuineLine
    <2> QED BY <1>3, <2>1 DEF WriteNewline, SpentInv
  <1>4. CASE Acknowledge
    BY <1>4 DEF Acknowledge, SpentInv
  <1>5. CASE AppendFails
    BY <1>5 DEF AppendFails, Abandon, SpentInv
  <1>6. CASE WriteFails
    <2>1. CASE Abandon(tail)
      BY <2>1 DEF Abandon, SpentInv
    <2>2. ASSUME NEW id \in current, NEW p \in {"even", "odd"},
                 Abandon(Append(tail, [id |-> id, part |-> p]))
          PROVE  SpentInv'
      <3>1. Append(tail, [id |-> id, part |-> p]) \in GenuineLine
        BY AppendGenuine DEF SpentInv
      <3> QED BY <2>2, <3>1 DEF Abandon, SpentInv
    <2> QED BY <1>6, <2>1, <2>2 DEF WriteFails
  <1>7. CASE Kill
    BY <1>7 DEF Kill, Down, SpentInv
  <1>8. CASE PowerLoss
    <2>1. /\ lines \in Seq(GenuineLine) /\ Len(lines) \in Nat /\ tail \in GenuineLine
          /\ \A i \in 1..Len(lines) : lines[i] \in GenuineLine
      BY LenProperties, ElementOfSeq DEF SpentInv
    <2>2. PICK n \in synced..Len(lines) :
            /\ lines' = SubSeq(lines, 1, n)
            /\ TailLeftOf(IF n < Len(lines) THEN lines[n + 1] ELSE tail)
      BY <1>8 DEF PowerLoss
    <2>3. n \in 0..Len(lines)
      BY <2>1 DEF TypeOK
    <2>4. lines' \in Seq(GenuineLine)
      BY <2>1, <2>2, <2>3, Prefix
    <2>5. (IF n < Len(lines) THEN lines[n + 1] ELSE tail) \in GenuineLine
      BY <2>1, <2>3
    <2>6. tail' \in GenuineLine
      BY <2>2, <2>5, TailLeftGenuine
    <2> QED BY <1>8, <2>4, <2>6 DEF PowerLoss, Down, SpentInv
  <1>9. CASE Start
    BY <1>9, LoadGenuine DEF Start, SpentInv
  <1>10. CASE UNCHANGED vars
    BY <1>10 DEF vars, SpentInv
  <1>11. CASE WriteLine \/ Answer \/ AnswerError \/ Stop \/ StartVerifier
    BY <1>2, <1>3, <1>4, <1>5, <1>6, <1>7, <1>8, <1>9, <1>11
    DEF WriteLine, Answer, AnswerError, Stop, StartVerifier
  <1>12. CASE ClockMoves \/ UNCHANGED verifierVars
    BY <1>10, <1>12 DEF ClockMoves, verifierVars
  <1> QED BY <1>1, <1>11, <1>12 DEF VerifierNext

\* The invariant covers every place a nonce can be in.
LEMMA SpentInvCovers == SpentInv => SpentByGenuine
  <1> SUFFICES ASSUME SpentInv, NEW n \in SpentNonces
               PROVE  n \in GenuineNonces
    BY DEF SpentByGenuine, GenuineNonces
  <1>1. ASSUME NEW line \in GenuineLine, NEW i \in DOMAIN line
        PROVE  line[i].id \in GenuineNonces
    <2>1. line[i] \in GenuineChunk
      BY <1>1, ElementOfSeq, LenProperties DEF GenuineLine
    <2> QED BY <2>1 DEF GenuineChunk
  <1>2. CASE n \in consumed \cup current \cup acked
    BY <1>2 DEF SpentInv
  <1>3. CASE n \in {tail[i].id : i \in DOMAIN tail}
    BY <1>1, <1>3 DEF SpentInv
  <1>4. CASE n \in UNION {{lines[m][i].id : i \in DOMAIN lines[m]} : m \in DOMAIN lines}
    <2>1. PICK m \in DOMAIN lines : n \in {lines[m][i].id : i \in DOMAIN lines[m]}
      BY <1>4
    <2>2. lines[m] \in GenuineLine
      BY <2>1, ElementOfSeq, LenProperties DEF SpentInv
    <2> QED BY <1>1, <2>1, <2>2
  <1> QED BY <1>2, <1>3, <1>4 DEF SpentNonces

\* Only messages that a key of the bundle signed for this client can use up a
\* nonce, in the memory or in the file, through all faults and restarts.
THEOREM SpentIsGenuine == VerifierSpec => []SpentByGenuine
  <1>1. VerifierInit => SpentInv
    BY EmptySeq DEF VerifierInit, Init, SpentInv, GenuineLine
  <1>2. SpentInv /\ TypeOK /\ [VerifierNext]_verifierVars => SpentInv'
    BY SpentStep
  <1>3. VerifierSpec => []TypeOK
    BY VerifierRunsJournal, JournalTypeCorrect, PTL
  <1> QED BY <1>1, <1>2, <1>3, SpentInvCovers, PTL DEF VerifierSpec
=============================================================================
