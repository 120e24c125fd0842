------------------------- MODULE EntitlementVerifier -------------------------
(***************************************************************************)
(* The client's entitlement verifier (access_entitlement_verifier.rs): a   *)
(* process that reads one command after another, authenticates the         *)
(* entitlement in it (verify_envelope of protocol.rs), spends its nonce in *)
(* the client's replay file, and only then compares the claims with what   *)
(* the client expects. The replay file is the one of ReplayJournal, with   *)
(* all its faults: the process can stop at any step of an append and comes *)
(* back with what the file holds.                                          *)
(*                                                                         *)
(* An input that is no EdDSA envelope with decodable claims is refused     *)
(* like one signed with an unknown key, and is not told apart from it.     *)
(***************************************************************************)
EXTENDS ReplayJournal

CONSTANTS
  ClientId,      \* client_id of the trust bundle
  Bundle,        \* its signing_keys in file order, each with its authority
  ValidFrom,     \* the validity interval of the bundle
  ValidUntil,
  WeakNonces,    \* the nonces shorter than MIN_NONCE_BYTES
  Envelopes,     \* the signed messages that may be presented
  Expectations,  \* what a command may ask for
  MaxClockSkew,  \* MAX_CLOCK_SKEW_S
  MaxTime        \* bound on the clock

\* Nothing in the code compares the key identifiers of different authorities;
\* a later key replaces an earlier one of the same identifier in the store.
KeyIdsDistinct ==
  \A i, j \in DOMAIN Bundle : Bundle[i].key_id = Bundle[j].key_id => i = j

ASSUME VerifierAssumption ==
  /\ KeyIdsDistinct
  /\ \A e \in Envelopes : e.nonce \in Ids /\ e.issued_at \in Nat /\ e.expires_at \in Nat
  /\ MaxClockSkew \in Nat /\ MaxTime \in Nat

VARIABLES
  clock,     \* unix_time()
  command,   \* the command being verified: {} or {command}
  verdicts   \* history: the commands answered with a verified entitlement

verifierVars == <<vars, clock, command, verdicts>>

\* What verify_command knows of a command: the entitlement, the expectations,
\* and the time at which the command was read.
Command ==
  [entitlement : Envelopes, expected : Expectations, now : 0..MaxTime]

-----------------------------------------------------------------------------
(* The trust bundle *)

\* ClientTrustBundle::load and trust_store: a bundle outside its validity
\* interval or without a key keeps the process from starting. Nothing looks at
\* the interval afterwards.
BundleLoads(now) == ValidFrom <= now /\ now <= ValidUntil /\ Bundle # << >>

\* trust_store: the key an identifier stands for; the last one listed wins.
StoredKeys(key_id) ==
  {Bundle[i].key : i \in {k \in DOMAIN Bundle :
     /\ Bundle[k].key_id = key_id
     /\ \A j \in DOMAIN Bundle : Bundle[j].key_id = key_id => j <= k}}

\* trusts_authority: the authority lists a key of this identifier.
TrustsAuthority(authority_id, key_id) ==
  \E i \in DOMAIN Bundle :
    Bundle[i].authority_id = authority_id /\ Bundle[i].key_id = key_id

-----------------------------------------------------------------------------
(* verify_envelope *)

\* (Mutation) The signature is tried with every key of the bundle.
AnyListedKey(e) == \E i \in DOMAIN Bundle : Bundle[i].key = e.signed_by

\* verify_signed_payload: the key identifier of the protected header is in the
\* trust store and its key made the signature.
VerifySignedPayload(e) == e.signed_by \in StoredKeys(e.key_id)

\* now_s.abs_diff(issued_at_s) <= max_clock_skew_s
WithinSkew(now, issued_at) ==
  now - issued_at <= MaxClockSkew /\ issued_at - now <= MaxClockSkew

\* (Mutation) The nonce is spent before signature and issuer are looked at.
ConsumedFirst(e, now) ==
  /\ e.recipient = ClientId
  /\ WithinSkew(now, e.issued_at)
  /\ e.nonce \notin WeakNonces

\* Everything verify_envelope tests before it consumes the nonce.
Authentic(e, now) ==
  /\ VerifySignedPayload(e)
  /\ e.issuer = e.key_id
  /\ e.recipient = ClientId
  /\ WithinSkew(now, e.issued_at)
  /\ e.nonce \notin WeakNonces

-----------------------------------------------------------------------------
(* verify_command *)

\* What is compared after the nonce was consumed, with the time at which the
\* command was read. A claim that is missing fails its comparison or ends the
\* function later (complete); either way the entitlement is not verified.
Matches(c) ==
  LET e == c.entitlement IN
  /\ e.message_type = "AuthorizationGrant"
  /\ e.key_id = c.expected.authority
  /\ TrustsAuthority(c.expected.authority, e.key_id)
  /\ c.now <= e.expires_at
  /\ e.session_id = c.expected.session_id
  /\ e.authorized_stage = c.expected.stage
  /\ e.complete

\* A command whose entitlement is authentic: its nonce goes to the replay
\* cache. One that is not authentic, or whose nonce is remembered, is answered
\* with an error and changes nothing.
ReadCommand(e, x) ==
  /\ Authentic(e, clock)
  /\ Consume(e.nonce)
  /\ command' = {[entitlement |-> e, expected |-> x, now |-> clock]}
  /\ UNCHANGED <<clock, verdicts>>

\* consume() succeeded: the comparisons decide the answer.
Answer ==
  /\ Acknowledge
  /\ verdicts' = verdicts \cup {c \in command : Matches(c)}
  /\ command' = {}
  /\ UNCHANGED clock

\* The steps of consume() before its result.
WriteLine ==
  /\ WriteDigits \/ WriteNewline
  /\ UNCHANGED <<clock, command, verdicts>>

\* consume() failed: the answer is an error.
AnswerError ==
  /\ AppendFails \/ WriteFails
  /\ command' = {}
  /\ UNCHANGED <<clock, verdicts>>

\* The client kills the process after a timeout, or the power fails.
Stop ==
  /\ Kill \/ PowerLoss
  /\ command' = {}
  /\ UNCHANGED <<clock, verdicts>>

\* main: load the trust bundle, then the replay file.
StartVerifier ==
  /\ BundleLoads(clock)
  /\ Start
  /\ UNCHANGED <<clock, command, verdicts>>

\* Wall-clock time passes, or is set back.
ClockMoves ==
  /\ clock' \in 0..MaxTime
  /\ UNCHANGED <<vars, command, verdicts>>

-----------------------------------------------------------------------------
VerifierInit ==
  /\ Init
  /\ clock \in 0..MaxTime /\ BundleLoads(clock)
  /\ command = {} /\ verdicts = {}

VerifierNext ==
  \/ \E e \in Envelopes, x \in Expectations : ReadCommand(e, x)
  \/ WriteLine
  \/ Answer
  \/ AnswerError
  \/ Stop
  \/ StartVerifier
  \/ ClockMoves

VerifierSpec == VerifierInit /\ [][VerifierNext]_verifierVars

-----------------------------------------------------------------------------
(* Properties *)

\* Types of the verifier's own variables; those of its file are TypeOK.
VerifierTypeOK ==
  /\ TypeOK
  /\ clock \in 0..MaxTime
  /\ command \in SUBSET Command
  /\ verdicts \in SUBSET Command

\* The entitlement was signed with a key that the bundle lists under the
\* authority, for this client.
Genuine(e, authority) ==
  /\ e.recipient = ClientId
  /\ \E i \in DOMAIN Bundle :
       Bundle[i].authority_id = authority /\ Bundle[i].key = e.signed_by

\* docs/security-configuration.md: an entitlement is verified only if it is
\* "signed by the expected trusted authority and bound to the client recipient,
\* active session, requested stage, and validity window". The code finds the
\* key by its identifier alone and asks for the authority afterwards, so this
\* rests on the identifiers of the bundle being distinct.
VerdictSound ==
  \A c \in verdicts :
    /\ Genuine(c.entitlement, c.expected.authority)
    /\ c.entitlement.session_id = c.expected.session_id
    /\ c.entitlement.authorized_stage = c.expected.stage
    /\ c.now <= c.entitlement.expires_at
    /\ WithinSkew(c.now, c.entitlement.issued_at)

\* The identifiers that the cache remembers or the file holds in any form.
SpentNonces ==
  consumed \cup current \cup acked
    \cup {tail[i].id : i \in DOMAIN tail}
    \cup UNION {{lines[n][i].id : i \in DOMAIN lines[n]} : n \in DOMAIN lines}

\* The nonce is consumed before the comparisons, so a command with a wrong
\* expectation spends an entitlement for good. That is bearable only because
\* nothing else can: every nonce in the memory, on the disk or on its way there
\* came in a message that a key of the bundle signed for this client.
SpentByGenuine ==
  \A n \in SpentNonces :
    \E e \in Envelopes :
      e.nonce = n /\ \E i \in DOMAIN Bundle : Genuine(e, Bundle[i].authority_id)
=============================================================================
