------------------------ MODULE MCEntitlementVerifier ------------------------
(* Instances of EntitlementVerifier for TLC. *)
EXTENDS EntitlementVerifier

CONSTANTS n1, n2, n3, n4   \* nonces, n4 a short one

MCIds == {n1, n2, n3, n4}
MCWeakNonces == {n4}

Key(authority, key_id, key) ==
  [authority_id |-> authority, key_id |-> key_id, key |-> key]

\* Two authorities; the first is changing its key and lists the old and the new.
MCBundle ==
  << Key("waystation-1", "waystation-1", "k1"),
     Key("waystation-1", "waystation-1-next", "k2"),
     Key("gateway-2", "gateway-2", "k3") >>

Grant(key_id, key, nonce, stage, expires_at) ==
  [key_id |-> key_id, signed_by |-> key, issuer |-> key_id, recipient |-> "odyssey-7",
   message_type |-> "AuthorizationGrant", issued_at |-> 1, nonce |-> nonce,
   session_id |-> "s1", authorized_stage |-> stage, expires_at |-> expires_at,
   complete |-> TRUE]

\* A grant that expires within the clock skew, one of the other authority,
\* one under the new key; then messages that fail one test each: signed with
\* a listed key other than the one named, with a key nobody lists, of another
\* issuer, to another client, with a short nonce, of another type, without
\* some claim. The nonce n3 comes in no genuine message.
MCEnvelopes ==
  { Grant("waystation-1", "k1", n1, 1, 1),
    Grant("gateway-2", "k3", n2, 2, 2),
    Grant("waystation-1-next", "k2", n1, 1, 2),
    Grant("waystation-1", "k3", n2, 1, 2),
    Grant("waystation-1", "k9", n3, 1, 2),
    [Grant("gateway-2", "k3", n2, 1, 2) EXCEPT !.issuer = "waystation-1"],
    [Grant("waystation-1", "k1", n3, 1, 2) EXCEPT !.recipient = "cygnus-3"],
    Grant("waystation-1", "k1", n4, 1, 2),
    [Grant("waystation-1", "k1", n1, 1, 2) EXCEPT !.message_type = "SessionOffer"],
    [Grant("waystation-1", "k1", n1, 1, 2) EXCEPT !.complete = FALSE] }

Expected(authority, session, stage) ==
  [authority |-> authority, session_id |-> session, stage |-> stage]

MCExpectations ==
  { Expected("waystation-1", "s1", 1), Expected("waystation-1", "s2", 1),
    Expected("gateway-2", "s1", 2) }
=============================================================================
