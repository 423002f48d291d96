----------------------------- MODULE ApiTokens -----------------------------
(***************************************************************************)
(* Read-only API tokens (app/api_tokens.py) as administrators issue and    *)
(* revoke them (app/routers/admin_api_tokens.py) and the MCP server        *)
(* verifies them (app/mcp_server.py).                                      *)
(*                                                                         *)
(* A verification reads the token's row and commits last_used_at in its    *)
(* own session, so a revocation can fall in between.  The page that issues *)
(* a token gives it no expiry.                                             *)
(***************************************************************************)
CONSTANTS
  Token,        \* ids of api_tokens
  User,         \* ids of users; an id also stands for its pseudonymous address
  None          \* NULL

VARIABLES
  tokens,       \* rows of api_tokens
  verifying     \* the row each verification in flight has read

TokenRow == [by: User, used: BOOLEAN, revoked: BOOLEAN]

TokensInit == tokens = [t \in Token |-> None] /\ verifying = [t \in Token |-> None]

\* POST /admin/api-tokens
CreateApiToken(a, t) ==
  /\ tokens[t] = None
  /\ tokens' = [tokens EXCEPT ![t] = [by |-> a, used |-> FALSE, revoked |-> FALSE]]
  /\ UNCHANGED verifying

\* POST /admin/api-tokens/{token_id}/revoke
RevokeApiToken(t) ==
  /\ tokens[t] # None /\ ~tokens[t].revoked
  /\ tokens' = [tokens EXCEPT ![t].revoked = TRUE]
  /\ UNCHANGED verifying

\* verify_api_token; neither the issuer's status nor role is looked at
VerifyApiToken(t) ==
  /\ verifying[t] = None
  /\ tokens[t] # None /\ ~tokens[t].revoked
  /\ verifying' = [verifying EXCEPT ![t] = tokens[t]]
  /\ UNCHANGED tokens

\* Mutant of VerifyTokenEnds: the whole row that was read is written back.
VerifyTokenEndsWhole(t) ==
  /\ verifying[t] # None
  /\ tokens' = [tokens EXCEPT ![t] = [verifying[t] EXCEPT !.used = TRUE]]
  /\ verifying' = [verifying EXCEPT ![t] = None]

\* ApiTokenVerifier.verify_token commits last_used_at and admits the call
VerifyTokenEnds(t) ==
  /\ verifying[t] # None
  /\ tokens' = [tokens EXCEPT ![t].used = TRUE]
  /\ verifying' = [verifying EXCEPT ![t] = None]

\* A revoked token stays revoked and admits at most the call that was being
\* verified when it was revoked ("both cause verify_api_token to reject the
\* token immediately", models.ApiToken).
RevocationIsFinal ==
  [][\A t \in Token : tokens[t] # None /\ tokens[t].revoked =>
       tokens'[t].revoked /\ verifying'[t] \in {None, verifying[t]}]_<<tokens, verifying>>
=============================================================================
