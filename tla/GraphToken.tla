------------------------------ MODULE GraphToken ------------------------------
(***************************************************************************)
(* The Microsoft Graph token that the intake and the notices by mail share *)
(* (src/core/graph-auth.ts): kept until a minute before it expires, or     *)
(* until a request that used it was answered 401.                          *)
(***************************************************************************)

VARIABLE graphToken    \* "none", "good", or "revoked": cached, but Graph refuses it

GraphTokenTypeOK == graphToken \in {"none", "good", "revoked"}

GraphTokenInit == graphToken = "none"

\* What a caller of acquireGraphToken may get: the cached token, or with an
\* empty cache a new one, or nothing when the request for it fails.
AcquireGraphToken == IF graphToken = "none" THEN {"good", "none"} ELSE {graphToken}

ClearGraphTokenCache == graphToken' = "none"

\* The token expires, or an administrator revokes it.
TokenEnds ==
    /\ graphToken = "good"
    /\ graphToken' \in {"none", "revoked"}

\* For one of the two parts that use the token: the other does.
OthersUseToken ==
    \/ graphToken = "none" /\ graphToken' = "good"
    \/ graphToken = "revoked" /\ ClearGraphTokenCache
=============================================================================
