--------------------------- MODULE MCAuthManager ----------------------------
(* AuthManager with a tick of five seconds: retries and the client timeout *)
(* take two ticks, the fallback wait sixty, and the provider answers a     *)
(* token of 25, 125 or 150 seconds, or without expires_in.  The first one  *)
(* may expire before the next slow answer comes, the others may not.       *)
EXTENDS AuthManager

TTLValues == {0, 5, 25, 30}
=============================================================================
