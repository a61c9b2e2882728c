--------------------------- MODULE MCAccessTokens ---------------------------
(* AccessTokens with two instances whose clocks are a tick apart. *)
EXTENDS AccessTokens

CONSTANTS ahead, behind

MCSkew == [i \in Instances |-> IF i = ahead THEN MaxSkew ELSE 0]
=============================================================================
