---------------------------- MODULE MCHttpClient ----------------------------
(***************************************************************************)
(* An instance of HttpClient for TLC: three calls that share one token     *)
(* cache and one circuit breaker.                                          *)
(***************************************************************************)
EXTENDS HttpClient

CONSTANTS c1, c2, c3

ThreeCalls == {c1, c2, c3}

=============================================================================
