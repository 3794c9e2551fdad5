---------------------------- MODULE MCHttpClient ----------------------------
(* The loop with the attempts and delays of .env.example, and one error of  *)
(* each kind.                                                              *)
EXTENDS HttpClient

MCErrorStatus == {422, 429, 503}
=============================================================================
