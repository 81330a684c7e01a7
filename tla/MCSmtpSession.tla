--------------------------- MODULE MCSmtpSession ----------------------------
(* A client that may speak TLS early, and two commands without a reply.      *)
EXTENDS SmtpSession
=============================================================================
