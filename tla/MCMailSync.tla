----------------------------- MODULE MCMailSync -----------------------------
(* Small instances of MailSync for TLC: two messages, one of them outside the *)
(* inbox, and one or two calls at once.                                      *)
EXTENDS MailSync

CONSTANTS m1, m2, s1, s2
=============================================================================
