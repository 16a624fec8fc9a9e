----------------------------- MODULE MCTokenMail -----------------------------
(* Registrations and the mailer for TLC. *)
EXTENDS TokenMail

CONSTANTS root, guest, alice, rootgroup, guestgroup, usergroup

=============================================================================
