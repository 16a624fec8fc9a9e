---------------------------- MODULE MCUserManager ----------------------------
(* Users, groups and tokens for TLC. *)
EXTENDS UserManager

CONSTANTS root, guest, alice, bob, rootgroup, guestgroup, usergroup, staff

\* A user in the default group, or in one more that may be removed.
MCMemberships == {{usergroup}, {usergroup, staff}}

=============================================================================
