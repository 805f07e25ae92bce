----------------------------- MODULE MCSettVault -----------------------------
(* Instances of SettVault for TLC. *)
EXTENDS SettVault

CONSTANTS u1, u2

NoApprovals == {}
OneApproval == {<<u1, u2>>}
NoGuestLists == {}
OneGuestList == {{u1}}
=============================================================================
