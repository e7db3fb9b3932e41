--------------------------- MODULE MCUsersService ---------------------------
(* Instances of UsersService for TLC.                                        *)
EXTENDS UsersService
=============================================================================
