--------------------------- MODULE MCChatConfirm ---------------------------
(***************************************************************************)
(* An instance of ChatConfirm for TLC: a user in each of two companies.    *)
(***************************************************************************)
EXTENDS ChatConfirm, TLC

CONSTANTS alice, bob, c1, c2

MCCompanyOf == (alice :> c1) @@ (bob :> c2)
=============================================================================
