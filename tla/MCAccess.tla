------------------------------ MODULE MCAccess ------------------------------
(* Access where every client knows the password of the user of its name.   *)
EXTENDS Access, TLC

CONSTANTS alice, bob

OwnPasswords == {<<c, c>> : c \in Clients}
Swap         == Permutations({alice, bob})
=============================================================================
