----------------------------- MODULE UserListMC -----------------------------
(***************************************************************************)
(* The instance of UserList for TLC: two user ids and two logins.           *)
(***************************************************************************)
EXTENDS UserList

CONSTANTS x, y

Two(u, v) == [k \in Ids |-> IF k = 1 THEN u ELSE v]

\* An answer without users; one that inserts a row, leaves it as it is, or makes it name
\* the login of the other row; and one that moves that login from id 1 to id 2.
FewUsers == {Two(None, None), Two(x, None), Two(y, x)}

\* The first launch, and one that finds both rows.
FewTables == {Two(None, None), Two(x, y)}
=============================================================================
