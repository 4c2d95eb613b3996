----------------------------- MODULE MCApiMaster ----------------------------
(***************************************************************************)
(* Small instances of ApiMaster.                                           *)
(***************************************************************************)
EXTENDS ApiMaster

CONSTANTS j, k, n1, n2

\* The second command asks for the same job as the first one or for another one.
SameOrOther == {<<j, j>>, <<j, k>>}

\* The first command goes to one node, the second one to any.
AnyHome == <<{n1}, {n1, n2}>>
=============================================================================
