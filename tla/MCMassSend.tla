------------------------------- MODULE MCMassSend -------------------------------
(***************************************************************************)
(* Small instances of MassSend.                                            *)
(***************************************************************************)
EXTENDS MassSend

CONSTANTS a1, a2, a3, bad

\* With a string that does not parse every run of mass-send signs a transaction,
\* if only an empty one; without one the tool comes to rest.
MCLists == {<<a1, bad, a2>>, <<a1, a2, a3>>}
================================================================================
