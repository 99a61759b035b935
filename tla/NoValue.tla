------------------------------- MODULE NoValue -------------------------------
(* The absent value the components share: SQL's null, an undefined field, a *)
(* map entry that is not there.                                            *)
CONSTANT None
==============================================================================
