------------------------------ MODULE MCPages -------------------------------
(* One client, two groups, pages of one, as in the test of the pagination. *)
EXTENDS Pages
=============================================================================
