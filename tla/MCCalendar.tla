----------------------------- MODULE MCCalendar -----------------------------
(* The tables of the code are the instance: every day of their four years. *)
EXTENDS Calendar
=============================================================================
