---------------------------- MODULE MCMainView -----------------------------
(* MainView with a short history: the buffer of the program holds 20 pages.  *)
EXTENDS MainView

MCValues == Pages

=============================================================================
