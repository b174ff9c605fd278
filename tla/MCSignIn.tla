------------------------------- MODULE MCSignIn -------------------------------
(* A small instance of SignIn; browsers, people and requests are alike.     *)
EXTENDS SignIn, TLC

Alike == Permutations(Browsers) \cup Permutations(Requests)
===============================================================================
