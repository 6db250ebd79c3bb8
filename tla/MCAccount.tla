------------------------------ MODULE MCAccount ------------------------------
(* Account with a few phones, passwords and tokens.                        *)
EXTENDS Account, TLC

\* Phones, passwords, tokens and processes differ in nothing.
Symmetry == Permutations(Phones) \cup Permutations(Passwords)
              \cup Permutations(Tokens) \cup Permutations(Procs)
=============================================================================
