-------------------------- MODULE MCAuthentication --------------------------
(* Instances of Authentication for TLC. *)
EXTENDS Authentication

CONSTANTS u, v, f1

TwoUsers == {u, v}
OneForm == {f1}

(* A password that only the server accepts, and one the rule admits. *)
secret == [length |-> 6, letters |-> 6, digits |-> 0, others |-> 0]
abcd1234 == [length |-> 8, letters |-> 4, digits |-> 4, others |-> 0]
TwoPasswords == {secret, abcd1234}

(* u signed up before the rule was made, v has not. *)
OneMember == [w \in TwoUsers |-> IF w = u THEN secret ELSE Nil]
=============================================================================
