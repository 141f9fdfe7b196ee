----------------------------- MODULE MCOutbox -----------------------------
(* Small instances of the outbox for TLC. *)
EXTENDS OutboxProperties, TLC

CONSTANTS w1, w2, w3, n1, n2, u1, u2, t1, t2

PushAndInvitation == {<<"notice", "push">>, <<"invitation", "email">>}
Emails == {<<"notice", "email">>, <<"receipt", "email">>}
Invitations == {<<"invitation", "email">>}
Everything == PushAndInvitation \cup Emails

Symmetry == Permutations(Workers) \cup Permutations(Messages) \cup Permutations(Tokens)
=============================================================================
