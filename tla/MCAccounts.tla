----------------------------- MODULE MCAccounts -----------------------------
(* Instances of Accounts. *)
EXTENDS Accounts, TLC

CONSTANTS p1, p2, t1, t2, r1, r2    \* persons, tokens, requests
CONSTANTS nick, mail1, mail2        \* names

\* The longest password, what is one byte too short or too long, and a weak one.
EdgePasswords ==
    [bytes : {7, 72, 73}, kinds : {Kinds}] \cup [bytes : {8}, kinds : {Kinds \ {"digit"}}]

Interchangeable ==
    Permutations(Tokens) \cup Permutations(Requests) \cup Permutations(Persons)
      \cup Permutations(Addresses)
=============================================================================
