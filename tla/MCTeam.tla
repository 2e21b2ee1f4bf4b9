------------------------------- MODULE MCTeam -------------------------------
EXTENDS TeamMembers, TLC

\* Requests are interchangeable, and customers, and users.
Interchangeable ==
    Permutations(Requests) \cup Permutations(Customers) \cup Permutations(Users)

=============================================================================
