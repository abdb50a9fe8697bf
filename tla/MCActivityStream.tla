-------------------------- MODULE MCActivityStream --------------------------
(* The sockets are interchangeable, and so are the statuses.                *)
EXTENDS ActivityStream

StreamSymmetry == Permutations(Clients) \cup Permutations(Statuses)

=============================================================================
