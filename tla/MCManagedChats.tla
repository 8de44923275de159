--------------------------- MODULE MCManagedChats ---------------------------
(* One chat, two handlers and two intervals: the rows of different chats have *)
(* nothing to do with each other, and the races are between two.              *)
EXTENDS ManagedChats, TLC

FiveOrTen       == [i \in {5, 10} |-> 15 - i]
HandlerSymmetry == Permutations(Handlers)
=============================================================================
