---------------------------- MODULE MCMenuAnchors ----------------------------
(* The admin's chat and two handlers, whose races are between two; three     *)
(* messages are a menu of each kind and one that replaces it, or two and a    *)
(* prompt.                                                                    *)
EXTENDS MenuAnchors, TLC

FirstRow        == [c \in Chats |-> 1]
HandlerSymmetry == Permutations(Handlers)
=============================================================================
