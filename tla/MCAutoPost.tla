----------------------------- MODULE MCAutoPost -----------------------------
(* Two chats, so that a pass has a send under way while another is flushed    *)
(* and waiting; two intervals, shorter and longer than a pass between two     *)
(* polls.                                                                     *)
EXTENDS AutoPost

ShortOrLong == [i \in {1, 2} |-> 3 - i]
=============================================================================
