-------------------------- MODULE BoundedStaleness --------------------------
(***************************************************************************)
(* What a cache in front of a slow source promises to its clients: every   *)
(* value it hands out was current less than Bound time units before, and   *)
(* a client that gets no value is told so.  Nothing is said of how many    *)
(* values are kept, who refreshes them or what happens in between.         *)
(*                                                                         *)
(* A value is identified by the instant the source quoted it, so its age   *)
(* is now minus the value.                                                 *)
(***************************************************************************)
EXTENDS Integers

CONSTANTS Clients,   \* the goroutines that ask
          Bound      \* every value served is strictly younger than this

VARIABLES now,       \* the clock
          answer     \* what each client was last given and has not taken

NoAnswer == 0        \* asked nothing, or still waiting
Refused  == -1       \* an error was returned

Init == /\ now = 1
        /\ answer = [c \in Clients |-> NoAnswer]

Tick == /\ now' = now + 1
        /\ UNCHANGED answer

Serve(c) == /\ answer[c] = NoAnswer
            /\ \E q \in 1..now : /\ now < q + Bound
                                 /\ answer' = [answer EXCEPT ![c] = q]
            /\ UNCHANGED now

Refuse(c) == /\ answer[c] = NoAnswer
             /\ answer' = [answer EXCEPT ![c] = Refused]
             /\ UNCHANGED now

Take(c) == /\ answer[c] # NoAnswer
           /\ answer' = [answer EXCEPT ![c] = NoAnswer]
           /\ UNCHANGED now

Next == Tick \/ \E c \in Clients : Serve(c) \/ Refuse(c) \/ Take(c)

Spec == Init /\ [][Next]_<<now, answer>>
=============================================================================
