--------------------------- MODULE NonceDispenser ---------------------------
(***************************************************************************)
(* What nonce allocation promises the requests of one account, with no     *)
(* counter, table or chain in it: a client gets a number nobody holds and  *)
(* nobody ever used; what it uses it keeps; it may give back only a number *)
(* it did not use.  SigningPipeline implements this (Dispenser).           *)
(***************************************************************************)
EXTENDS Integers

CONSTANT Clients

VARIABLES
    held,  \* client -> the number it holds, or Nothing
    used   \* the numbers that left the system

Nothing == -1

dispenserVars == <<held, used>>

Init ==
    /\ held = [c \in Clients |-> Nothing]
    /\ used = {}

Take(c) ==
    /\ held[c] = Nothing
    /\ held'[c] \in Nat \ used
    /\ \A d \in Clients : held[d] # held'[c]
    /\ held' = [held EXCEPT ![c] = held'[c]]
    /\ UNCHANGED used

Use(c) ==
    /\ held[c] # Nothing
    /\ used' = used \cup {held[c]}
    /\ UNCHANGED held

GiveBack(c) ==
    /\ held[c] \notin used
    /\ held' = [held EXCEPT ![c] = Nothing]
    /\ UNCHANGED used

Next == \E c \in Clients : Take(c) \/ Use(c) \/ GiveBack(c)

Spec == Init /\ [][Next]_dispenserVars

=============================================================================
