----------------------------- MODULE PacketLog ------------------------------
(***************************************************************************)
(* What the packet buffer of a media stream promises: one writer appends   *)
(* numbered packets to a log; every subscriber gets each packet from the   *)
(* place where it subscribed, once and in order; a packet may be forgotten *)
(* only when no subscriber has still to read it.                           *)
(***************************************************************************)
EXTENDS Integers

CONSTANTS Consumers

VARIABLES
  top,     \* number of the newest packet
  kept,    \* packets still stored
  cursor   \* next packet of a subscriber; 0 before it subscribes, -1 after it left

vars == <<top, kept, cursor>>

Subscribed == {c \in Consumers : cursor[c] > 0}

Init ==
  /\ top = 0
  /\ kept = {}
  /\ cursor = [c \in Consumers |-> 0]

Subscribe(c) ==
  /\ cursor[c] = 0
  /\ \E p \in 1 .. top + 1 :
       /\ p .. top \subseteq kept
       /\ cursor' = [cursor EXCEPT ![c] = p]
  /\ UNCHANGED <<top, kept>>

Publish ==
  /\ top' = top + 1
  /\ kept' \subseteq kept \cup {top'}
  /\ top' \in kept'
  /\ \A c \in Subscribed : cursor[c] .. top' \subseteq kept'
  /\ UNCHANGED cursor

Read(c) ==
  /\ cursor[c] \in kept
  /\ cursor' = [cursor EXCEPT ![c] = @ + 1]
  /\ UNCHANGED <<top, kept>>

\* A subscriber leaves once it has read everything.
Unsubscribe(c) ==
  /\ cursor[c] = top + 1
  /\ cursor' = [cursor EXCEPT ![c] = -1]
  /\ UNCHANGED <<top, kept>>

Next == Publish \/ \E c \in Consumers : Subscribe(c) \/ Read(c) \/ Unsubscribe(c)

Spec == Init /\ [][Next]_vars
=============================================================================
