----------------------------- MODULE ByteStream -----------------------------
(***************************************************************************)
(* What uv::uvcpp promises those who call send, without events, wake-ups,  *)
(* a buffer or handles: the bytes accepted, numbered as they come, leave   *)
(* in that order, each once and over however many connections, only while  *)
(* there is a connection, and never after a stop has been carried out.     *)
(***************************************************************************)
EXTENDS Integers, Sequences

VARIABLES
  accepted,  \* how many bytes have been accepted
  wire,      \* the bytes that have left
  link       \* is there a connection, or will there never be one again?

vars == <<accepted, wire, link>>

Init == accepted = 0 /\ wire = <<>> /\ link = "down"

Accept == accepted' = accepted + 1 /\ UNCHANGED <<wire, link>>

Deliver ==
  /\ link = "up"
  /\ \E n \in Len(wire) + 1 .. accepted : wire' = [i \in 1 .. n |-> i]
  /\ UNCHANGED <<accepted, link>>

Connect    == link = "down" /\ link' = "up" /\ UNCHANGED <<accepted, wire>>
Disconnect == link = "up" /\ link' = "down" /\ UNCHANGED <<accepted, wire>>
Stop       == link' = "stopped" /\ UNCHANGED <<accepted, wire>>

Next == Accept \/ Deliver \/ Connect \/ Disconnect \/ Stop

Spec == Init /\ [][Next]_vars
=============================================================================
