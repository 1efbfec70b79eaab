--------------------------- MODULE RemoteSession ---------------------------
(***************************************************************************)
(* What the native helper promises the extension about its SSH session,    *)
(* without goroutines, timers, errors or sign-ins.                         *)
(*                                                                         *)
(* Sessions are asked for one after the other.  They are admitted one at a *)
(* time, in that order, and the SSH link, which owns the remote reverse    *)
(* port, belongs to the last admitted one alone.  The phase that is shown  *)
(* speaks of one session, the owner, and it says connected only if that    *)
(* session came by the link.                                               *)
(***************************************************************************)
EXTENDS Integers

CONSTANT Sessions   \* a range of numbers, in the order of the requests

VARIABLES phase,    \* disconnected, connecting or connected
          owner,    \* the sessions the phase speaks of: one, or none
          asked,    \* the sessions asked for so far
          admitted, \* the sessions that have had their turn
          link      \* the sessions that hold the SSH link

rvars == <<phase, owner, asked, admitted, link>>

Init ==
  /\ phase = "disconnected"
  /\ owner = {} /\ asked = {} /\ admitted = {} /\ link = {}

\* A new session takes the phase over from whatever came before it.
Ask ==
  /\ \E s \in Sessions \ asked :
       /\ \A t \in asked : t < s
       /\ asked' = asked \cup {s}
       /\ owner' = {s}
  /\ phase' = "connecting"
  /\ UNCHANGED <<admitted, link>>

\* The next session gets its turn, when the link is free.
Admit ==
  /\ link = {}
  /\ \E s \in asked \ admitted :
       /\ \A t \in Sessions : t < s => t \in admitted
       /\ admitted' = admitted \cup {s}
  /\ UNCHANGED <<phase, owner, asked, link>>

\* The link is taken, and taken again after a loss, by the last one admitted.
Take ==
  /\ link = {}
  /\ \E s \in admitted :
       /\ \A t \in admitted : t <= s
       /\ link' = {s}
  /\ UNCHANGED <<phase, owner, asked, admitted>>

Release ==
  /\ link # {}
  /\ link' = {}
  /\ UNCHANGED <<phase, owner, asked, admitted>>

Establish ==
  /\ phase = "connecting"
  /\ owner # {} /\ owner = link
  /\ phase' = "connected"
  /\ UNCHANGED <<owner, asked, admitted, link>>

\* A loss is reported when the old link is gone.
Lose ==
  /\ phase = "connected"
  /\ link = {}
  /\ phase' = "connecting"
  /\ UNCHANGED <<owner, asked, admitted, link>>

\* The user, an end of the helper, or an attempt that will not be repeated.
Quit ==
  /\ phase # "disconnected"
  /\ phase' = "disconnected"
  /\ owner' = {}
  /\ UNCHANGED <<asked, admitted, link>>

Next == Ask \/ Admit \/ Take \/ Release \/ Establish \/ Lose \/ Quit

Spec == Init /\ [][Next]_rvars
=============================================================================
