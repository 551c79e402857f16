---------------------------- MODULE MCCommunicator ----------------------------
(* Small instances of Communicator for TLC.                                   *)
EXTENDS Communicator

Exchange(to, from) == [to |-> to, from |-> from]

\* The exchange of multiply_a in the three-party protocol: to +1, from +2.
MCRing == [p \in Parties |-> <<Exchange((p + 1) % 3, (p + 2) % 3)>>]

\* secret_share from party 0 to the two others, two vectors to each.
MCSharing ==
  [p \in Parties |->
     IF p = 0 THEN <<Exchange(1, NoParty), Exchange(1, NoParty),
                     Exchange(2, NoParty), Exchange(2, NoParty)>>
     ELSE <<Exchange(NoParty, 0), Exchange(NoParty, 0)>>]

\* A ring, over a call that both threads work on and one that leaves the first
\* without elements, and a vector that is shared out by one thread of each party.
MCOperations ==
  {[calls |-> MCRing, totals |-> <<5, 1>>], [calls |-> MCSharing, totals |-> <<2, 1>>]}
===============================================================================
