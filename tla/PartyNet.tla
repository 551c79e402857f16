------------------------------ MODULE PartyNet ------------------------------
(***************************************************************************)
(* The parties of a protocol and the blocking calls they make on their     *)
(* communicator (core/communication/mpi_communicator.h), for one worker    *)
(* thread of every party: threads of the same number talk to each other    *)
(* under tags of their own, which is Communicator's subject.               *)
(*                                                                         *)
(* A call posts its receive and its send and returns when both are done.   *)
(* Messages of a pair of parties do not overtake each other.  MPI may copy *)
(* a message away and let the send return at once, or keep the sender      *)
(* until the message is received: SendBuffered and SendMatched.  Whether   *)
(* it buffers is its choice for every message, so both can happen, but a   *)
(* program may only rely on SendMatched (see Fairness of the modules that  *)
(* extend this one).                                                       *)
(***************************************************************************)
EXTENDS Integers, Sequences

CONSTANTS
  PartiesNum,   \* numParties of the communicator
  Buffered      \* does MPI have room for every message that is sent?

ASSUME NetAssumption == PartiesNum \in Nat \ {0} /\ Buffered \in BOOLEAN

Parties == 0 .. PartiesNum - 1
NoParty == PartiesNum

VARIABLES
  net,         \* <<from, to>> -> messages sent and not received, oldest first
  sending,     \* party -> the party its current call has to send to, or NoParty
  receiving,   \* party -> the party its current call has to hear from, or NoParty
  calls,       \* party -> calls made in the current protocol operation
  got          \* party -> messages received in the current protocol operation

netVars == <<net, sending, receiving, calls, got>>

NetInit ==
  /\ net = [link \in Parties \X Parties |-> <<>>]
  /\ sending = [p \in Parties |-> NoParty]
  /\ receiving = [p \in Parties |-> NoParty]
  /\ calls = [p \in Parties |-> 0]
  /\ got = [p \in Parties |-> <<>>]

\* The index of the party at a position relative to party p.
Relative(p, id) == (PartiesNum + id + p) % PartiesNum

-----------------------------------------------------------------------------
(* Calls of party p.                                                       *)

\* All requests of the calls p has made are complete.
Returned(p) == sending[p] = NoParty /\ receiving[p] = NoParty

Post(p, message, to) ==
  /\ net' = [net EXCEPT ![<<p, to>>] = Append(@, message)]
  /\ sending' = [sending EXCEPT ![p] = to]

CountCall(p) == calls' = [calls EXCEPT ![p] = @ + 1]

sendShares(p, message, id) ==
  /\ Post(p, message, Relative(p, id))
  /\ CountCall(p)
  /\ UNCHANGED <<receiving, got>>

receiveShares(p, id) ==
  /\ receiving' = [receiving EXCEPT ![p] = Relative(p, id)]
  /\ CountCall(p)
  /\ UNCHANGED <<net, sending, got>>

exchangeShares(p, message, to_id, from_id) ==
  /\ receiving' = [receiving EXCEPT ![p] = Relative(p, from_id)]
  /\ Post(p, message, Relative(p, to_id))
  /\ CountCall(p)
  /\ UNCHANGED got

\* The protocol operation that made the calls returns.
ForgetCalls(p) ==
  /\ calls' = [calls EXCEPT ![p] = 0]
  /\ got' = [got EXCEPT ![p] = <<>>]
  /\ UNCHANGED <<net, sending, receiving>>

-----------------------------------------------------------------------------
(* MPI completes a request of party p.                                     *)

Receive(p) ==
  /\ receiving[p] # NoParty
  /\ LET link == <<receiving[p], p>> IN
       /\ net[link] # <<>>
       /\ got' = [got EXCEPT ![p] = Append(@, Head(net[link]))]
       /\ net' = [net EXCEPT ![link] = Tail(@)]
  /\ receiving' = [receiving EXCEPT ![p] = NoParty]
  /\ UNCHANGED <<sending, calls>>

SendDone(p) ==
  /\ sending[p] # NoParty
  /\ sending' = [sending EXCEPT ![p] = NoParty]
  /\ UNCHANGED <<net, receiving, calls, got>>

\* The message, the last one on its link, has been received.
SendMatched(p) == SendDone(p) /\ net[<<p, sending[p]>>] = <<>>

\* MPI has copied the message away.
SendBuffered(p) == SendDone(p) /\ net[<<p, sending[p]>>] # <<>>

\* What MPI does without relying on room for messages, and with it.
Deliver(p) == Receive(p) \/ SendMatched(p)
Transport(p) == Deliver(p) \/ SendBuffered(p)

Idle(p) == Returned(p) /\ calls[p] = 0
NetEmpty == \A link \in Parties \X Parties : net[link] = <<>>
=============================================================================
