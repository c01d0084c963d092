---------------------------- MODULE StarknetCore ----------------------------
(***************************************************************************)
(* The message bridge between Ethereum (L1) and StarkNet (L2): the Core    *)
(* contract that contracts/IStarknetCore.sol declares and the              *)
(* send_message_to_l1 system call.  External code: modelled from how       *)
(* Richmetas.sol and Richmetas.cairo use it.                               *)
(*                                                                         *)
(* Both directions count messages by content, so each is a bag.  Messages  *)
(* are not ordered.  A message stays in its bag until the receiver's       *)
(* handler accepts it: a handler that reverts consumes nothing, and the    *)
(* message can be offered again.                                           *)
(***************************************************************************)
EXTENDS Integers, BagsExt, Bags, Functions

CONSTANT MaxInFlight        \* bound: messages pending in one direction

ASSUME MaxInFlightAssumption == MaxInFlight \in Nat

VARIABLES toL2,             \* bag of messages sent to L2 and not handled yet
          toL1              \* bag of messages sent to L1 and not consumed yet

CoreInit == toL2 = EmptyBag /\ toL1 = EmptyBag

\* IStarknetCore.sendMessageToL2
SendMessageToL2(m) ==
  /\ SumFunction(toL2) < MaxInFlight
  /\ toL2' = BagAdd(toL2, m)

\* The sequencer runs the @l1_handler of L2 on a pending message.
HandleMessageFromL1(m) ==
  /\ m \in DOMAIN toL2
  /\ toL2' = BagRemove(toL2, m)

\* send_message_to_l1
SendMessageToL1(m) ==
  /\ SumFunction(toL1) < MaxInFlight
  /\ toL1' = BagAdd(toL1, m)

\* IStarknetCore.consumeMessageFromL2
ConsumeMessageFromL2(m) ==
  /\ m \in DOMAIN toL1
  /\ toL1' = BagRemove(toL1, m)
=============================================================================
