-------------------------- MODULE ConversationFIFO --------------------------
(***************************************************************************)
(* What the event queues of the middleware promise to a conversation,      *)
(* without saying how: the jobs of one conversation are served one at a    *)
(* time, in the order in which they arrived; a job that fails is served    *)
(* again, in its turn, a bounded number of times; jobs of different        *)
(* conversations do not wait for each other.                               *)
(*                                                                         *)
(* MemoryQueue implements this specification (see MemoryQueue!Fifo).       *)
(***************************************************************************)
EXTENDS Naturals

CONSTANTS
  Jobs,         \* the events handed to the queue, each handed over once
  Convs,        \* the conversations (botId::channel::target)
  ConvOf,       \* the conversation of each job, in [Jobs -> Convs]
  MaxAttempts   \* how many times a failing job is served, at least once

VARIABLES
  status,       \* where each job stands
  arrival,      \* the rank at which it arrived, 0 before
  attempts      \* how many times it was served

vars == <<status, arrival, attempts>>

Settled == {"done", "abandoned", "cancelled", "taken"}

TypeOK ==
  /\ status \in [Jobs -> {"new", "waiting", "serving"} \cup Settled]
  /\ arrival \in [Jobs -> Nat]
  /\ attempts \in [Jobs -> 0..MaxAttempts]

SameConv(i, j) == ConvOf[i] = ConvOf[j]

\* No job of j's conversation that is still waiting arrived before j.
IsFirst(j) ==
  \A i \in Jobs : SameConv(i, j) /\ status[i] = "waiting" => arrival[j] <= arrival[i]

Init ==
  /\ status = [j \in Jobs |-> "new"]
  /\ arrival = [j \in Jobs |-> 0]
  /\ attempts = [j \in Jobs |-> 0]

\* A job arrives, after all those that arrived before it.
Submit(j) ==
  /\ status[j] = "new"
  /\ status' = [status EXCEPT ![j] = "waiting"]
  /\ arrival'[j] \in Nat
  /\ arrival' = [arrival EXCEPT ![j] = arrival'[j]]
  /\ \A i \in Jobs : arrival[i] < arrival'[j]
  /\ UNCHANGED attempts

\* An idle conversation serves the waiting job that arrived first.
Serve(j) ==
  /\ status[j] = "waiting"
  /\ IsFirst(j)
  /\ \A i \in Jobs : SameConv(i, j) => status[i] # "serving"
  /\ attempts[j] < MaxAttempts
  /\ status' = [status EXCEPT ![j] = "serving"]
  /\ attempts' = [attempts EXCEPT ![j] = @ + 1]
  /\ UNCHANGED arrival

Finish(j) ==
  /\ status[j] = "serving"
  /\ status' = [status EXCEPT ![j] = "done"]
  /\ UNCHANGED <<arrival, attempts>>

\* A failed job keeps its rank, so that it is the next one served.
Retry(j) ==
  /\ status[j] = "serving"
  /\ attempts[j] < MaxAttempts
  /\ status' = [status EXCEPT ![j] = "waiting"]
  /\ UNCHANGED <<arrival, attempts>>

Abandon(j) ==
  /\ status[j] = "serving"
  /\ attempts[j] = MaxAttempts
  /\ status' = [status EXCEPT ![j] = "abandoned"]
  /\ UNCHANGED <<arrival, attempts>>

\* The waiting jobs of one conversation are dropped, not the one served.
Cancel(c) ==
  /\ status' = [j \in Jobs |->
                  IF ConvOf[j] = c /\ status[j] = "waiting" THEN "cancelled"
                                                            ELSE status[j]]
  /\ UNCHANGED <<arrival, attempts>>

\* A waiting job is handed back to the caller instead of being served.
Take(j) ==
  /\ status[j] = "waiting"
  /\ IsFirst(j)
  /\ status' = [status EXCEPT ![j] = "taken"]
  /\ UNCHANGED <<arrival, attempts>>

Next ==
  \/ \E j \in Jobs : Submit(j) \/ Serve(j) \/ Take(j)
  \/ \E j \in Jobs : Finish(j) \/ Retry(j) \/ Abandon(j)
  \/ \E c \in Convs : Cancel(c)

Spec == Init /\ [][Next]_vars
=============================================================================
