----------------------------- MODULE BoundedFifo -----------------------------
(* What every producer/consumer program of the repository promises: a first-in *)
(* first-out channel that holds at most Capacity items.  sent is the sequence  *)
(* of everything ever put in the channel, received of everything taken out.    *)
EXTENDS Naturals, Sequences

CONSTANTS Items, Capacity

VARIABLES sent, received

fifoVars == <<sent, received>>

\* How many items are in the channel.
Backlog == Len(sent) - Len(received)

FifoInit == sent = << >> /\ received = << >>

Put(item) ==
    /\ Backlog < Capacity
    /\ sent' = Append(sent, item)
    /\ UNCHANGED received

\* The item taken out is the oldest one not taken yet.
Get ==
    /\ Backlog > 0
    /\ received' = Append(received, sent[Len(received) + 1])
    /\ UNCHANGED sent

FifoNext == Get \/ \E item \in Items : Put(item)

FifoSpec == FifoInit /\ [][FifoNext]_fifoVars
=============================================================================
