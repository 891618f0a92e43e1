------------------------------ MODULE Channel ------------------------------
(***************************************************************************)
(* What pipe(2) promises of the bytes: a bounded channel out of which they *)
(* come in the order in which they went in, none lost, none twice, with    *)
(* writes of at most Atomic bytes never split.                             *)
(***************************************************************************)
EXTENDS Naturals, Sequences

CONSTANTS Task, Capacity, Atomic

VARIABLES content,  \* the bytes in the channel
          put,      \* put[t]: how many bytes of its write t has put
          length    \* length[t]: the length of that write

channelVars == <<content, put, length>>

ChannelInit == /\ content = <<>>
               /\ put = [t \in Task |-> 0]
               /\ length = [t \in Task |-> 0]

Bytes(t, n) == [i \in 1 .. n |-> <<t, put[t] + i>>]

Put(t, n) == /\ Len(content) + n <= Capacity
             /\ length[t] <= Atomic => n = length[t]
             /\ put[t] + n <= length[t]
             /\ content' = content \o Bytes(t, n)
             /\ put' = [put EXCEPT ![t] = @ + n]
             /\ UNCHANGED length

Take(n) == /\ content' = SubSeq(content, n + 1, Len(content))
           /\ UNCHANGED <<put, length>>

(* A write starts or ends. *)
Turn(t) == /\ put' = [put EXCEPT ![t] = 0]
           /\ \A u \in Task \ {t} : length'[u] = length[u]
           /\ UNCHANGED content

ChannelNext == \/ \E t \in Task : Turn(t) \/ \E n \in 1 .. Capacity : Put(t, n)
               \/ \E n \in 1 .. Len(content) : Take(n)

ChannelSpec == ChannelInit /\ [][ChannelNext]_channelVars
=============================================================================
