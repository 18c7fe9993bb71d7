------------------------------ MODULE TopicFeed ------------------------------
(***************************************************************************)
(* What a topic subscription promises its listener: whole messages, each   *)
(* at most once, in the order in which the topic completed them.           *)
(***************************************************************************)
EXTENDS Naturals, Sequences

CONSTANTS
    Message,
    CompletedAt   \* CompletedAt[m]: when the topic had all chunks of m; 0 if it never had

VARIABLE heard    \* messages passed to the listener

Init == heard = <<>>

Hear(m) ==
    /\ CompletedAt[m] # 0
    /\ \A i \in DOMAIN heard : CompletedAt[heard[i]] < CompletedAt[m]
    /\ heard' = Append(heard, m)

Next == \E m \in Message : Hear(m)

Spec == Init /\ [][Next]_heard
=============================================================================
