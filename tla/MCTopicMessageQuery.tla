------------------------- MODULE MCTopicMessageQuery -------------------------
(* Small instances of TopicMessageQuery for TLC. *)
EXTENDS TopicMessageQuery, TLC

CONSTANTS whole, left, right, cut

\* Two messages of two chunks interleave with a single one; the submission of
\* the last message failed after its first chunk.
BusyTopic == <<left, right, whole, left, right, cut>>
Chunked == whole :> 1 @@ left :> 2 @@ right :> 2 @@ cut :> 2

ShortTopic == <<left, left, whole>>

-----------------------------------------------------------------------------
(* What comments, tests and the change log say; TLC refutes each. *)

\* CHANGELOG.md:730: "fix: TopicMessageQuery#unsubscribe() attempts to
\* re-subscribe".
NeverResubscribes ==
    [][ \A h \in unsubscribed : call'[h] = call[h] ]_vars
=============================================================================
