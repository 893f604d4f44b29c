--------------------------- MODULE MCCaptureQueue ---------------------------
(* CaptureQueue with limits small enough that every one of them is reached. *)
EXTENDS CaptureQueue

\* Two ASCII events, one of them too long for the collector, and one whose
\* text is not ASCII: two of the last make a batch that the sender takes to be
\* within its limits and the collector refuses.
Short == [bytes |-> 1, utf8 |-> 1]
Wide == [bytes |-> 2, utf8 |-> 4]
Long == [bytes |-> 8, utf8 |-> 8]
Sizes == {Short, Wide, Long}
=============================================================================
