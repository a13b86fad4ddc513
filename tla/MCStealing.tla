----------------------------- MODULE MCStealing -----------------------------
(*****************************************************************************)
(* Two thieves at the deque of a process.                                    *)
(*****************************************************************************)
EXTENDS Stealing

CONSTANTS p, q

TwoThieves == {p, q}
NoJunk     == {Nowhere}

\* After sCnt of a process that has not stolen anything yet; and one of them
\* has pushed a continuation.
Equal  == {[r \in Thieves |-> 1]}
Either == Equal \union {[r \in Thieves |-> IF r = p THEN 1 ELSE 2]}
=============================================================================
