------------------------ MODULE MCCompletionAttempt -------------------------
EXTENDS CompletionAttempt

CONSTANTS op, otherOp, a1, a2, s1, s2

MCEffects == <<s1, s2>>
MCOperations == {op, otherOp}

Entry(s, k) == [scope |-> s, knowledge |-> k]

\* Every complete list in either order, and the malformed ones: an effect
\* missing, an effect twice with two answers, one entry too many, an enum
\* value no decoder knows.
MCEffectLists ==
  {<<Entry(s1, j), Entry(s2, k)>> : j, k \in Knowledge}
    \cup {<<Entry(s2, "Applied"), Entry(s1, "NotApplied")>>,
          <<Entry(s1, "NotApplied")>>,
          <<Entry(s1, "NotApplied"), Entry(s1, "Applied")>>,
          <<Entry(s1, "NotApplied"), Entry(s2, "NotApplied"), Entry(s2, "Applied")>>,
          <<Entry(s1, "NotApplied"), Entry(s2, "Unspecified")>>}

=============================================================================
