-------------------------- MODULE MCCanonicalSend --------------------------
\* A small instance of CanonicalSend: a text of the unofficial provider, whose
\* answers may come without an id, and a template of an official one compete for
\* the keys.
EXTENDS CanonicalSend, TLC

CONSTANTS c1, c2, k1, k2, text, template, e1, e2

MCCallers == {c1, c2}
MCKeys == {k1, k2}
MCRequests == {text, template}
MCTemplateRequests == {template}
MCOfficialRequests == {template}
MCExtIds == {e1, e2}

\* Callers, keys and ids are interchangeable; requests are not.
Symmetry == Permutations(MCCallers) \cup Permutations(MCKeys) \cup Permutations(MCExtIds)
=============================================================================
