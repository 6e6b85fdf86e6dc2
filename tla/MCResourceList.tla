--------------------------- MODULE MCResourceList ---------------------------
EXTENDS ResourceList

\* Two displays, announced in the order in which the list does not show them.
MCAnnounced == <<2, 1>>

\* Small keys come in ascending order.
MCHashMapOrder == [keys \in SUBSET {0, 1, 2} |-> SetToSortSeq(keys, <)]
=============================================================================
