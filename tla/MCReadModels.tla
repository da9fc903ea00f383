---------------------------- MODULE MCReadModels ---------------------------
EXTENDS ReadModels, TLC

CONSTANTS orders, totals

WriterSymmetry == Permutations(Writers)

MCAggregates == 1 .. 2
MCReaders == {{1}, {1, 2}}
\* The default extractor, event.metadata.aggregateId, and one that joins all aggregates.
MCExtractors == {[a \in MCAggregates |-> a], [a \in MCAggregates |-> 1]}
MCHistory == <<[agg |-> 1, kind |-> "set", version |-> Absent, payload |-> 1],
               [agg |-> 2, kind |-> "other", version |-> 1, payload |-> 1]>>
MCProjections == <<orders, totals>>
=============================================================================
