------------------------------- MODULE MCStats -------------------------------
EXTENDS Stats

\* Callers pass zeroed totals, or totals left over from an earlier call.
MCCallerTotals == {[t \in Totals |-> 0], [t \in Totals |-> 1]}
=============================================================================
