----------------------------- MODULE MCSignals ------------------------------
\* Three threads wait for a queue and for signals that have slots for two.
EXTENDS OsSignals, TLC
CONSTANTS w1, w2, w3, queue, shutdown, abort
Waiting == w1 :> {<<queue, shutdown, abort>>} @@ w2 :> {<<queue, shutdown>>}
           @@ w3 :> {<<queue, shutdown>>, <<abort>>}
=============================================================================
