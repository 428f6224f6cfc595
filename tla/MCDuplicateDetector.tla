------------------------ MODULE MCDuplicateDetector ------------------------
(***************************************************************************)
(* Instances of DuplicateDetector for TLC: a channel of about 100 Hz.      *)
(***************************************************************************)
EXTENDS DuplicateDetector, TLC

\* Five starts on the sample grid and one between, packets of no sample, two
\* and five samples, and a rate that wobbles across the boundary of rounding.
MCStarts == {0, 10000, 20000, 34000, 60000, 80000}
MCCounts == {0, 2, 5}
MCRates  == {100000, 99400}

\* Three samples span the tolerance.  Estimated capacities never fall below
\* eleven, and only short packets make them grow.
ASSUME \A n \in 1..2000 :
         LET h == Header([name |-> "c", start |-> 0, n |-> n, rate |-> 100000])
         IN  /\ CapacityEstimate(h) >= 11
             /\ (CapacityEstimate(h) - 1) * Duration(h)
                  <= MaxOf(10 * Duration(h), 2 * CircularBufferDuration)

=============================================================================
