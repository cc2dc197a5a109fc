-------------------------- MODULE MCCloudWatchLogger --------------------------
(* Instances of CloudWatchLogger for TLC.                                  *)
EXTENDS CloudWatchLogger, TLC

CONSTANTS run1, run2, f1

(* Three events: a message that is cut in the middle of a character, one   *)
(* that fits whole, and one that is cut in both ways.  A request           *)
(* takes two chunks, or three short ones.                                  *)
MCMessages == << <<"one", "high", "low">>, <<"two">>, <<"three", "two", "high", "low">> >>
TwoMessages == << <<"one", "high", "low">>, <<"two">> >>
MCRuns == {run1, run2}
MCFlushes == {f1}

=============================================================================
