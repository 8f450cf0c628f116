-------------------------- MODULE MCAsyncJobQueue --------------------------
(* Instances of AsyncJobQueue for TLC.  Two loops and two rows are enough   *)
(* for every conflict of the queue: two loops after one row, a row that     *)
(* was queued while the other row of its key ran.  Two keys let a row be    *)
(* deleted, and its slot queued again, while the other key is untouched.    *)
EXTENDS AsyncJobQueue

=============================================================================
