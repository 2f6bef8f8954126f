------------------------------ MODULE MCJobStore ------------------------------
(* Three jobs of three keys, two in the map, one slot: a queue, a removal of *)
(* a queued or a running job, a deadline before the expiry, and a key that   *)
(* is submitted again after each.                                            *)
EXTENDS JobStore

===============================================================================
