----------------------------- MODULE MCScheduler -----------------------------
(* A small instance of Scheduler for TLC. *)
EXTENDS Scheduler

CONSTANTS t1, t2

EachHour == [kind |-> "every", n |-> 1]
Daily == [kind |-> "daily", n |-> 2]
Unparsable == [kind |-> "unparsable", n |-> 0]

AllCrons == {Once, EachHour, Daily, Unparsable}
=============================================================================
