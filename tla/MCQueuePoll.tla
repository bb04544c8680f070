---------------------------- MODULE MCQueuePoll ----------------------------
(* Small instances of QueuePoll.                                           *)
EXTENDS QueuePoll
====
