---------------------------- MODULE MCTaskQueue ----------------------------
(* TaskQueue on two client threads, two identities for work threads and    *)
(* three tasks: enough for an enqueue() to find a work thread serving,     *)
(* ending, and ended, and for two clients to contend for the mutex.        *)
EXTENDS TaskQueue
=============================================================================
