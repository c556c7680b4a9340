------------------------------ MODULE MCEvPipe ------------------------------
(* A signal and an async watcher, one or two threads and a signal handler   *)
(* that send to them.                                                       *)
EXTENDS EvPipe

CONSTANTS sigint, async1, thread1, thread2, handler

OneSignal == {sigint}
OneAsync == {async1}
OneThread == {thread1}
TwoThreads == {thread1, thread2}
OneHandler == {handler}
None == {}

=============================================================================
