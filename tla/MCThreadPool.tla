---------------------------- MODULE MCThreadPool ----------------------------
\* The pool with small numbers of workers, queues and slots.
EXTENDS ThreadPool, TLC
=============================================================================
