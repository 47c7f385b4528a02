------------------------------- MODULE MCRawTask -------------------------------
(* Model values for the runs of RawTask.                                   *)
EXTENDS RawTask

CONSTANTS worker, local, outsider

\* A worker of MultiThread (it has a context), the thread of a CurrentThread
\* runtime (it has none), and a thread outside any runtime.
AllThreads == {worker, local, outsider}
OnlyWorker == {worker}
=============================================================================
