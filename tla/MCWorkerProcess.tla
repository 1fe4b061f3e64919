--------------------------- MODULE MCWorkerProcess --------------------------
(* TLC instances of WorkerProcess.                                        *)
EXTENDS WorkerProcess
=============================================================================
