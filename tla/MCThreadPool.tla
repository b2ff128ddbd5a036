---------------------------- MODULE MCThreadPool ----------------------------
(***************************************************************************)
(* Two task threads, two background workers, one panic (and so one         *)
(* respawn), one job more than there is room for at once.                  *)
(***************************************************************************)
EXTENDS ThreadPool

MCWorker == 1..3
=============================================================================
