--------------------------- MODULE MCWaitableFlag ---------------------------
(* One thread that waits is enough to lose a wakeup. *)
EXTENDS WaitableFlag
=============================================================================
