---------------------------- MODULE MCSemaphore ----------------------------
(* Semaphore instances for TLC.  The daemon makes every call with its one     *)
(* context (cmd/start.go hands it to all listeners); the exported type allows *)
(* each call a context of its own.                                            *)
EXTENDS Semaphore, TLC

MCSharedCtxOf == [c \in Caller |-> CHOOSE x \in Ctx : TRUE]
MCOwnCtxOf == [c \in Caller |-> c]
MCSize == 1..2
=============================================================================
