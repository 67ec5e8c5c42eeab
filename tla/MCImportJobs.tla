---------------------------- MODULE MCImportJobs ----------------------------
(***************************************************************************)
(* One socket: sockets do not meet, each has its own timer and message.    *)
(***************************************************************************)
EXTENDS ImportJobs

CONSTANT admin
=============================================================================
