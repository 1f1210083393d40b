---------------------------------- MODULE Pdp ----------------------------------
(***************************************************************************)
(* The transmission queue and the status poller over one database and one  *)
(* set of platforms (pdp.worker.ts runs both): a document's statuses can   *)
(* reach the poller while the attempt that sent it is still on its way to  *)
(* recordSent, and a status can close a row that a worker is running.      *)
(***************************************************************************)
EXTENDS TransmissionQueue, StatusSync

pdpVars == <<storeVars, held, queueVars, syncVars>>

PdpInit == Init /\ SyncInit

PdpNext ==
  \/ Next /\ UNCHANGED syncVars
  \/ SyncNext /\ UNCHANGED queueVars

PdpSpec == PdpInit /\ [][PdpNext]_pdpVars
================================================================================
