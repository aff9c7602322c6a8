--------------------------- MODULE MCReportQueues ---------------------------
(* A small instance of ReportQueues: one device with three reports. *)
EXTENDS ReportQueues, TLC

CONSTANTS A, a1, a2, a3

MCSender == (a1 :> A @@ a2 :> A @@ a3 :> A)
=============================================================================
