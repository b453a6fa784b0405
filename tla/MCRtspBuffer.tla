---------------------------- MODULE MCRtspBuffer ----------------------------
(***************************************************************************)
(* Messages for RtspBuffer: a request that ends CR LF CR LF, one that ends *)
(* LF LF, one with a body of one byte, and an interleaved packet with one  *)
(* byte behind its header.                                                 *)
(***************************************************************************)
EXTENDS RtspBuffer

Request == <<Text, CR, LF, CR, LF>>
TolerantRequest == <<Text, LF, LF>>
RequestWithBody == <<Text, CR, LF, CL, 1, CR, LF, CR, LF, Text>>
Packet == <<Dollar, 1, 0, 1, Text>>

AllMessages == {Request, TolerantRequest, RequestWithBody, Packet}

=============================================================================
