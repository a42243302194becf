----------------------------- MODULE MCLiveView -----------------------------
(***************************************************************************)
(* Small instances of LiveView: one polled register and one computed from  *)
(* it, channels of one event and queues of one or two frames.              *)
(***************************************************************************)
EXTENDS LiveView

MCPollKeys == {"power"}
MCAggKeys  == {"total"}
MCSource   == [k \in {"total"} |-> "power"]
=============================================================================
