----------------------------- MODULE MCTmdsClient -----------------------------
(* The analysis of tmds_cap.py in three parts, each over captures of its own: *)
(* the decode, the measurements of the timing, and the packets with the       *)
(* report.  A behaviour is a run of one of them (part); the variables of the  *)
(* others stay as they are before it.                                         *)
EXTENDS MCTmdsDecode, TmdsPackets

CONSTANT TimingCaptures

VARIABLES
  part,
  t_cap, t_pass, t_i, prev, m, m_v_sync_pol, m_v_sync_i, m_v_interlace, r_h_event, r_h_act_i, r_h_sync_i,
  h_sync_i, v_act, v_act_1, field, r_v_act, r_v_sync_leading, r_v_sync_trailing, t_error

\* What stands in for the capture of a part that is not run.
NoPixels == {Control(1, 0)}
NoTiming == {[pix |-> <<>>, source |-> <<>>, fault |-> "none"]}
NoPackets == {[pix |-> <<>>, packets |-> <<>>, protocol |-> "DVI", err_i |-> 0]}

Timing == INSTANCE MCTmdsTiming WITH Captures <- TimingCaptures,
            cap <- t_cap, pass <- t_pass, i <- t_i, error <- t_error
IdleDecode == INSTANCE TmdsDecode WITH Captures <- NoPixels
IdleTiming == INSTANCE TmdsTiming WITH Captures <- NoTiming,
                cap <- t_cap, pass <- t_pass, i <- t_i, error <- t_error
IdlePacket == INSTANCE TmdsPackets WITH PacketCaptures <- NoPackets

\* The captures of the other parts, of instances that do not have them.
TimingInput == INSTANCE MCTmdsTiming WITH Captures <- NoTiming,
                 cap <- t_cap, pass <- t_pass, i <- t_i, error <- t_error
PacketInput == INSTANCE MCTmdsPackets WITH PacketCaptures <- NoPackets
MCTimingCaptures == TimingInput!MCCaptures
MCPacketCaptures == PacketInput!MCCaptures

timing == <<t_cap, t_pass, t_i, prev, m, m_v_sync_pol, m_v_sync_i, m_v_interlace, r_h_event, r_h_act_i, r_h_sync_i,
  h_sync_i, v_act, v_act_1, field, r_v_act, r_v_sync_leading, r_v_sync_trailing, t_error>>

ClientInit ==
  \/ part = "decode" /\ Init /\ IdleTiming!Init /\ IdlePacket!PacketsInit
  \/ part = "timing" /\ IdleDecode!Init /\ Timing!Init /\ IdlePacket!PacketsInit
  \/ part = "packets" /\ IdleDecode!Init /\ IdleTiming!Init /\ PacketsInit
ClientNext ==
  /\ UNCHANGED part
  /\ \/ part = "decode" /\ Next /\ UNCHANGED <<timing, packet_vars>>
     \/ part = "timing" /\ Timing!Next /\ UNCHANGED <<vars, packet_vars>>
     \/ part = "packets" /\ PacketsNext /\ UNCHANGED <<vars, timing>>
ClientSpec == ClientInit /\ [][ClientNext]_<<part, vars, timing, packet_vars>>

------------------------------------------------------------------------------
(* CaptureIsDecoded, OneFaultDoesNotSpread, PacketsAreTheSources and          *)
(* StopsExactlyAtFaults are here as they are in TmdsDecode and TmdsPackets;   *)
(* of the timing, what is said of a capture that may be cut or damaged must   *)
(* hold together.                                                             *)

\* The timing: an undamaged progressive source is measured rightly; and what
\* is measured without an error is true of every line and frame captured.
MeasurementIsRight ==
  part = "timing" =>
    /\ Timing!TypeOK
    /\ Timing!ProgressiveIsMeasured
    /\ Timing!LinesAreUniform
    /\ Timing!FramesAreUniform
===============================================================================
