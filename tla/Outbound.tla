------------------------------ MODULE Outbound ------------------------------
(* The two legs of a message of the agent: the channel that takes it to    *)
(* the router of its connection, OutboundChannel, and the mailbox from     *)
(* which a response takes it to the client, SseResponse.  Between them is  *)
(* the router, HttpConnection; here either leg takes steps by itself.      *)
EXTENDS SseResponse

VARIABLES
    writable, sink, writer, channelQueue, readable, channelReader, isEnding, ended,
    written, beforeEnd, channelTaken

channelVars ==
    <<writable, sink, writer, channelQueue, readable, channelReader, isEnding, ended,
      written, beforeEnd, channelTaken>>

Channel == INSTANCE OutboundChannel WITH
               queue <- channelQueue, reader <- channelReader, taken <- channelTaken

ChannelNext == Channel!Next /\ UNCHANGED allVars

(* Only the channel is used; SseLiveSpec has what becomes of a mailbox. *)
ChannelSpec ==
    /\ SseInit /\ Channel!Init
    /\ [][ChannelNext]_<<allVars, channelVars>>
    /\ Channel!Fairness

(* What the agent writes comes out in order and whole before the end, and  *)
(* the end is told once: OutboundChannel says more.                        *)
WritesThenTheEnd == Channel!WritesThenTheEnd

(* No write of the agent waits for ever: OutboundChannel says more. *)
WritersGoOn == Channel!WritersGoOn
=============================================================================
