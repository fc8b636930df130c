------------------------------ MODULE MCPropeller ------------------------------
(* Values of the constants of Propeller for its runs.                      *)
EXTENDS Propeller

CONSTANTS c1, c2, topic, client, phone, phoneChannel

\* Connections of one client: its client channel, and the channel of the device.
MCOwnClient == [c \in Conns |-> {client}]
MCOwnChannels == [c \in Conns |-> {client, phoneChannel}]

\* Both connections name the same device; no connection names one.
MCDevice == [c \in Conns |-> phone]
MCNoDevice == [c \in Conns |-> NoDevice]
=============================================================================
