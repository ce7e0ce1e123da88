-------------------------- MODULE MCPacketProcess --------------------------
EXTENDS PacketProcess
MCLocalCopy == <<-1, 0>>
ServerView == <<serverVars, early>>
=============================================================================
