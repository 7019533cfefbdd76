------------------------------- MODULE MCInbox -------------------------------
EXTENDS Inbox
CONSTANTS g, h
=============================================================================
