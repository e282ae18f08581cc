---------------------------- MODULE MCAskReply ----------------------------
(* The reply channel with two opcodes.                                     *)
EXTENDS AskReply

CONSTANTS Status, Encrypt

BothOps == {Status, Encrypt}
NoLeftover == {}
===========================================================================
