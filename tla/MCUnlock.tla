------------------------------ MODULE MCUnlock ------------------------------
(* ensure_unlocked() with one attempt, on Windows, after a process that    *)
(* may have left two replies.                                              *)
EXTENDS Unlock

AllOps  == {ResetOp, ClearOp, EncryptOp, DigestOp, MacOp}
LeftOps == {ResetOp, EncryptOp}
=============================================================================
