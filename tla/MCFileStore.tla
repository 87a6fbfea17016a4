----------------------------- MODULE MCFileStore -----------------------------
(***************************************************************************)
(* The instance of FileStore for TLC: files.cfg gives every constant.      *)
(***************************************************************************)
EXTENDS FileStore
=============================================================================
