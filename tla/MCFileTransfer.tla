---------------------------- MODULE MCFileTransfer ----------------------------
(* A small instance of FileTransfer: three clients, two transfers.         *)
EXTENDS FileTransfer
===============================================================================
