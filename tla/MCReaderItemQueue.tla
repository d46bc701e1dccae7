-------------------------- MODULE MCReaderItemQueue ----------------------------
(* Small instances of ReaderItemQueue for TLC. *)
EXTENDS ReaderItemQueue
================================================================================
