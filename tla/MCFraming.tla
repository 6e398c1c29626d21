------------------------------- MODULE MCFraming -------------------------------
(***************************************************************************)
(* Lines of up to three octets, streams of up to seven: room for an        *)
(* overlong line and a good one behind it.  x stands for text.             *)
(***************************************************************************)
EXTENDS Framing
================================================================================
