------------------------------- MODULE MCAta --------------------------------
(* A small device for module Ata: its block numbers take two registers.      *)
EXTENDS Ata
=============================================================================
