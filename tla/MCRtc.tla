------------------------------- MODULE MCRtc --------------------------------
(* Seconds before a carry into the minute, the hour, noon and midnight.     *)
EXTENDS Rtc

MCStarts == {12 * 60 + 59, 35999, 43199, 86399, 50000}
MCBoth == {TRUE, FALSE}
=============================================================================
