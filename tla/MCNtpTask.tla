----------------------------- MODULE MCNtpTask -----------------------------
(* An instance of NtpTask for TLC: every day from 1st January 1970 to 7th      *)
(* February 2036, when the 32 bits of NTP's seconds are used up, at some hour. *)
EXTENDS NtpTask

EveryDay == {24 * d + (d % 24) : d \in 0 .. 24142}
=============================================================================
