------------------------------ MODULE MCUdpEcho ------------------------------
(* UdpEcho for TLC: the strays that take every branch of the checks.        *)
EXTENDS UdpEcho

Stray(kind, seq) == [kind |-> kind, seq |-> seq, from |-> "other"]

MCStrays == {Stray("whole", Warmup), Stray("whole", Total), Stray("long", 0),
             Stray("short", 0), Stray("header", Warmup), Stray("body", Warmup)}
==============================================================================
