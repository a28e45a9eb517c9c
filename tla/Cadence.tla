------------------------------ MODULE Cadence ------------------------------
(* The cadence of collection schedules, a pure function of the domain. *)
EXTENDS Integers

\* nextDispatchBoundary: the boundaries are counted from the previous one, so a
\* late dispatch does not move them; the code throws when at < previous
NextBoundary(previous, interval, at) ==
    previous + ((at - previous) \div interval + 1) * interval
=============================================================================
