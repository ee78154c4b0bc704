------------------------------- MODULE MCSmp --------------------------------
EXTENDS Smp

CONSTANTS c1, c2, c3

Enabled(c) == [apicid |-> c, enabled |-> TRUE]
Disabled(c) == [apicid |-> c, enabled |-> FALSE]

\* Two processors in the MADT; three, the one that boots in the middle; two in
\* an MP table and none enabled in the MADT; no table at all.
MCFirmware ==
  {[madt |-> <<Enabled(c1), Enabled(c2)>>, mp |-> <<>>],
   [madt |-> <<Enabled(c2), Disabled(c3), Enabled(c1), Enabled(c3)>>, mp |-> <<>>],
   [madt |-> <<Disabled(c2)>>,
    mp |-> <<[type |-> "MPPROC", apicid |-> c1], [type |-> "MPBUS"],
             [type |-> "MPPROC", apicid |-> c2]>>],
   [madt |-> <<>>, mp |-> <<>>]}

\* Bound: with three processors only the boot is explored, up to the first
\* process; processes run on one and on two processors.
BootOfThree == ncpu = 3 => state[1] = "UNUSED"
=============================================================================
