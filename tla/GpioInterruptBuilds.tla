------------------------ MODULE GpioInterruptBuilds -------------------------
(***************************************************************************)
(* GPIO_Pi.c is compiled with the interrupts of GpioInterrupts or, with    *)
(* GPIO_SYSFS_INTERRUPT (which GPIO_SYSFS_MODE defines), with those of     *)
(* SysfsInterrupts.  A behaviour is one of a program built either way.     *)
(***************************************************************************)
EXTENDS GpioInterrupts, SysfsInterrupts

CONSTANT Builds  \* those to look at

ASSUME BuildsAssumption == Builds \subseteq {"memory", "sysfs"}

VARIABLE build   \* chosen at the start

InitBuilds == Init /\ InitSysfs /\ build \in Builds

InMemory == build = "memory" /\ Next /\ UNCHANGED <<sysvars, build>>
InSysfs == build = "sysfs" /\ NextSysfs /\ UNCHANGED <<vars, build>>

NextBuilds == InMemory \/ InSysfs

\* In the other build no thread of a part ever exists, which leaves its fairness
\* without anything to ask.
SpecBuilds ==
  InitBuilds /\ [][NextBuilds]_<<vars, sysvars, build>> /\ Fairness /\ FairnessSysfs

\* Type invariant of both: a poller inside the list is at a node, what is taken out of
\* it is one; the array of descriptors keeps its bound.
BuildsTypeOK == TypeOK /\ SysTypeOK
=============================================================================
