SPECIFICATION Spec
CONSTANTS
  c1 = c1
  c2 = c2
  c3 = c3
  Cpu = {c1, c2, c3}
  Bsp = c1
  Off = Off
  NPROC = 2
  Firmware <- MCFirmware
CONSTRAINT BootOfThree
INVARIANTS NoLockPanic FreelistExclusive NoSpinCycle FlagOfThread OwnCpuAndStack
PROPERTY Boots
