\* A guest in ARM state or in Thumb state.  ARM state: every condition
\* under every flag value, every trap class the dispatcher handles, each
\* CP15 encoding and direction and each data-abort outcome.  Thumb state:
\* IT blocks of every firstcond and length, WFI and CP15 traps inside and
\* outside them, with and without COND in the syndrome.
CONSTANTS
  Modes = {"arm", "thumb"}
  NZCVs = {0, 15}
  NoTrap = NoTrap
  Conds <- AllConds
  ITBlocks <- ThumbITBlocks
  Bounds <- GuestBounds
SPECIFICATION Spec
INVARIANT TypeOK
INVARIANT TrapResumesArchitecturally
INVARIANT EmulatedIffConditionPassed
INVARIANT SelectUserRegBanked
CHECK_DEADLOCK FALSE
