---------------------------- MODULE MC_TrapCond ----------------------------
(* Model-checking instance of TrapCond: the guest's inputs for the runs.  *)
EXTENDS TrapCond

\* Every IT instruction the architecture defines: any firstcond but AL
\* with any mask, and AL with a one-instruction mask.
AllITBlocks == {<<fc, m>> \in (0 .. 14) \X (1 .. 15) : fc = 14 => m = 8}

\* IT blocks of one, two and four instructions, with then and else slots.
SomeITBlocks == {<<0, 8>>, <<1, 12>>, <<10, 4>>, <<12, 6>>, <<13, 1>>, <<14, 8>>}

\* Every firstcond but AL, with masks of one to four instructions that
\* mix then and else slots, and the AL block.
ThumbITBlocks ==
  ((0 .. 13) \X {8, 4, 12, 6, 10, 1, 15, 5}) \cup {<<14, 8>>}

AllConds == 0 .. 14

\* ARM state: every trap class the dispatcher handles, every CP15
\* encoding; two instructions.  Thumb state: WFI and CP15 traps inside
\* and outside IT blocks of up to four instructions.
ArmBounds == [ecs |-> {0, 1, 3, 4, 19, 36}, instrs |-> 2,
              regs |-> {"CLIDR", "CCSIDR", "DCCISW", "CNTP_CTL", "CNTP_TVAL",
                        "ACTLR", "other"}]
ThumbBounds == [ecs |-> {1, 3}, regs |-> {"ACTLR"}, instrs |-> 4]
GuestBounds == [arm |-> ArmBounds, thumb |-> ThumbBounds]

\* A Thumb SMC, three instructions.
SmcBounds == [thumb |-> [ecs |-> {19}, regs |-> {"ACTLR"}, instrs |-> 3]]
AllFlags == 0 .. 15
=============================================================================
