----------------------------- MODULE SdramTiming -----------------------------
(***************************************************************************)
(* SdramChip with a stopwatch on the command pins: how many cycles ago each *)
(* bank was last activated and precharged, and the part last refreshed.     *)
(* The chip model checks no timing; this module states the times of         *)
(* SdramParams (tRCD, tRP, tRFC) about the commands the controller issues.   *)
(***************************************************************************)
EXTENDS SdramChip

VARIABLES
  sinceActive,     \* for each bank, cycles since its last ACTIVE
  sincePrecharge,  \* for each bank, cycles since it was last precharged
  sinceRefresh     \* cycles since the last REFRESH

watchVars  == <<sinceActive, sincePrecharge, sinceRefresh>>
timingVars == <<chipVars, watchVars>>

\* A stopwatch stops at a value no smaller than any it is compared with.
Saturation == TrcdCycles + TrpCycles + TrfcCycles
Tick(n)    == IF n < Saturation THEN n + 1 ELSE n

Watch ==
  /\ sinceActive' = [b \in Banks |-> IF b \in OpenedByPins THEN 1 ELSE Tick(sinceActive[b])]
  /\ sincePrecharge' = [b \in Banks |-> IF b \in ClosedByPins THEN 1 ELSE Tick(sincePrecharge[b])]
  /\ sinceRefresh' = IF pins.cmd = "REFRESH" THEN 1 ELSE Tick(sinceRefresh)

TimingInit ==
  /\ Init
  /\ sinceActive = [b \in Banks |-> Saturation]
  /\ sincePrecharge = [b \in Banks |-> Saturation]
  /\ sinceRefresh = Saturation

TimingNext == Next /\ Watch

TimingSpec == TimingInit /\ [][TimingNext]_timingVars

\* tRCD: a bank is read or written no sooner than TrcdCycles after its ACTIVE.
ActiveToAccess == pins.cmd \in {"READ", "WRITE"} => sinceActive[pins.bank] >= TrcdCycles

\* tRP: a bank is opened or refreshed no sooner than TrpCycles after it was
\* precharged.
PrechargeToOpen ==
  /\ pins.cmd = "ACTIVE" => sincePrecharge[pins.bank] >= TrpCycles
  /\ pins.cmd = "REFRESH" => \A b \in Banks : sincePrecharge[b] >= TrpCycles

\* tRFC: after a REFRESH the part is left alone for TrfcCycles.
RefreshToCommand == pins.cmd # "NOP" => sinceRefresh >= TrfcCycles

\* Every command comes when the part may take it, whatever states the machine
\* went through since the one before: each delay is set in one state and
\* counted from the command of another.
TimesKept == ActiveToAccess /\ PrechargeToOpen /\ RefreshToCommand

==============================================================================
