------------------------------ MODULE PowerSave ------------------------------
(***************************************************************************)
(* The power saving timers of RadioModule (services/radio.ts) and their    *)
(* 3GPP codes (services/timer-encoding.ts): what is asked for in seconds,  *)
(* what the modem keeps, and what reading it back shows.                   *)
(*                                                                         *)
(* Seconds are whole, eDRX cycles and paging windows are in hundredths.    *)
(***************************************************************************)
EXTENDS Integers, Sequences, FiniteSets, FiniteSetsExt

CONSTANTS
  Sleep,    \* the T3412 values asked for
  Awake,    \* the T3324 values asked for
  Cycle     \* the eDRX cycles asked for

ASSUME PowerAssumption == Sleep \subseteq Nat /\ Awake \subseteq Nat /\ Cycle \subseteq Nat

Unset == -1   \* undefined

\* GPRS_TIMER_UNITS and GPRS_TIMER3_UNITS: <<unit bits, seconds>>, the smallest
\* first.
Timer2Units == << <<0, 2>>, <<1, 60>>, <<2, 360>> >>
Timer3Units == << <<3, 2>>, <<4, 30>>, <<5, 60>>, <<0, 600>>, <<1, 3600>>, <<2, 36000>>,
                  <<6, 1152000>> >>

\* decodeGprsTimer, decodeGprsTimer3: three bits of unit, five of value; unit 7
\* says deactivated, an unknown one is reserved.
decodeTimer(code, units) ==
  LET unit == {k \in DOMAIN units : units[k][1] = code \div 32}
  IN IF unit = {} THEN Unset ELSE (code % 32) * units[Min(unit)][2]

\* Math.round
Rounded(n, unit) == (2 * n + unit) \div (2 * unit)
Exact(seconds, units) ==
  {k \in DOMAIN units : seconds % units[k][2] = 0 /\ seconds \div units[k][2] <= 31}
Rough(seconds, units) == {k \in DOMAIN units : Rounded(seconds, units[k][2]) <= 31}
Feasible(seconds, units) ==
  IF Exact(seconds, units) # {} THEN Exact(seconds, units) ELSE Rough(seconds, units)
Code(seconds, units, k) == 32 * units[k][1] + Rounded(seconds, units[k][2])
\* Mutant: the largest unit is tried first here too.
LargestTimer2(seconds) == Code(seconds, Timer2Units, Max(Feasible(seconds, Timer2Units)))
\* encodeGprsTimer: an exact fit, else a rounded one, the smallest unit first.
encodeGprsTimer(seconds) ==
  Code(seconds, Timer2Units, Min(Feasible(seconds, Timer2Units)))
\* encodeGprsTimer3: the same, the largest unit first.
encodeGprsTimer3(seconds) ==
  Code(seconds, Timer3Units, Max(Feasible(seconds, Timer3Units)))

\* EDRX_CYCLE_TABLES, EDRX_PTW_TABLES: code -> hundredths of a second.
ByCode(table) == [code \in 0..(Len(table) - 1) |-> table[code + 1]]
WbCycles ==
  <<512, 1024, 2048, 4096, 6144, 8192, 10240, 12288, 14336, 16384, 32768, 65536, 131072, 262144>>
NbCycles == Append(Append(WbCycles, 524288), 1048576)
UtranCycles == <<256, 512, 1024, 2048, 4096, 8192, 16384, 32768, 65536, 131072>>
GsmCycles == <<188, 376, 752, 1128, 2256, 3384>>
Cycles ==
  [eutranWb |-> ByCode(WbCycles), eutranNb |-> ByCode(NbCycles),
   utran |-> UtranCycles, gsm |-> ByCode(GsmCycles)]
PagingWindows ==
  [eutranWb |-> [c \in 0..11 |-> 128 * (c + 1)], eutranNb |-> [c \in 0..15 |-> 256 * (c + 1)]]
AccessType == DOMAIN Cycles

TooFar(a, b) == IF a < b THEN b - a ELSE a - b
\* encodeEdrxCycle: the nearest entry of the table, the lowest code of equals.
encodeEdrxCycle(cycle, type) ==
  LET table == Cycles[type]
  IN Min({c \in DOMAIN table :
            \A d \in DOMAIN table : TooFar(table[c], cycle) <= TooFar(table[d], cycle)})
decodeEdrxCycle(code, type) ==
  IF code \in DOMAIN Cycles[type] THEN Cycles[type][code] ELSE Unset
decodePagingWindow(code, type) ==
  IF type \in DOMAIN PagingWindows /\ code \in DOMAIN PagingWindows[type]
  THEN PagingWindows[type][code] ELSE Unset

-----------------------------------------------------------------------------
VARIABLES
  psm,        \* the modem's AT+CPSMS: [enabled, tau, active], codes or Unset
  accessType, \* the access type this behaviour sets the eDRX of
  edrx,       \* the modem's AT+CEDRXS for it: a code or Unset
  askedOf,    \* history: what the settings asked for
  shownPower  \* what the last query of each kind returned

powerVars == <<psm, accessType, edrx, askedOf, shownPower>>
Off == [enabled |-> FALSE, tau |-> Unset, active |-> Unset]

PowerInit ==
  /\ psm = Off /\ accessType \in AccessType /\ edrx = Unset
  /\ askedOf = [sleep |-> Unset, awake |-> Unset, cycle |-> Unset]
  /\ shownPower = [sleep |-> Unset, awake |-> Unset, cycle |-> Unset, window |-> Unset]

\* setPowerSavingMode: a time left undefined is sent as an empty field, and the
\* modem takes its default for it.  A time no unit reaches is refused (ParseError)
\* before anything is sent.
setPowerSavingMode(sleep, awake) ==
  /\ sleep # Unset => Feasible(sleep, Timer3Units) # {}
  /\ awake # Unset => Feasible(awake, Timer2Units) # {}
  /\ psm' = [enabled |-> TRUE,
             tau |-> IF sleep = Unset THEN Unset ELSE encodeGprsTimer3(sleep),
             active |-> IF awake = Unset THEN Unset ELSE encodeGprsTimer(awake)]
  /\ askedOf' = [askedOf EXCEPT !.sleep = sleep, !.awake = awake]
  /\ shownPower' = [shownPower EXCEPT !.sleep = Unset, !.awake = Unset]
  /\ UNCHANGED <<accessType, edrx>>
resetPowerSavingMode ==
  /\ psm' = Off
  /\ askedOf' = [askedOf EXCEPT !.sleep = Unset, !.awake = Unset]
  /\ shownPower' = [shownPower EXCEPT !.sleep = Unset, !.awake = Unset]
  /\ UNCHANGED <<accessType, edrx>>
powerSavingMode ==
  /\ shownPower' = [shownPower EXCEPT
       !.sleep = IF psm.tau = Unset THEN Unset ELSE decodeTimer(psm.tau, Timer3Units),
       !.awake = IF psm.active = Unset THEN Unset ELSE decodeTimer(psm.active, Timer2Units)]
  /\ UNCHANGED <<psm, accessType, edrx, askedOf>>

setEdrx(cycle) ==
  /\ edrx' = encodeEdrxCycle(cycle, accessType)
  /\ askedOf' = [askedOf EXCEPT !.cycle = cycle]
  /\ shownPower' = [shownPower EXCEPT !.cycle = Unset]
  /\ UNCHANGED <<psm, accessType>>
\* disableEdrx, resetEdrx
disableEdrx ==
  /\ edrx' = Unset
  /\ askedOf' = [askedOf EXCEPT !.cycle = Unset]
  /\ shownPower' = [shownPower EXCEPT !.cycle = Unset]
  /\ UNCHANGED <<psm, accessType>>
\* edrxSettings: a type with nothing set is not listed.
edrxSettings ==
  /\ shownPower' = [shownPower EXCEPT
       !.cycle = IF edrx = Unset THEN Unset ELSE decodeEdrxCycle(edrx, accessType)]
  /\ UNCHANGED <<psm, accessType, edrx, askedOf>>
\* edrxDynamicParams: the window is what the network granted.
edrxDynamicParams(window) ==
  /\ shownPower' = [shownPower EXCEPT !.window = decodePagingWindow(window, accessType)]
  /\ UNCHANGED <<psm, accessType, edrx, askedOf>>

PowerNext ==
  \/ \E sleep \in Sleep \cup {Unset}, awake \in Awake \cup {Unset} :
       setPowerSavingMode(sleep, awake)
  \/ resetPowerSavingMode \/ powerSavingMode
  \/ \E cycle \in Cycle : setEdrx(cycle)
  \/ disableEdrx \/ edrxSettings
  \/ \E window \in {0, 15} : edrxDynamicParams(window)
PowerSpec == PowerInit /\ [][PowerNext]_powerVars

-----------------------------------------------------------------------------
\* What a timer can say at all, and the values nearest to one.
Sayable(units) == {n * units[k][2] : n \in 0..31, k \in DOMAIN units}
IsNearest(shown, asked, units) ==
  \A s \in Sayable(units) : TooFar(shown, asked) <= TooFar(s, asked)

\* What is read back after a setting is what was asked: the T3324 time exactly
\* if it can be said and else within half a unit of the smallest unit that
\* reaches it ("nearest fit with the smallest viable unit", timer-encoding.ts:46),
\* the T3412 time exactly if it can be said, the eDRX cycle no farther off than
\* any other cycle of its table ("finds nearest match", timer-encoding.ts:242).
AskedIsShown ==
  /\ shownPower.awake # Unset =>
       LET u == Timer2Units[Min(Rough(askedOf.awake, Timer2Units))][2]
       IN /\ 2 * TooFar(shownPower.awake, askedOf.awake) <= u
          /\ askedOf.awake \in Sayable(Timer2Units) => shownPower.awake = askedOf.awake
  /\ shownPower.sleep # Unset /\ askedOf.sleep \in Sayable(Timer3Units) =>
       shownPower.sleep = askedOf.sleep
  /\ shownPower.cycle # Unset =>
       \A c \in DOMAIN Cycles[accessType] :
         TooFar(shownPower.cycle, askedOf.cycle) <= TooFar(Cycles[accessType][c], askedOf.cycle)

\* "Fall back: nearest approximation with the largest feasible unit"
\* (timer-encoding.ts:98): a T3412 time that cannot be said exactly is read back
\* as one of the times nearest to it.
SleepIsNear ==
  shownPower.sleep # Unset => IsNearest(shownPower.sleep, askedOf.sleep, Timer3Units)
=============================================================================
