---------------------------- MODULE TrafficUnits ----------------------------
(***************************************************************************)
(* The traffic correction inputs of the node drawer.  The server counts    *)
(* bytes; the inputs show them in a binary unit with three decimals (none  *)
(* for bytes), are converted at every change of the unit, and converted    *)
(* back when the correction is applied.  A value is kept in thousandths.   *)
(***************************************************************************)
EXTENDS Integers

CONSTANTS
    Kilo,       \* 1024
    Top,        \* units told apart: Kilo^0 .. Kilo^Top
    Totals,     \* byte counts the server may report
    Entries,    \* thousandths an administrator may type; a negative one is invalid
    MaxSafe     \* Number.MAX_SAFE_INTEGER

ASSUME UnitsAssumption ==
    /\ Kilo \in Nat \ {0} /\ Top \in Nat /\ MaxSafe \in Nat
    /\ Totals \subseteq 0..MaxSafe /\ Entries \subseteq Int

Units == 0..Top
Ways == {"rx", "tx"}
NaN == -1

VARIABLES
    correctionUnit,
    correction,     \* [rx, tx] the inputs, in thousandths of the unit
    meant,          \* history variable: [rx, tx] the bytes loaded or typed, NaN if invalid
    coarsest,       \* history variable: the coarsest unit the inputs were shown in since
    applied         \* [rx, tx] the totals the server holds

unitVars == <<correctionUnit, correction, meant, coarsest, applied>>

UnitsTypeOK ==
    /\ correctionUnit \in Units /\ coarsest \in Units
    /\ correction \in [Ways -> Int] /\ meant \in [Ways -> Int] /\ applied \in [Ways -> Nat]

Size(unit) == Kilo ^ unit
Round(a, b) == (2 * a + b) \div (2 * b)
Counter(bytes) == IF bytes = NaN THEN 0 ELSE bytes

TrafficBytesFrom(value, unit) ==
    LET bytes == Round(value * Size(unit), 1000)
    IN  IF value >= 0 /\ bytes <= MaxSafe THEN bytes ELSE NaN

\* Fault: one decimal instead of three.
TrafficValueCoarse(bytes, unit) ==
    IF unit = 0 THEN 1000 * Counter(bytes) ELSE 100 * Round(10 * Counter(bytes), Size(unit))

TrafficValueInUnit(bytes, unit) ==
    IF unit = 0 THEN 1000 * Counter(bytes) ELSE Round(1000 * Counter(bytes), Size(unit))

SuggestedTrafficUnit(totals) ==
    LET most == IF totals["rx"] > totals["tx"] THEN totals["rx"] ELSE totals["tx"]
    IN  CHOOSE u \in Units : /\ u = 0 \/ most >= Size(u)
                             /\ \A v \in Units : v > u => most < Size(v)

\* syncCorrectionInputs, in the unit shown.
Sync(totals, unit) ==
    /\ correctionUnit' = unit /\ coarsest' = unit
    /\ correction' = [w \in Ways |-> TrafficValueInUnit(totals[w], unit)]
    /\ meant' = totals

UnitsInit ==
    \E totals \in [Ways -> Totals] :
        /\ correctionUnit = SuggestedTrafficUnit(totals) /\ coarsest = correctionUnit
        /\ correction = [w \in Ways |-> TrafficValueInUnit(totals[w], correctionUnit)]
        /\ meant = totals /\ applied = totals

----------------------------------------------------------------------------
\* edit(): a drawer opens with the totals the server reports.
OpenCorrection(totals) == Sync(totals, SuggestedTrafficUnit(totals)) /\ UNCHANGED applied

ChangeCorrectionUnit(next) ==
    /\ correctionUnit' = next
    /\ correction' = [w \in Ways |->
                        TrafficValueInUnit(TrafficBytesFrom(correction[w], correctionUnit), next)]
    /\ coarsest' = IF next > coarsest THEN next ELSE coarsest
    /\ UNCHANGED <<meant, applied>>

Type(w, value) ==
    /\ correction' = [correction EXCEPT ![w] = value]
    /\ meant' = [meant EXCEPT ![w] = TrafficBytesFrom(value, correctionUnit)]
    /\ UNCHANGED <<correctionUnit, coarsest, applied>>

\* applyTrafficCorrection and its answer: invalid inputs are refused, else the server
\* stores the totals and the inputs are synced with what it answers.
ApplyTrafficCorrection ==
    LET sent == [w \in Ways |-> TrafficBytesFrom(correction[w], correctionUnit)]
    IN  /\ \A w \in Ways : sent[w] # NaN
        /\ applied' = sent /\ Sync(sent, correctionUnit)

\* clearTrafficCorrection: the server answers the Agent's own totals.
ClearTrafficCorrection(totals) == applied' = totals /\ Sync(totals, correctionUnit)

UnitsNext ==
    \/ \E totals \in [Ways -> Totals] : OpenCorrection(totals) \/ ClearTrafficCorrection(totals)
    \/ \E unit \in Units : ChangeCorrectionUnit(unit)
    \/ \E w \in Ways, value \in Entries : Type(w, value)
    \/ ApplyTrafficCorrection

UnitsSpec == UnitsInit /\ [][UnitsNext]_unitVars

----------------------------------------------------------------------------
Apart(a, b) == IF a > b THEN a - b ELSE b - a

\* However often the unit is changed, Apply sends what was loaded or typed up to half a
\* thousandth of the coarsest unit shown on the way: conversions do not add up.
DriftBounded ==
    UnitsTypeOK /\ \A w \in Ways : meant[w] # NaN =>
        Apart(TrafficBytesFrom(correction[w], correctionUnit), meant[w])
            <= Size(coarsest) \div 2000 + 2
=============================================================================
