--------------------------- MODULE MCAlertEngine ---------------------------
(* Two alerts on one ticker, with cooldowns of different lengths.  The     *)
(* quotes make each fire alone, both fire, or none.                        *)
EXTENDS AlertEngine

CONSTANTS a1, a2, A

MCAlert == {a1, a2}
MCTicker == {A}
MCQuote == {[open |-> 100, close |-> 100], [open |-> 100, close |-> 90],
            [open |-> 120, close |-> 101]}

Above(level, cooldown) ==
    [ticker |-> A, condition |-> "above", threshold |-> level,
     cooldown |-> cooldown, channels |-> {"email"}]

Fall(percent, cooldown) ==
    [ticker |-> A, condition |-> "percent_change_below", threshold |-> percent,
     cooldown |-> cooldown, channels |-> {}]

\* a1 fires above 99, a2 on a fall by 5 percent.
MCDef == [a \in MCAlert |-> IF a = a1 THEN Above(99, 1) ELSE Fall(5, 2)]

\* a2 as the documentation enters it: percent_change_below -5.
MCDefDocumented == [a \in MCAlert |-> IF a = a1 THEN Above(99, 1) ELSE Fall(-5, 2)]
=============================================================================
