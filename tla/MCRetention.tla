----------------------------- MODULE MCRetention -----------------------------
(* Small instances of Retention for TLC.                                   *)
EXTENDS Retention

V(digits, unit) == [digits |-> digits, unit |-> unit]

MCConfigs ==
    {<<"hour", V(<<0, 0>>, "h")>>, <<"hour", V(<<1>>, "h")>>, <<"hour", V(<<3>>, "h")>>,
     <<"day", V(<<0, 3>>, "d")>>, <<"day", V(<<1, 0>>, "d")>>, <<"day", V(<<1>>, "m")>>,
     <<"week", Unset>>, <<"week", V(<<4>>, "w")>>, <<"week", V(<<3>>, "m")>>,
     <<"month", V(<<0>>, "y")>>, <<"month", V(<<3>>, "m")>>, <<"month", V(<<1>>, "y")>>,
     <<"year", V(<<2>>, "y")>>, <<"year", V(<<3, 0, 0, 0>>, "y")>>}

(* Before the last day of February in a common year, in a leap year and in  *)
(* a century year that is none.                                             *)
MCStarts == {DayNumber(2023, 2, 27) * Day, DayNumber(2024, 2, 27) * Day + 90,
             DayNumber(2100, 2, 27) * Day}
=============================================================================
