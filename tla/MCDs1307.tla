------------------------------ MODULE MCDs1307 ------------------------------
(***************************************************************************)
(* Moments for the model checking of Ds1307.                               *)
(***************************************************************************)
EXTENDS Ds1307

At(y, m, d, hour, min, sec) ==
    timegm(y, m, d) * SecondsPerDay + hour * 3600 + min * 60 + sec

\* The last seconds of years and of Februaries around two leap years, those before
\* the hours at which the two formats differ, the time a chip without battery starts
\* with, and the one that is set after a failed synchronisation (ntp.cpp:180-187).
MCTimes ==
    {At(y, m, 1, 0, 0, 0) - 1 : y \in 2024 .. 2029, m \in {1, 3}}
      \cup {At(y, 2, 29, 0, 0, 0) - 1 : y \in {2024, 2028}}
      \cup {At(2026, 7, 19, hour, 59, 59) : hour \in {0, 9, 11, 12, 22}}
      \cup {At(2000, 1, 1, 0, 0, 0), At(2036, 2, 7, 6, 28, 16)}
============================================================================
